----------------------------- MODULE TerminalProofs -----------------------------
(***************************************************************************)
(* The two sides of the terminal: TtyReader, for every set of units and    *)
(* every size of the buffer, and UiRuntime, for any number of restarts, of *)
(* inputs and of events in flight.                                         *)
(*                                                                         *)
(* TtyReader.  Whatever its state, the parser holds or gives out every     *)
(* byte it is fed (StepTakes), a sequence of bytes included (FeedTakes),   *)
(* and ReaderInv says where the bytes typed are.  What it gives out does   *)
(* not depend on what it gave out before (StepPlain), so a parser in       *)
(* Ground gives for a key what it gives for that key alone, whatever the   *)
(* pieces (AfterConcat, AfterBefore).  KeysInv says this of all that is    *)
(* still on its way, and the last part that each form of a key gives its   *)
(* kind.                                                                   *)
(*                                                                         *)
(* UiRuntime.  Type correctness and AttachedToPresent together are         *)
(* inductive: every spawn goes through Respawn, which first kills the only *)
(* child that may live and then moves the handle, the session and the      *)
(* generation together.  From these follow what becomes of late exits      *)
(* (ExitInv), of the buffer, and of the order of the inputs (OrderInv).    *)
(***************************************************************************)
EXTENDS TtyReader, UiRuntime, SequenceLemmas

-----------------------------------------------------------------------------
(* UiRuntime. *)

UiInv == UiTypeOK /\ AttachedToPresent

\* The reducer of src/ui/pty keeps to its states, and only a Restarting or a
\* buffering state becomes Attached.
LEMMA ReducerType ==
    ASSUME NEW s \in Lifecycle, ~IsBuffering(s) => s.buffer = <<>>, NEW i \in Nat
    PROVE  /\ GotOutput(s) \in Lifecycle
           /\ ~IsBuffering(GotOutput(s)) => GotOutput(s).buffer = <<>>
           /\ Flushed(s) \in Seq(Nat)
           /\ BufferInput(s, i) \in Lifecycle
           /\ ~IsBuffering(BufferInput(s, i)) => BufferInput(s, i).buffer = <<>>
           /\ BufferInput(s, i).phase = s.phase
           /\ SpawnFailed(s) \in Lifecycle
           /\ ~IsBuffering(SpawnFailed(s)) => SpawnFailed(s).buffer = <<>>
           /\ SpawnFailed(s).phase \in {s.phase, "pending"}
<1> USE DEF IsReady, IsAttached, IsRestarting, IsBuffering
<1>1. s.phase \in LifecyclePhases /\ s.buffer \in Seq(Nat)
  BY DEF Lifecycle
<1>2. Flushed(s) \in Seq(Nat)
  BY <1>1, EmptySeq DEF Flushed
<1>3. /\ GotOutput(s) \in Lifecycle
      /\ ~IsBuffering(GotOutput(s)) => GotOutput(s).buffer = <<>>
  BY <1>1, EmptySeq DEF GotOutput, Lifecycle, LifecyclePhases
<1>4. /\ BufferInput(s, i) \in Lifecycle
      /\ ~IsBuffering(BufferInput(s, i)) => BufferInput(s, i).buffer = <<>>
      /\ BufferInput(s, i).phase = s.phase
  <2>1. Append(s.buffer, i) \in Seq(Nat)
    BY <1>1, AppendProperties
  <2> QED
    BY <1>1, <2>1 DEF BufferInput, Lifecycle, LifecyclePhases
<1>5. /\ SpawnFailed(s) \in Lifecycle
      /\ ~IsBuffering(SpawnFailed(s)) => SpawnFailed(s).buffer = <<>>
      /\ SpawnFailed(s).phase \in {s.phase, "pending"}
  BY <1>1, EmptySeq DEF SpawnFailed, Pending, Lifecycle, LifecyclePhases
<1> QED
  BY <1>2, <1>3, <1>4, <1>5

\* What a handler does to its queues stays within their types.
LEMMA QueueType ==
    ASSUME UiTypeOK
    PROVE  /\ \A e \in EventType : Append(events, e) \in Seq(EventType)
           /\ events # <<>> => /\ Tail(events) \in Seq(EventType)
                               /\ Head(events) \in EventType
                               /\ \A t \in Seq(EventType) :
                                      Tail(events) \o t \in Seq(EventType)
<1>1. events \in Seq(EventType)
  BY DEF UiTypeOK
<1>2. ASSUME events # <<>>
      PROVE  Tail(events) \in Seq(EventType) /\ Head(events) \in EventType
  BY <1>1, <1>2, HeadTailProperties
<1>3. \A s, t \in Seq(EventType) : s \o t \in Seq(EventType)
  BY ConcatProperties
<1> QED
  BY <1>1, <1>2, <1>3, AppendProperties

\* Input written to a PTY changes nothing but what the PTY was given.
LEMMA WrittenType ==
    ASSUME UiTypeOK, NEW g \in DOMAIN ptys, NEW t \in Seq(Nat)
    PROVE  /\ DOMAIN Written(g, t) = DOMAIN ptys
           /\ Written(g, t) \in [DOMAIN ptys -> Pty]
           /\ \A h \in DOMAIN ptys : Written(g, t)[h].alive = ptys[h].alive
<1>1. ptys \in [DOMAIN ptys -> Pty]
  BY DEF UiTypeOK
<1>2. ptys[g].written \o t \in Seq(Nat)
  BY <1>1, ConcatProperties DEF Pty
<1> QED
  BY <1>1, <1>2, ZenonT(60) DEF Written, Pty

\* Killing the present child leaves none, and spawning under the next
\* generation moves handle, session and generation together.
LEMMA RespawnKeepsInv ==
    ASSUME UiInv, events # <<>>, NEW session \in Nat, NEW resumed \in BOOLEAN,
           NEW agents \in {0, 1}, Respawn(session, resumed, agents)
    PROVE  /\ lifecycle' \in Lifecycle
           /\ ~IsBuffering(lifecycle') => lifecycle'.buffer = <<>>
           /\ pty_generation' \in Nat
           /\ ptys' \in [DOMAIN ptys' -> Pty] /\ DOMAIN ptys' \subseteq 0..pty_generation'
           /\ pty_session' \in DOMAIN ptys'
           /\ pty_handle' \in {NoPty, pty_session'}
           /\ events' \in Seq(EventType)
           /\ AttachedToPresent'
<1> DEFINE next == pty_generation + 1
<1> USE DEF UiInv
<1>1. PICK e \in {<<>>, <<Event("exit", pty_session)>>}, reader \in BOOLEAN :
        /\ events' = Tail(events) \o e
        /\ pty_generation' = next
        /\ \/ /\ ptys' = [g \in DOMAIN ptys \cup {next} |->
                            IF g = next THEN Spawned(session, resumed, agents)
                            ELSE AfterShutdown(reader)[g]]
              /\ pty_session' = next
              /\ pty_handle' = next
              /\ lifecycle' = Attach(Detach(lifecycle))
           \/ /\ ptys' = AfterShutdown(reader)
              /\ pty_handle' = NoPty
              /\ lifecycle' = SpawnFailed(Detach(lifecycle))
              /\ UNCHANGED pty_session
  BY DEF Respawn
<1>2. /\ pty_generation \in Nat /\ DOMAIN ptys \subseteq 0..pty_generation
      /\ ptys \in [DOMAIN ptys -> Pty] /\ pty_session \in DOMAIN ptys
      /\ pty_session \in Nat
  BY DEF UiTypeOK
<1>3. /\ AfterShutdown(reader) \in [DOMAIN ptys -> Pty]
      /\ \A g \in DOMAIN ptys : ~AfterShutdown(reader)[g].alive
  BY <1>2, ZenonT(60) DEF AfterShutdown, Pty, AttachedToPresent, Live
<1>4. Spawned(session, resumed, agents) \in Pty
  BY DEF Spawned, Pty
<1>5. events' \in Seq(EventType)
  <2>1. e \in Seq(EventType)
    <3>1. Event("exit", pty_session) \in EventType
      BY <1>2 DEF Event, EventType, EventKinds
    <3>2. <<Event("exit", pty_session)>> \in Seq(EventType)
      BY <3>1
    <3> QED
      BY <3>2, EmptySeq
  <2> QED
    BY <1>1, <2>1, QueueType
<1>6. CASE pty_session' = next /\ pty_handle' = next
  <2>1. /\ ptys' = [g \in DOMAIN ptys \cup {next} |->
                      IF g = next THEN Spawned(session, resumed, agents)
                      ELSE AfterShutdown(reader)[g]]
        /\ lifecycle' = Attach(Restarting)
    BY <1>1, <1>2, <1>6 DEF Detach, NoPty
  <2>2. lifecycle' = [phase |-> "attached", buffer |-> <<>>]
    BY <2>1 DEF Attach, Restarting, IsReady
  <2>3. /\ DOMAIN ptys' = DOMAIN ptys \cup {next}
        /\ ptys' \in [DOMAIN ptys' -> Pty]
        /\ \A g \in DOMAIN ptys' : g # next => ~ptys'[g].alive
    BY <2>1, <1>3, <1>4
  <2> QED
    BY <1>1, <1>2, <1>5, <1>6, <2>2, <2>3
    DEF AttachedToPresent, Live, Lifecycle, LifecyclePhases, IsBuffering
<1>7. CASE ~(pty_session' = next /\ pty_handle' = next)
  <2>1. /\ ptys' = AfterShutdown(reader)
        /\ pty_handle' = NoPty
        /\ lifecycle' = SpawnFailed(Restarting)
        /\ UNCHANGED pty_session
    BY <1>1, <1>7 DEF Detach
  <2>2. lifecycle' = [phase |-> "pending", buffer |-> <<>>]
    BY <2>1 DEF SpawnFailed, Restarting, IsRestarting, Pending
  <2> QED
    BY <1>1, <1>2, <1>3, <1>5, <2>1, <2>2
    DEF AttachedToPresent, Live, Lifecycle, LifecyclePhases, IsBuffering, IsAttached, IsReady
<1> QED
  BY <1>6, <1>7

LEMMA UiInitInv == UiInit => UiInv
<1> SUFFICES ASSUME UiInit PROVE UiInv
  OBVIOUS
<1>1. lifecycle = [phase |-> "attached", buffer |-> <<>>]
  BY DEF UiInit, Attach, Pending, IsReady
<1>2. /\ DOMAIN ptys = {0} /\ ptys[0] \in Pty
      /\ ptys \in [DOMAIN ptys -> Pty]
  BY UiAssumption, EmptySeq DEF UiInit, Spawned, Pty
<1>3. UiTypeOK
  <2>1. /\ events \in Seq(EventType) /\ commands \in Seq(CommandType)
        /\ <<>> \in Seq(Nat)
    BY EmptySeq DEF UiInit
  <2>2. lifecycle \in Lifecycle /\ IsBuffering(lifecycle)
    BY <1>1, <2>1 DEF Lifecycle, LifecyclePhases, IsBuffering
  <2> QED
    BY <1>2, <2>1, <2>2 DEF UiInit, UiTypeOK
<1>4. AttachedToPresent
  BY <1>2 DEF UiInit, AttachedToPresent, Live
<1> QED
  BY <1>3, <1>4 DEF UiInv

\* The other threads only add events, and children only die.
LEMMA OthersKeepInv ==
    ASSUME UiInv, Keyboard \/ PtyStep \/ Bridge
    PROVE  UiInv'
<1> USE DEF UiInv
<1>1. CASE Keyboard
  <2>1. events' \in Seq(EventType)
    <3>1. /\ Event("ctrl_r", 0) \in EventType /\ Event("ctrl_q", 0) \in EventType
          /\ \A v \in {0, 1} : Event("apply", v) \in EventType
          /\ \A n \in Nat : Event("input", n) \in EventType
      BY DEF Event, EventType, EventKinds
    <3>2. typed + 1 \in Nat
      BY DEF UiTypeOK
    <3> QED
      BY <1>1, <3>1, <3>2, QueueType DEF Keyboard, Type, Press, Post
  <2>2. typed' \in Nat /\ presses' \in Nat
    BY <1>1 DEF Keyboard, Type, Press, UiTypeOK
  <2> QED
    BY <1>1, <2>1, <2>2 DEF Keyboard, UiTypeOK, AttachedToPresent, Live
<1>2. CASE PtyStep
  <2>1. PICK g \in DOMAIN ptys : ChildExits(g) \/ ReaderOutput(g) \/ ReaderEnds(g)
    BY <1>2 DEF PtyStep
  <2>2. ptys \in [DOMAIN ptys -> Pty] /\ DOMAIN ptys \subseteq Nat
    BY DEF UiTypeOK
  <2>3. events' \in Seq(EventType)
    <3>1. Event("output", 0) \in EventType /\ Event("exit", g) \in EventType
      BY <2>2 DEF Event, EventType, EventKinds
    <3> QED
      BY <2>1, <3>1, QueueType DEF ChildExits, ReaderOutput, ReaderEnds, Post, UiTypeOK
  <2>4. /\ DOMAIN ptys' = DOMAIN ptys
        /\ ptys' \in [DOMAIN ptys -> Pty]
        /\ \A h \in DOMAIN ptys : ptys'[h].alive => ptys[h].alive
    <3>1. CASE ChildExits(g)
      BY <2>2, <3>1 DEF ChildExits, Pty
    <3>2. CASE ReaderOutput(g)
      BY <2>2, <3>2, ZenonT(60) DEF ReaderOutput, Pty
    <3>3. CASE ReaderEnds(g)
      BY <2>2, <3>3 DEF ReaderEnds, Pty
    <3> QED
      BY <2>1, <3>1, <3>2, <3>3
  <2> QED
    BY <1>2, <2>3, <2>4 DEF PtyStep, UiTypeOK, AttachedToPresent, Live
<1>3. CASE Bridge
  <2>1. commands' \in Seq(CommandType) /\ Head(commands).value \in {0, 1}
    <3>1. commands \in Seq(CommandType) /\ commands # <<>> /\ commands' = Tail(commands)
      BY <1>3 DEF Bridge, UiTypeOK
    <3>2. Head(commands) \in CommandType /\ Tail(commands) \in Seq(CommandType)
      BY <3>1, HeadTailProperties
    <3> QED
      BY <3>1, <3>2 DEF CommandType
  <2>2. events' \in Seq(EventType)
    <3>1. \A v \in {0, 1} : /\ Event("restart_claude", v) \in EventType
                            /\ Event("pty_restart", v) \in EventType
      BY DEF Event, EventType, EventKinds
    <3> QED
      BY <1>3, <2>1, <3>1, QueueType DEF Bridge, Post, UiTypeOK
  <2>3. saved' \in {0, 1}
    BY <1>3, <2>1 DEF Bridge, UiTypeOK
  <2> QED
    BY <1>3, <2>1, <2>2, <2>3 DEF Bridge, UiTypeOK, AttachedToPresent, Live
<1> QED
  BY <1>1, <1>2, <1>3

\* A command is sent or refused, and the lifecycle leaves Attached and Ready.
LEMMA RequestRestartKeepsType ==
    ASSUME UiTypeOK, NEW kind \in CommandKinds, NEW v \in {0, 1}, RequestRestart(kind, v)
    PROVE  /\ commands' \in Seq(CommandType)
           /\ lifecycle' \in Lifecycle /\ lifecycle'.buffer = <<>>
           /\ ~IsAttached(lifecycle') /\ ~IsReady(lifecycle')
<1>1. Event(kind, v) \in CommandType /\ commands \in Seq(CommandType)
  BY DEF Event, CommandType, UiTypeOK
<1>2. commands' \in Seq(CommandType)
  BY <1>1, AppendProperties DEF RequestRestart, Send
<1>3. lifecycle' \in {Restarting, Pending}
  BY DEF RequestRestart, Detach, SpawnFailed
<1>4. \A s \in {Restarting, Pending} : /\ s \in Lifecycle /\ s.buffer = <<>>
                                       /\ ~IsAttached(s) /\ ~IsReady(s)
  <2>1. /\ Restarting \in Lifecycle /\ Restarting.buffer = <<>>
        /\ ~IsAttached(Restarting) /\ ~IsReady(Restarting)
    BY EmptySeq DEF Restarting, Lifecycle, LifecyclePhases, IsAttached, IsReady
  <2>2. /\ Pending \in Lifecycle /\ Pending.buffer = <<>>
        /\ ~IsAttached(Pending) /\ ~IsReady(Pending)
    BY EmptySeq DEF Pending, Lifecycle, LifecyclePhases, IsAttached, IsReady
  <2> QED
    BY <2>1, <2>2
<1> QED
  BY <1>2, <1>3, <1>4

\* No handler breaks the invariant.
LEMMA HandlersKeepInv ==
    ASSUME UiInv, HandleEvent
    PROVE  UiInv'
<1> USE DEF UiInv
<1>1. /\ events # <<>> /\ Tail(events) \in Seq(EventType) /\ Value \in Nat
      /\ typed' \in Nat /\ presses' \in Nat
  <2>1. events # <<>>
    BY DEF HandleEvent, OnInput, OnQuit, OnCtrlR, OnApply, OnOutput, OnRestartClaude,
           OnPtyRestart, OnExit, Handles
  <2> QED
    BY <2>1, QueueType DEF HandleEvent, Value, EventType, UiTypeOK
<1>2. CASE OnInput
  <2>1. CASE IsReady(lifecycle)
    <3>1. pty_handle \in DOMAIN ptys /\ <<Value>> \in Seq(Nat)
      BY <2>1, <1>1 DEF AttachedToPresent, UiTypeOK
    <3>2. ptys' = Written(pty_handle, <<Value>>) /\ UNCHANGED lifecycle
      BY <1>2, <2>1 DEF OnInput, SendInput
    <3>3. /\ DOMAIN ptys' = DOMAIN ptys /\ ptys' \in [DOMAIN ptys -> Pty]
          /\ \A h \in DOMAIN ptys : ptys'[h].alive = ptys[h].alive
      BY <3>1, <3>2, WrittenType
    <3> QED
      BY <1>1, <1>2, <3>2, <3>3 DEF OnInput, Done, UiTypeOK, AttachedToPresent, Live
  <2>2. CASE ~IsReady(lifecycle)
    <3>1. lifecycle' = BufferInput(lifecycle, Value) /\ UNCHANGED ptys
      BY <1>2, <2>2 DEF OnInput, SendInput
    <3>2. /\ lifecycle' \in Lifecycle
          /\ ~IsBuffering(lifecycle') => lifecycle'.buffer = <<>>
          /\ lifecycle'.phase = lifecycle.phase
      BY <1>1, <3>1, ReducerType DEF UiTypeOK
    <3> QED
      BY <1>1, <1>2, <3>1, <3>2
      DEF OnInput, Done, UiTypeOK, AttachedToPresent, Live, IsAttached, IsReady
  <2> QED
    BY <2>1, <2>2
<1>3. CASE OnQuit
  BY <1>1, <1>3 DEF OnQuit, Done, UiTypeOK, AttachedToPresent, Live
<1>4. CASE OnCtrlR
  <2>1. /\ commands' \in Seq(CommandType)
        /\ lifecycle' \in Lifecycle /\ lifecycle'.buffer = <<>>
        /\ ~IsAttached(lifecycle') /\ ~IsReady(lifecycle')
    BY <1>4, RequestRestartKeepsType DEF OnCtrlR, CommandKinds
  <2> QED
    BY <1>1, <1>4, <2>1 DEF OnCtrlR, Done, UiTypeOK, AttachedToPresent, Live
<1>5. CASE OnApply
  <2>0. settings' \in {0, 1}
    <3>1. Head(events) \in EventType /\ Head(events).kind = "apply"
      BY <1>1, <1>5, QueueType DEF OnApply, Handles
    <3> QED
      BY <1>5, <3>1 DEF OnApply, Value, EventType
  <2>1. CASE Value # settings
    <3>1. /\ commands' \in Seq(CommandType)
          /\ lifecycle' \in Lifecycle /\ lifecycle'.buffer = <<>>
          /\ ~IsAttached(lifecycle') /\ ~IsReady(lifecycle')
      BY <1>5, <2>0, <2>1, RequestRestartKeepsType DEF OnApply, CommandKinds
    <3> QED
      BY <1>1, <1>5, <2>0, <3>1 DEF OnApply, Done, UiTypeOK, AttachedToPresent, Live
  <2>2. CASE Value = settings
    BY <1>1, <1>5, <2>0, <2>2 DEF OnApply, Done, UiTypeOK, AttachedToPresent, Live
  <2> QED
    BY <2>1, <2>2
<1>6. CASE OnOutput
  <2>1. CASE ~IsReady(lifecycle) /\ Drawn
    <3>1. pty_handle \in DOMAIN ptys
      BY <2>1 DEF Drawn, UiTypeOK
    <3>2. /\ lifecycle' = GotOutput(lifecycle)
          /\ ptys' = Written(pty_handle, Flushed(lifecycle))
          /\ restart_can_retry' = FALSE
      BY <1>6, <2>1 DEF OnOutput
    <3>3. /\ lifecycle' \in Lifecycle /\ Flushed(lifecycle) \in Seq(Nat)
          /\ ~IsBuffering(lifecycle') => lifecycle'.buffer = <<>>
      BY <3>2, ReducerType DEF UiTypeOK
    <3>4. /\ DOMAIN ptys' = DOMAIN ptys /\ ptys' \in [DOMAIN ptys -> Pty]
          /\ \A h \in DOMAIN ptys : ptys'[h].alive = ptys[h].alive
      BY <3>1, <3>2, <3>3, WrittenType
    <3>5. IsAttached(lifecycle') \/ IsReady(lifecycle') => IsAttached(lifecycle)
      BY <3>2, <2>1 DEF GotOutput, IsAttached, IsReady
    <3> QED
      BY <1>1, <1>6, <3>2, <3>3, <3>4, <3>5
      DEF OnOutput, Done, UiTypeOK, AttachedToPresent, Live
  <2>2. CASE ~(~IsReady(lifecycle) /\ Drawn)
    BY <1>1, <1>6, <2>2 DEF OnOutput, Done, UiTypeOK, AttachedToPresent, Live
  <2> QED
    BY <2>1, <2>2
<1>7. CASE OnRestartClaude
  <2>1. Respawn(0, TRUE, settings) /\ settings \in {0, 1}
    BY <1>7 DEF OnRestartClaude, UiTypeOK
  <2>2. restart_can_retry' \in BOOLEAN
    BY <1>7 DEF OnRestartClaude, IsAttached
  <2> QED
    BY <1>1, <1>7, <2>1, <2>2, RespawnKeepsInv DEF OnRestartClaude, UiTypeOK
<1>8. CASE OnPtyRestart
  <2>1. sessions' \in Nat
    BY <1>8 DEF OnPtyRestart, ResolveSession, UiTypeOK
  <2>2. /\ (SessionSource = "resumed") \in BOOLEAN
        /\ (IF Value = 1 THEN 1 ELSE settings) \in {0, 1}
        /\ Respawn(sessions', SessionSource = "resumed", IF Value = 1 THEN 1 ELSE settings)
    BY <1>8 DEF OnPtyRestart, UiTypeOK
  <2>3. restart_can_retry' \in BOOLEAN
    BY <1>8 DEF OnPtyRestart, IsAttached
  <2> QED
    BY <1>1, <1>8, <2>1, <2>2, <2>3, RespawnKeepsInv, ZenonT(60) DEF OnPtyRestart, UiTypeOK
<1>9. CASE OnExit
  <2> DEFINE restarted == pty_generation > 0 /\ ~IsReady(lifecycle)
  <2>0. restart_can_retry' = FALSE /\ UNCHANGED <<settings, saved, commands>>
    BY <1>9 DEF OnExit
  <2>1. CASE /\ Done
             /\ lifecycle' \in {lifecycle, SpawnFailed(lifecycle)}
             /\ should_quit' \in {should_quit, TRUE}
             /\ UNCHANGED <<pty_handle, pty_generation, pty_session, ptys, sessions>>
    <3>1. /\ lifecycle' \in Lifecycle
          /\ ~IsBuffering(lifecycle') => lifecycle'.buffer = <<>>
          /\ lifecycle'.phase \in {lifecycle.phase, "pending"}
      BY <2>1, ReducerType DEF UiTypeOK
    <3> QED
      BY <1>1, <2>0, <2>1, <3>1
      DEF Done, UiTypeOK, AttachedToPresent, Live, IsAttached, IsReady
  <2>2. CASE /\ ResolveSession
             /\ Respawn(sessions', SessionSource = "resumed", settings)
             /\ UNCHANGED should_quit
    <3>1. sessions' \in Nat /\ settings \in {0, 1} /\ (SessionSource = "resumed") \in BOOLEAN
      BY <2>2 DEF ResolveSession, UiTypeOK
    <3> QED
      BY <1>1, <2>0, <2>2, <3>1, RespawnKeepsInv DEF UiTypeOK
  <2> QED
    BY <1>9, <2>1, <2>2 DEF OnExit
<1> QED
  BY <1>2, <1>3, <1>4, <1>5, <1>6, <1>7, <1>8, <1>9 DEF HandleEvent

LEMMA UiNextKeepsInv ==
    ASSUME UiInv, [UiNext]_uiVars
    PROVE  UiInv'
<1>1. CASE UNCHANGED uiVars
  BY <1>1 DEF uiVars, UiInv, UiTypeOK, AttachedToPresent, Live
<1>2. CASE OnTick /\ UNCHANGED <<typed, presses>>
  <2>1. commands' \in Seq(CommandType)
    <3>1. Event("refresh_status", 0) \in CommandType /\ commands \in Seq(CommandType)
      BY DEF Event, CommandType, CommandKinds, UiInv, UiTypeOK
    <3> QED
      BY <1>2, <3>1, AppendProperties DEF OnTick, Send
  <2> QED
    BY <1>2, <2>1 DEF OnTick, UiInv, UiTypeOK, AttachedToPresent, Live
<1> QED
  BY <1>1, <1>2, OthersKeepInv, HandlersKeepInv DEF UiNext

\* Type correctness of the event loop and the PTYs it has spawned.
THEOREM UiTypeCorrect == UiSpec => []UiTypeOK
<1>1. UiInv => UiTypeOK
  BY DEF UiInv
<1> QED
  BY <1>1, UiInitInv, UiNextKeepsInv, PTL DEF UiSpec

\* Input goes to the PTY of the present generation, and no other child lives,
\* after any number of restarts, overlapping or failed.
THEOREM InputReachesPresentPty == UiSpec => []AttachedToPresent
<1>1. UiInv => AttachedToPresent
  BY DEF UiInv
<1> QED
  BY <1>1, UiInitInv, UiNextKeepsInv, PTL DEF UiSpec

-----------------------------------------------------------------------------
(* What an exit in the queue says.  It is of a child that was spawned and   *)
(* has died, so a generation to come has none, and one that is not stale is *)
(* of the PTY the loop owns.                                                *)

Believable ==
    {e \in EventType : e.kind = "exit" => e.value \in DOMAIN ptys /\ ~ptys[e.value].alive}

ExitInv ==
    /\ UiInv
    /\ DOMAIN ptys \subseteq 0..pty_session
    /\ pty_handle # NoPty => pty_session = pty_generation
    /\ events \in Seq(Believable)

\* The dead stay dead: what was believable remains so.
LEMMA StillBelievable ==
    ASSUME ExitInv, DOMAIN ptys \subseteq DOMAIN ptys',
           \A h \in DOMAIN ptys : ptys'[h].alive => ptys[h].alive
    PROVE  /\ events \in Seq(Believable')
           /\ \A e \in Believable' : Append(events, e) \in Seq(Believable')
           /\ events # <<>> => /\ Tail(events) \in Seq(Believable')
                               /\ \A e \in Believable' : Tail(events) \o <<e>> \in Seq(Believable')
<1>1. Believable \subseteq Believable'
  BY DEF Believable
<1>2. events \in Seq(Believable')
  <2>1. \A i \in 1..Len(events) : events[i] \in Believable'
    BY <1>1, ElementOfSeq DEF ExitInv
  <2> QED
    BY <2>1 DEF ExitInv
<1>3. ASSUME events # <<>>
      PROVE  Tail(events) \in Seq(Believable')
  BY <1>2, <1>3, HeadTailProperties
<1>4. ASSUME events # <<>>, NEW e \in Believable'
      PROVE  Tail(events) \o <<e>> \in Seq(Believable')
  <2>1. <<e>> \in Seq(Believable')
    OBVIOUS
  <2> QED
    BY <1>3, <1>4, <2>1, ConcatProperties
<1> QED
  BY <1>2, <1>3, <1>4, AppendProperties

\* The steps that spawn nothing: what they post, and what they leave alone.
LEMMA QuietKeepsExitInv ==
    ASSUME ExitInv, UiInv',
           UNCHANGED <<pty_handle, pty_generation, pty_session>>,
           DOMAIN ptys' = DOMAIN ptys,
           \A h \in DOMAIN ptys : ptys'[h].alive => ptys[h].alive,
           \/ events' = events
           \/ \E e \in Believable' : events' = Append(events, e)
           \/ events # <<>> /\ events' = Tail(events)
    PROVE  ExitInv'
BY StillBelievable DEF ExitInv

LEMMA RespawnKeepsExitInv ==
    ASSUME ExitInv, UiInv', events # <<>>,
           NEW session, NEW resumed, NEW agents, Respawn(session, resumed, agents)
    PROVE  ExitInv'
<1> DEFINE next == pty_generation + 1
<1>1. PICK e \in {<<>>, <<Event("exit", pty_session)>>}, reader \in BOOLEAN :
        /\ events' = Tail(events) \o e
        /\ pty_generation' = next
        /\ \/ /\ ptys' = [g \in DOMAIN ptys \cup {next} |->
                            IF g = next THEN Spawned(session, resumed, agents)
                            ELSE AfterShutdown(reader)[g]]
              /\ pty_session' = next
              /\ pty_handle' = next
           \/ /\ ptys' = AfterShutdown(reader)
              /\ pty_handle' = NoPty
              /\ UNCHANGED pty_session
  BY DEF Respawn
<1>2. /\ pty_generation \in Nat /\ DOMAIN ptys \subseteq 0..pty_generation
      /\ ptys \in [DOMAIN ptys -> Pty] /\ pty_session \in DOMAIN ptys
      /\ pty_session \in Nat /\ DOMAIN ptys \subseteq 0..pty_session
  BY DEF ExitInv, UiInv, UiTypeOK
<1>3. /\ DOMAIN AfterShutdown(reader) = DOMAIN ptys
      /\ \A g \in DOMAIN ptys : ~AfterShutdown(reader)[g].alive
  BY <1>2 DEF AfterShutdown, Pty, AttachedToPresent, Live, ExitInv, UiInv
<1>4. /\ DOMAIN ptys \subseteq DOMAIN ptys'
      /\ \A g \in DOMAIN ptys : ~ptys'[g].alive
      /\ DOMAIN ptys' \subseteq 0..pty_session'
      /\ pty_handle' # NoPty => pty_session' = pty_generation'
  <2>1. CASE ptys' = AfterShutdown(reader) /\ pty_handle' = NoPty /\ UNCHANGED pty_session
    BY <1>2, <1>3, <2>1
  <2>2. CASE /\ ptys' = [g \in DOMAIN ptys \cup {next} |->
                           IF g = next THEN Spawned(session, resumed, agents)
                           ELSE AfterShutdown(reader)[g]]
             /\ pty_session' = next
             /\ pty_handle' = next
    <3>1. DOMAIN ptys' = DOMAIN ptys \cup {next}
      BY <2>2
    <3>2. next \notin DOMAIN ptys
      BY <1>2
    <3>3. \A g \in DOMAIN ptys : ptys'[g] = AfterShutdown(reader)[g]
      BY <2>2, <3>2
    <3>4. DOMAIN ptys \cup {next} \subseteq 0..next
      BY <1>2
    <3> QED
      BY <1>1, <1>3, <2>2, <3>1, <3>3, <3>4
  <2> QED
    BY <1>1, <2>1, <2>2
<1>5. Event("exit", pty_session) \in Believable'
  <2>1. Event("exit", pty_session) \in EventType
    BY <1>2 DEF Event, EventType, EventKinds
  <2>2. pty_session \in DOMAIN ptys' /\ ~ptys'[pty_session].alive
    BY <1>2, <1>4
  <2> QED
    BY <2>1, <2>2 DEF Event, Believable
<1>6. Tail(events) \o <<>> = Tail(events)
  BY HeadTailProperties, ConcatEmptySeq DEF ExitInv
<1>7. events' \in Seq(Believable')
  BY <1>1, <1>4, <1>5, <1>6, StillBelievable
<1> QED
  BY <1>4, <1>7 DEF ExitInv

LEMMA ExitInitInv == UiInit => ExitInv
<1> SUFFICES ASSUME UiInit PROVE ExitInv
  OBVIOUS
<1>1. events \in Seq(Believable)
  BY EmptySeq DEF UiInit
<1> QED
  BY <1>1, UiInitInv DEF UiInit, ExitInv

LEMMA OthersKeepExitInv ==
    ASSUME ExitInv, UiInv', Keyboard \/ PtyStep \/ Bridge \/ OnTick
    PROVE  ExitInv'
<1>0. UiTypeOK /\ UiTypeOK'
  BY DEF ExitInv, UiInv
<1>1. CASE Keyboard
  <2>1. typed + 1 \in Nat
    BY <1>0 DEF UiTypeOK
  <2>2. /\ \A n \in Nat : Event("input", n) \in Believable'
        /\ Event("ctrl_r", 0) \in Believable' /\ Event("ctrl_q", 0) \in Believable'
        /\ \A v \in {0, 1} : Event("apply", v) \in Believable'
    BY DEF Event, Believable, EventType, EventKinds
  <2>3. \E e \in Believable' : events' = Append(events, e)
    BY <1>1, <2>1, <2>2 DEF Keyboard, Type, Press, Post
  <2> QED
    BY <1>1, <2>3, QuietKeepsExitInv DEF Keyboard
<1>2. CASE PtyStep
  <2>1. PICK g \in DOMAIN ptys : ChildExits(g) \/ ReaderOutput(g) \/ ReaderEnds(g)
    BY <1>2 DEF PtyStep
  <2>2. ptys \in [DOMAIN ptys -> Pty] /\ DOMAIN ptys \subseteq Nat
    BY <1>0 DEF UiTypeOK
  <2>3. /\ DOMAIN ptys' = DOMAIN ptys
        /\ \A h \in DOMAIN ptys : ptys'[h].alive => ptys[h].alive
    <3>1. CASE ChildExits(g)
      BY <2>2, <3>1 DEF ChildExits, Pty
    <3>2. CASE ReaderOutput(g)
      BY <2>2, <3>2 DEF ReaderOutput, Pty
    <3>3. CASE ReaderEnds(g)
      BY <2>2, <3>3 DEF ReaderEnds, Pty
    <3> QED
      BY <2>1, <3>1, <3>2, <3>3
  <2>4. Event("output", 0) \in Believable'
    BY DEF Event, Believable, EventType, EventKinds
  <2>5. ASSUME ReaderEnds(g)
        PROVE  Event("exit", g) \in Believable'
    <3>1. Event("exit", g) \in EventType
      BY <2>2 DEF Event, EventType, EventKinds
    <3>2. ~ptys'[g].alive
      BY <2>3, <2>5 DEF ReaderEnds
    <3> QED
      BY <2>3, <3>1, <3>2 DEF Event, Believable
  <2>6. events' = events \/ \E e \in Believable' : events' = Append(events, e)
    BY <2>1, <2>4, <2>5 DEF ChildExits, ReaderOutput, ReaderEnds, Post
  <2> QED
    BY <1>2, <2>3, <2>6, QuietKeepsExitInv DEF PtyStep
<1>3. CASE Bridge
  <2>1. Head(commands).value \in {0, 1}
    <3>1. Head(commands) \in CommandType
      BY <1>0, <1>3, HeadTailProperties DEF Bridge, UiTypeOK
    <3> QED
      BY <3>1 DEF CommandType
  <2>2. \A v \in {0, 1} : /\ Event("restart_claude", v) \in Believable'
                          /\ Event("pty_restart", v) \in Believable'
    BY DEF Event, Believable, EventType, EventKinds
  <2>3. events' = events \/ \E e \in Believable' : events' = Append(events, e)
    BY <1>3, <2>1, <2>2 DEF Bridge, Post
  <2> QED
    BY <1>3, <2>3, QuietKeepsExitInv DEF Bridge
<1>4. CASE OnTick
  BY <1>4, QuietKeepsExitInv DEF OnTick
<1> QED
  BY <1>1, <1>2, <1>3, <1>4

\* A handler spawns, or takes an event and leaves the children to themselves.
LEMMA HandlerKinds ==
    ASSUME UiInv, HandleEvent
    PROVE  /\ events # <<>>
           /\ \/ \E session, resumed, agents : Respawn(session, resumed, agents)
              \/ /\ events' = Tail(events)
                 /\ UNCHANGED <<pty_handle, pty_generation, pty_session>>
                 /\ DOMAIN ptys' = DOMAIN ptys
                 /\ \A h \in DOMAIN ptys : ptys'[h].alive = ptys[h].alive
<1>1. events # <<>>
  BY DEF HandleEvent, OnInput, OnQuit, OnCtrlR, OnApply, OnOutput, OnRestartClaude,
         OnPtyRestart, OnExit, Handles
<1>2. CASE OnInput
  <2>1. ptys' = ptys \/ (IsReady(lifecycle) /\ ptys' = Written(pty_handle, <<Value>>))
    BY <1>2 DEF OnInput, SendInput
  <2>2. Value \in Nat
    BY <1>1, QueueType DEF Value, EventType, UiInv
  <2>3. IsReady(lifecycle) => pty_handle \in DOMAIN ptys /\ <<Value>> \in Seq(Nat)
    BY <2>2 DEF UiInv, UiTypeOK, AttachedToPresent
  <2>4. /\ DOMAIN ptys' = DOMAIN ptys
        /\ \A h \in DOMAIN ptys : ptys'[h].alive = ptys[h].alive
    BY <2>1, <2>3, WrittenType, ZenonT(60) DEF UiInv
  <2> QED
    BY <1>1, <1>2, <2>4 DEF OnInput, Done
<1>3. CASE OnQuit \/ OnCtrlR \/ OnApply
  BY <1>1, <1>3 DEF OnQuit, OnCtrlR, OnApply, Done
<1>4. CASE OnOutput
  <2>1. ptys' = ptys \/ (Drawn /\ ptys' = Written(pty_handle, Flushed(lifecycle)))
    BY <1>4 DEF OnOutput
  <2>2. Drawn => pty_handle \in DOMAIN ptys
    BY DEF Drawn, UiInv, UiTypeOK
  <2>3. Flushed(lifecycle) \in Seq(Nat)
    BY EmptySeq DEF Flushed, UiInv, UiTypeOK, Lifecycle
  <2>4. /\ DOMAIN ptys' = DOMAIN ptys
        /\ \A h \in DOMAIN ptys : ptys'[h].alive = ptys[h].alive
    BY <2>1, <2>2, <2>3, WrittenType DEF UiInv
  <2> QED
    BY <1>1, <1>4, <2>4 DEF OnOutput, Done
<1>5. CASE OnRestartClaude
  BY <1>1, <1>5 DEF OnRestartClaude
<1>6. CASE OnPtyRestart
  BY <1>1, <1>6 DEF OnPtyRestart
<1>7. CASE OnExit
  BY <1>1, <1>7 DEF OnExit, Done
<1> QED
  BY <1>2, <1>3, <1>4, <1>5, <1>6, <1>7 DEF HandleEvent

LEMMA NextKeepsExitInv ==
    ASSUME ExitInv, [UiNext]_uiVars
    PROVE  ExitInv'
<1>1. UiInv /\ UiInv'
  BY UiNextKeepsInv DEF ExitInv
<1>2. CASE UNCHANGED uiVars
  BY <1>1, <1>2, QuietKeepsExitInv DEF uiVars
<1>3. CASE HandleEvent
  BY <1>1, <1>3, HandlerKinds, QuietKeepsExitInv, RespawnKeepsExitInv
<1> QED
  BY <1>1, <1>2, <1>3, OthersKeepExitInv DEF UiNext

\* An exit that is not stale is of the present PTY, which is dead.
LEMMA FreshExitIsPresent ==
    ASSUME ExitInv, Handles("exit"), ~IsStale(Value)
    PROVE  /\ pty_session = pty_generation
           /\ ~ptys[pty_session].alive
<1>1. Head(events) \in Believable
  BY HeadTailProperties DEF ExitInv, Handles
<1>2. Value \in DOMAIN ptys /\ ~ptys[Value].alive /\ Value = pty_generation
  BY <1>1 DEF Believable, Handles, Value, IsStale
<1>3. /\ DOMAIN ptys \subseteq 0..pty_session
      /\ pty_session \in DOMAIN ptys /\ DOMAIN ptys \subseteq 0..pty_generation
      /\ pty_generation \in Nat
  BY DEF ExitInv, UiInv, UiTypeOK
<1> QED
  BY <1>2, <1>3

\* However late the exit of an earlier PTY is reported, it neither ends the
\* program nor replaces the PTY that runs.
THEOREM LateExitsEndNothing == UiSpec => ExitConcernsPresent
<1> DEFINE A == Handles("exit") /\ (should_quit' \/ pty_generation' # pty_generation)
                  => ~ptys[pty_session].alive
<1>1. ASSUME ExitInv, [UiNext]_uiVars, Handles("exit"),
             should_quit' \/ pty_generation' # pty_generation
      PROVE  ~ptys[pty_session].alive
  <2>1. ~should_quit
    BY <1>1 DEF Handles
  <2>2. HandleEvent
    BY <1>1, <2>1 DEF UiNext, uiVars, Keyboard, PtyStep, Bridge, OnTick
  <2>3. OnExit
    BY <1>1, <2>2 DEF HandleEvent, OnInput, OnQuit, OnCtrlR, OnApply, OnOutput,
                      OnRestartClaude, OnPtyRestart, Handles
  <2>4. ~IsStale(Value)
    BY <1>1, <2>1, <2>3 DEF OnExit
  <2> QED
    BY <1>1, <2>4, FreshExitIsPresent
<1>2. ExitInv /\ [UiNext]_uiVars => [A]_uiVars
  BY <1>1
<1> QED
  BY <1>2, ExitInitInv, NextKeepsExitInv, PTL DEF UiSpec, ExitConcernsPresent

-----------------------------------------------------------------------------
(* What becomes of the buffer.  Only a restart leaves it behind: the exit   *)
(* that makes one reaches the loop after the child it concerns is dead.     *)

LEMMA BufferContinues ==
    ASSUME NEW s \in Lifecycle, NEW i \in Nat
    PROVE  /\ Continues(s.buffer, s.buffer)
           /\ Continues(BufferInput(s, i).buffer, s.buffer)
<1>1. s.buffer \in Seq(Nat)
  BY DEF Lifecycle
<1>2. Len(s.buffer) \in Nat
  BY <1>1
<1>3. Continues(s.buffer, s.buffer)
  BY <1>1, <1>2 DEF Continues
<1>4. CASE IsBuffering(s)
  <2>1. BufferInput(s, i).buffer = Append(s.buffer, i)
    BY <1>4 DEF BufferInput, Lifecycle
  <2>2. SubSeq(Append(s.buffer, i), 1, Len(s.buffer)) = s.buffer
    BY <1>1
  <2> QED
    BY <1>1, <1>2, <1>3, <2>1, <2>2 DEF Continues
<1>5. CASE ~IsBuffering(s)
  BY <1>3, <1>5 DEF BufferInput
<1> QED
  BY <1>3, <1>4, <1>5

\* What was typed for a PTY that runs is kept, or is written to it, or gives way
\* to a restart the user asked for.
THEOREM BufferedInputIsKept == UiSpec => BufferedInputReachesPty
<1> DEFINE Asked == Head(events).kind \in {"ctrl_r", "apply", "restart_claude", "pty_restart"}
           Kept == \/ Continues(lifecycle'.buffer, lifecycle.buffer)
                   \/ ptys'[pty_handle].written = ptys[pty_handle].written \o lifecycle.buffer
                   \/ Asked
           A == pty_handle # NoPty /\ ptys[pty_handle].alive /\ ~IsRestarting(lifecycle') => Kept
<1>1. ASSUME ExitInv, [UiNext]_uiVars, pty_handle # NoPty, ptys[pty_handle].alive
      PROVE  Kept
  <2>1. /\ lifecycle \in Lifecycle /\ pty_handle = pty_session
        /\ pty_handle \in DOMAIN ptys /\ ptys \in [DOMAIN ptys -> Pty]
    BY <1>1 DEF ExitInv, UiInv, UiTypeOK
  <2>2. CASE UNCHANGED lifecycle
    BY <2>1, <2>2, BufferContinues
  <2>3. CASE OnInput
    <3>1. Value \in Nat
      BY <1>1, <2>3, QueueType DEF OnInput, Handles, Value, EventType, ExitInv, UiInv
    <3>2. UNCHANGED lifecycle \/ lifecycle' = BufferInput(lifecycle, Value)
      BY <2>3 DEF OnInput, SendInput
    <3> QED
      BY <2>1, <2>2, <3>1, <3>2, BufferContinues
  <2>4. CASE OnOutput
    <3>1. CASE ~IsReady(lifecycle) /\ Drawn /\ IsAttached(lifecycle)
      <4>1. ptys' = Written(pty_handle, lifecycle.buffer)
        BY <2>4, <3>1 DEF OnOutput, Flushed
      <4> QED
        BY <1>1, <2>1, <4>1 DEF Written, Pty
    <3>2. CASE ~(~IsReady(lifecycle) /\ Drawn /\ IsAttached(lifecycle))
      BY <2>2, <2>4, <3>2 DEF OnOutput, GotOutput
    <3> QED
      BY <3>1, <3>2
  <2>5. CASE OnCtrlR \/ OnApply \/ OnRestartClaude \/ OnPtyRestart
    BY <2>5 DEF OnCtrlR, OnApply, OnRestartClaude, OnPtyRestart, Handles
  <2>6. CASE OnExit
    <3>1. CASE IsStale(Value)
      BY <2>2, <2>6, <3>1 DEF OnExit
    <3>2. CASE ~IsStale(Value)
      BY <1>1, <2>1, <2>6, <3>2, FreshExitIsPresent DEF OnExit
    <3> QED
      BY <3>1, <3>2
  <2> QED
    BY <1>1, <2>2, <2>3, <2>4, <2>5, <2>6
    DEF UiNext, uiVars, Keyboard, PtyStep, Bridge, OnTick, HandleEvent, OnQuit
<1>2. ExitInv /\ [UiNext]_uiVars => [A]_uiVars
  BY <1>1
<1> QED
  BY <1>2, ExitInitInv, NextKeepsExitInv, PTL DEF UiSpec, BufferedInputReachesPty

-----------------------------------------------------------------------------
(* The order of input.  Every input is in the queue, in the buffer or with  *)
(* a PTY, and it goes through them in this order; so what is in the queue   *)
(* was typed after all that has been taken from it.                         *)

Precedes(s, t) == \A i \in DOMAIN s, j \in DOMAIN t : s[i] < t[j]

AllBelow(s, n) == \A i \in DOMAIN s : s[i] < n

TakenBelow(n) ==
    /\ AllBelow(lifecycle.buffer, n)
    /\ \A g \in DOMAIN ptys : AllBelow(ptys[g].written, n)

IsInput(i) == events[i].kind = "input"

QueueInOrder ==
    \A i \in DOMAIN events : IsInput(i) =>
        /\ events[i].value <= typed
        /\ TakenBelow(events[i].value)
        /\ \A j \in DOMAIN events : IsInput(j) /\ i < j => events[i].value < events[j].value

OrderInv ==
    /\ UiInv
    /\ Increasing(lifecycle.buffer)
    /\ \A g \in DOMAIN ptys : Increasing(ptys[g].written)
    /\ pty_handle \in DOMAIN ptys => Precedes(ptys[pty_handle].written, lifecycle.buffer)
    /\ TakenBelow(typed + 1)
    /\ QueueInOrder

LEMMA ConcatInOrder ==
    ASSUME NEW s \in Seq(Nat), NEW t \in Seq(Nat)
    PROVE  /\ Increasing(s) /\ Increasing(t) /\ Precedes(s, t) => Increasing(s \o t)
           /\ \A n \in Nat : AllBelow(s, n) /\ AllBelow(t, n) => AllBelow(s \o t, n)
<1>1. /\ DOMAIN (s \o t) = 1..(Len(s) + Len(t))
      /\ DOMAIN s = 1..Len(s) /\ DOMAIN t = 1..Len(t)
      /\ Len(s) \in Nat /\ Len(t) \in Nat
      /\ \A i \in 1..(Len(s) + Len(t)) :
            (s \o t)[i] = IF i <= Len(s) THEN s[i] ELSE t[i - Len(s)]
  BY ConcatProperties
<1>2. ASSUME Increasing(s), Increasing(t), Precedes(s, t),
             NEW i \in DOMAIN (s \o t), NEW j \in DOMAIN (s \o t), i < j
      PROVE  (s \o t)[i] < (s \o t)[j]
  <2>1. CASE j <= Len(s)
    BY <1>1, <1>2, <2>1 DEF Increasing
  <2>2. CASE i <= Len(s) /\ j > Len(s)
    <3>1. i \in DOMAIN s /\ j - Len(s) \in DOMAIN t
      BY <1>1, <2>2
    <3> QED
      BY <1>1, <1>2, <2>2, <3>1 DEF Precedes
  <2>3. CASE i > Len(s)
    <3>1. i - Len(s) \in DOMAIN t /\ j - Len(s) \in DOMAIN t /\ i - Len(s) < j - Len(s)
      BY <1>1, <1>2, <2>3
    <3> QED
      BY <1>1, <1>2, <2>3, <3>1 DEF Increasing
  <2> QED
    BY <1>1, <2>1, <2>2, <2>3, SMTT(60)
<1>3. ASSUME NEW n \in Nat, AllBelow(s, n), AllBelow(t, n), NEW i \in DOMAIN (s \o t)
      PROVE  (s \o t)[i] < n
  <2>1. CASE i <= Len(s)
    BY <1>1, <1>3, <2>1 DEF AllBelow
  <2>2. CASE i > Len(s)
    <3>1. i - Len(s) \in DOMAIN t
      BY <1>1, <2>2
    <3> QED
      BY <1>1, <1>3, <2>2, <3>1 DEF AllBelow
  <2> QED
    BY <1>1, <2>1, <2>2
<1> QED
  BY <1>2, <1>3 DEF Increasing, AllBelow

\* The invariant says what the run checks.
LEMMA OrderImpliesInOrder == OrderInv => InputInOrder
<1> SUFFICES ASSUME OrderInv, NEW g \in DOMAIN ptys
             PROVE  Increasing(ptys[g].written
                               \o IF g = pty_handle THEN lifecycle.buffer ELSE <<>>)
  BY DEF InputInOrder
<1>1. ptys[g].written \in Seq(Nat) /\ lifecycle.buffer \in Seq(Nat)
  BY DEF OrderInv, UiInv, UiTypeOK, Pty, Lifecycle
<1>2. CASE g = pty_handle
  BY <1>1, <1>2, ConcatInOrder DEF OrderInv
<1>3. CASE g # pty_handle
  <2>1. ptys[g].written \o <<>> = ptys[g].written
    BY <1>1, ConcatEmptySeq
  <2> QED
    BY <1>3, <2>1 DEF OrderInv
<1> QED
  BY <1>2, <1>3

\* No input was added to the queue, of which the first d events were taken.
NothingTyped(d) ==
    \A i \in DOMAIN events' : IsInput(i)' =>
        i + d \in DOMAIN events /\ events'[i] = events[i + d]

\* What a step may take is what it has put into the buffer or written.
LEMMA QueueStaysInOrder ==
    ASSUME OrderInv, UiInv', typed' = typed, NEW d \in {0, 1}, NothingTyped(d),
           \A n \in Nat : TakenBelow(n) /\ (d = 1 /\ IsInput(1) => events[1].value < n)
                             => TakenBelow(n)',
           d = 1 => events # <<>>
    PROVE  QueueInOrder' /\ TakenBelow(typed + 1)'
<1>1. events \in Seq(EventType) /\ typed \in Nat /\ events' \in Seq(EventType)
  BY DEF OrderInv, UiInv, UiTypeOK
<1>2. /\ DOMAIN events = 1..Len(events) /\ Len(events) \in Nat
      /\ \A i \in DOMAIN events : events[i].value \in Nat
  <2>1. \A i \in 1..Len(events) : events[i] \in EventType
    BY <1>1, ElementOfSeq
  <2>2. \A e \in EventType : e.value \in Nat
    BY DEF EventType
  <2> QED
    BY <1>1, <2>1, <2>2
<1>3. d = 1 => 1 \in DOMAIN events
  BY <1>1, <1>2
<1>4. TakenBelow(typed + 1)'
  <2>1. d = 1 /\ IsInput(1) => events[1].value < typed + 1
    BY <1>1, <1>2, <1>3 DEF OrderInv, QueueInOrder
  <2>2. typed + 1 \in Nat /\ TakenBelow(typed + 1)
    BY <1>1 DEF OrderInv
  <2>3. \A n \in Nat : n = typed + 1 => TakenBelow(n)'
    BY <2>1, <2>2
  <2> QED
    BY <2>2, <2>3 DEF TakenBelow
<1>5. ASSUME NEW i \in DOMAIN events', IsInput(i)'
      PROVE  /\ events'[i].value <= typed'
             /\ TakenBelow(events[i].value)'
             /\ \A j \in DOMAIN events' :
                    IsInput(j)' /\ i < j => events'[i].value < events'[j].value
  <2>1. i + d \in DOMAIN events /\ events'[i] = events[i + d] /\ IsInput(i + d)
    BY <1>5 DEF NothingTyped, IsInput
  <2>2. /\ events[i + d].value \in Nat /\ events[i + d].value <= typed
        /\ TakenBelow(events[i + d].value)
    BY <1>2, <2>1 DEF OrderInv, QueueInOrder
  <2>3. i \in Nat \ {0}
    BY <1>1, <1>5
  <2>4. d = 1 /\ IsInput(1) => events[1].value < events[i + d].value
    BY <1>3, <2>1, <2>3 DEF OrderInv, QueueInOrder
  <2>5. \A n \in Nat : n = events[i + d].value => TakenBelow(n)'
    BY <2>2, <2>4
  <2>6. TakenBelow(events[i].value)'
    BY <2>1, <2>2, <2>5 DEF TakenBelow
  <2>7. ASSUME NEW j \in DOMAIN events', IsInput(j)', i < j
        PROVE  events'[i].value < events'[j].value
    <3>1. j + d \in DOMAIN events /\ events'[j] = events[j + d] /\ IsInput(j + d)
      BY <2>7 DEF NothingTyped, IsInput
    <3>2. j \in Nat \ {0} /\ i + d < j + d
      BY <1>1, <2>3, <2>7
    <3> QED
      BY <2>1, <3>1, <3>2 DEF OrderInv, QueueInOrder
  <2> QED
    BY <2>1, <2>2, <2>6, <2>7
<1> QED
  BY <1>4, <1>5 DEF QueueInOrder

LEMMA QueueSteps ==
    ASSUME UiInv, UiInv'
    PROVE  /\ events' = events => NothingTyped(0)
           /\ \A e \in EventType : e.kind # "input" /\ events' = Append(events, e) => NothingTyped(0)
           /\ events # <<>> /\ events' = Tail(events) => NothingTyped(1)
           /\ \A e \in EventType : /\ events # <<>> /\ e.kind # "input"
                                   /\ events' = Tail(events) \o <<e>>
                                   => NothingTyped(1)
<1>1. /\ events \in Seq(EventType) /\ events' \in Seq(EventType)
      /\ DOMAIN events = 1..Len(events) /\ Len(events) \in Nat
  BY DEF UiInv, UiTypeOK
<1>2. ASSUME events' = events PROVE NothingTyped(0)
  BY <1>1, <1>2 DEF NothingTyped
<1>3. ASSUME NEW e \in EventType, e.kind # "input", events' = Append(events, e)
      PROVE  NothingTyped(0)
  BY <1>1, <1>3, AppendProperties DEF NothingTyped, IsInput
<1>4. ASSUME events # <<>>
      PROVE  /\ Tail(events) \in Seq(EventType) /\ Len(Tail(events)) = Len(events) - 1
             /\ \A i \in 1..Len(Tail(events)) : Tail(events)[i] = events[i + 1]
  BY <1>1, <1>4, HeadTailProperties
<1>5. ASSUME events # <<>>, events' = Tail(events) PROVE NothingTyped(1)
  BY <1>1, <1>4, <1>5 DEF NothingTyped
<1>6. ASSUME NEW e \in EventType, events # <<>>, e.kind # "input",
             events' = Tail(events) \o <<e>>
      PROVE  NothingTyped(1)
  <2>1. PICK t \in Seq(EventType) :
            /\ Len(t) = Len(events) - 1
            /\ \A i \in 1..Len(t) : t[i] = events[i + 1]
            /\ events' = t \o <<e>>
    <3>1. /\ Tail(events) \in Seq(EventType) /\ Len(Tail(events)) = Len(events) - 1
          /\ \A i \in 1..Len(Tail(events)) : Tail(events)[i] = events[i + 1]
      BY <1>4, <1>6
    <3>2. events' = Tail(events) \o <<e>>
      BY <1>6
    <3> QED
      BY <3>1, <3>2, Zenon
  <2>2. events' = Append(t, e)
    BY <2>1, AppendIsConcat
  <2>3. /\ DOMAIN events' = 1..(Len(t) + 1)
        /\ \A i \in 1..Len(t) : events'[i] = t[i]
        /\ events'[Len(t) + 1] = e
    BY <2>1, <2>2, AppendProperties
  <2>4. ASSUME NEW i \in DOMAIN events', events'[i].kind = "input"
        PROVE  i + 1 \in DOMAIN events /\ events'[i] = events[i + 1]
    <3>1. i \in 1..Len(t) /\ Len(t) \in Nat
      BY <1>6, <2>1, <2>3, <2>4
    <3>2. events'[i] = t[i] /\ t[i] = events[i + 1]
      BY <2>1, <2>3, <3>1
    <3>3. i + 1 \in 1..Len(events)
      BY <1>1, <2>1, <3>1
    <3> QED
      BY <1>1, <3>2, <3>3
  <2> QED
    BY <2>4 DEF NothingTyped, IsInput
<1> QED
  BY <1>2, <1>3, <1>5, <1>6

\* A step that takes no input leaves or forgets what there is.
LEMMA QuietKeepsOrder ==
    ASSUME OrderInv, UiInv', typed' = typed, NEW d \in {0, 1}, NothingTyped(d),
           d = 1 => events # <<>>,
           \A g \in DOMAIN ptys' : \/ ptys'[g].written = <<>>
                                   \/ g \in DOMAIN ptys /\ ptys'[g].written = ptys[g].written,
           \/ lifecycle'.buffer = <<>>
           \/ /\ lifecycle'.buffer = lifecycle.buffer /\ pty_handle' = pty_handle
              /\ DOMAIN ptys' = DOMAIN ptys
    PROVE  OrderInv'
<1>1. Increasing(<<>>) /\ \A n : AllBelow(<<>>, n)
  BY DEF Increasing, AllBelow
<1>2. \A s : Precedes(s, <<>>) /\ Precedes(<<>>, s)
  BY DEF Precedes
<1>3. \A n \in Nat : TakenBelow(n) => TakenBelow(n)'
  BY <1>1 DEF TakenBelow
<1>4. QueueInOrder' /\ TakenBelow(typed + 1)'
  BY <1>3, QueueStaysInOrder
<1>5. Increasing(lifecycle.buffer)'
  BY <1>1 DEF OrderInv
<1>6. (\A g \in DOMAIN ptys : Increasing(ptys[g].written))'
  BY <1>1 DEF OrderInv
<1>7. (pty_handle \in DOMAIN ptys => Precedes(ptys[pty_handle].written, lifecycle.buffer))'
  BY <1>2 DEF OrderInv
<1> QED
  BY <1>4, <1>5, <1>6, <1>7 DEF OrderInv

LEMMA OrderInitInv == UiInit => OrderInv
<1> SUFFICES ASSUME UiInit PROVE OrderInv
  OBVIOUS
<1>1. lifecycle.buffer = <<>>
  BY DEF UiInit, Attach, Pending, IsReady
<1>2. \A g \in DOMAIN ptys : ptys[g].written = <<>>
  BY DEF UiInit, Spawned
<1>3. events = <<>>
  BY DEF UiInit
<1>4. TakenBelow(typed + 1)
  BY <1>1, <1>2 DEF TakenBelow, AllBelow
<1>5. QueueInOrder
  BY <1>3 DEF QueueInOrder
<1>6. /\ Increasing(lifecycle.buffer)
      /\ \A g \in DOMAIN ptys : Increasing(ptys[g].written)
      /\ pty_handle \in DOMAIN ptys => Precedes(ptys[pty_handle].written, lifecycle.buffer)
  BY <1>1, <1>2 DEF Increasing, Precedes
<1> QED
  BY <1>4, <1>5, <1>6, UiInitInv DEF OrderInv

\* The keyboard types a number that is above all others.
LEMMA TypeKeepsOrder ==
    ASSUME OrderInv, UiInv', Keyboard, Type
    PROVE  OrderInv'
<1>1. /\ typed \in Nat /\ events \in Seq(EventType)
      /\ UNCHANGED <<lifecycle, pty_handle, ptys>>
      /\ typed' = typed + 1 /\ events' = Append(events, Event("input", typed + 1))
  BY DEF OrderInv, UiInv, UiTypeOK, Keyboard, Type, Post
<1>2. /\ lifecycle.buffer \in Seq(Nat)
      /\ \A g \in DOMAIN ptys : ptys[g].written \in Seq(Nat)
  BY DEF OrderInv, UiInv, UiTypeOK, Lifecycle, Pty
<1>3. \A n : TakenBelow(n) <=> TakenBelow(n)'
  BY <1>1 DEF TakenBelow
<1>4. TakenBelow(typed + 2)
  <2>1. ASSUME NEW s \in Seq(Nat), AllBelow(s, typed + 1)
        PROVE  AllBelow(s, typed + 2)
    BY <1>1, <2>1 DEF AllBelow
  <2> QED
    BY <1>2, <2>1 DEF TakenBelow, OrderInv
<1>5. Event("input", typed + 1) \in EventType /\ Event("input", typed + 1).value = typed + 1
  BY <1>1 DEF Event, EventType, EventKinds
<1>6. /\ DOMAIN events' = 1..(Len(events) + 1) /\ DOMAIN events = 1..Len(events)
      /\ Len(events) \in Nat
      /\ \A i \in DOMAIN events : events'[i] = events[i]
      /\ events'[Len(events) + 1].value = typed + 1
  BY <1>1, <1>5, AppendProperties
<1>7. QueueInOrder'
  <2>1. ASSUME NEW i \in DOMAIN events', IsInput(i)'
        PROVE  /\ events'[i].value <= typed'
               /\ TakenBelow(events'[i].value)
               /\ \A j \in DOMAIN events' :
                      IsInput(j)' /\ i < j => events'[i].value < events'[j].value
    <3>1. CASE i \in DOMAIN events
      <4>1. /\ IsInput(i) /\ events'[i] = events[i]
            /\ events[i].value <= typed /\ TakenBelow(events[i].value)
            /\ \A j \in DOMAIN events : IsInput(j) /\ i < j => events[i].value < events[j].value
        BY <1>6, <2>1, <3>1 DEF OrderInv, QueueInOrder, IsInput
      <4>2. events[i].value \in Nat
        <5>1. events[i] \in EventType
          BY <1>1, <3>1
        <5> QED
          BY <5>1 DEF EventType
      <4> QED
        BY <1>1, <1>6, <4>1, <4>2 DEF IsInput
    <3>2. CASE i = Len(events) + 1
      BY <1>1, <1>6, <3>2 DEF OrderInv
    <3> QED
      BY <1>6, <3>1, <3>2
  <2> QED
    BY <1>3, <2>1 DEF QueueInOrder
<1>8. TakenBelow(typed + 1)'
  <2>1. PICK n \in Nat : n = typed + 2
    BY <1>1
  <2>2. TakenBelow(n)'
    BY <1>3, <1>4, <2>1
  <2>3. typed' + 1 = n
    BY <1>1, <2>1
  <2> QED
    BY <2>2, <2>3 DEF TakenBelow
<1> QED
  BY <1>1, <1>7, <1>8 DEF OrderInv

\* The other steps of the other threads.
LEMMA OthersKeepOrder ==
    ASSUME OrderInv, UiInv',
           \/ Keyboard /\ Press
           \/ PtyStep
           \/ Bridge
           \/ OnTick /\ UNCHANGED typed
           \/ UNCHANGED uiVars
    PROVE  OrderInv'
<1>1. UiInv /\ UiTypeOK
  BY DEF OrderInv, UiInv
<1>2. UNCHANGED <<typed, lifecycle, pty_handle>>
  BY DEF Keyboard, Press, PtyStep, Bridge, OnTick, uiVars
<1>3. /\ DOMAIN ptys' = DOMAIN ptys
      /\ \A g \in DOMAIN ptys : ptys'[g].written = ptys[g].written
  <2>1. CASE PtyStep
    <3>1. PICK g \in DOMAIN ptys : ChildExits(g) \/ ReaderOutput(g) \/ ReaderEnds(g)
      BY <2>1 DEF PtyStep
    <3>2. ptys \in [DOMAIN ptys -> Pty]
      BY <1>1 DEF UiTypeOK
    <3>3. CASE ChildExits(g)
      BY <3>2, <3>3 DEF ChildExits, Pty
    <3>4. CASE ReaderOutput(g)
      BY <3>2, <3>4 DEF ReaderOutput, Pty
    <3>5. CASE ReaderEnds(g)
      BY <3>2, <3>5 DEF ReaderEnds, Pty
    <3> QED
      BY <3>1, <3>3, <3>4, <3>5
  <2>2. CASE ~PtyStep
    BY <2>2 DEF Keyboard, Bridge, OnTick, uiVars
  <2> QED
    BY <2>1, <2>2
<1>4. \/ events' = events
      \/ \E e \in EventType : e.kind # "input" /\ events' = Append(events, e)
  <2>1. CASE Keyboard /\ Press
    <3>1. /\ Event("ctrl_r", 0) \in EventType /\ Event("ctrl_q", 0) \in EventType
          /\ \A v \in {0, 1} : Event("apply", v) \in EventType
          /\ Event("ctrl_r", 0).kind # "input" /\ Event("ctrl_q", 0).kind # "input"
          /\ \A v : Event("apply", v).kind # "input"
      BY DEF Event, EventType, EventKinds
    <3> QED
      BY <2>1, <3>1 DEF Press, Post
  <2>2. CASE PtyStep
    <3>1. DOMAIN ptys \subseteq Nat
      BY <1>1 DEF UiTypeOK
    <3>2. /\ Event("output", 0) \in EventType /\ Event("output", 0).kind # "input"
          /\ \A g \in Nat : Event("exit", g) \in EventType /\ Event("exit", g).kind # "input"
      BY DEF Event, EventType, EventKinds
    <3> QED
      BY <2>2, <3>1, <3>2 DEF PtyStep, ChildExits, ReaderOutput, ReaderEnds, Post
  <2>3. CASE Bridge
    <3>1. Head(commands) \in CommandType
      BY <1>1, <2>3, HeadTailProperties DEF Bridge, UiTypeOK
    <3>2. \A v \in {0, 1} :
            /\ Event("restart_claude", v) \in EventType /\ Event("restart_claude", v).kind # "input"
            /\ Event("pty_restart", v) \in EventType /\ Event("pty_restart", v).kind # "input"
      BY DEF Event, EventType, EventKinds
    <3> QED
      BY <2>3, <3>1, <3>2 DEF Bridge, Post, CommandType
  <2>4. CASE OnTick \/ UNCHANGED uiVars
    BY <2>4 DEF OnTick, uiVars
  <2> QED
    BY <2>1, <2>2, <2>3, <2>4
<1>5. NothingTyped(0)
  BY <1>1, <1>4, QueueSteps
<1> QED
  BY <1>2, <1>3, <1>5, QuietKeepsOrder

\* The input that is taken is above all that was taken before it, and below all
\* that remains.
LEMMA InputKeepsOrder ==
    ASSUME OrderInv, UiInv', OnInput, typed' = typed
    PROVE  OrderInv'
<1>1. /\ UiInv /\ UiTypeOK
      /\ events # <<>> /\ events' = Tail(events) /\ UNCHANGED pty_handle
      /\ events \in Seq(EventType) /\ 1 \in DOMAIN events
      /\ Value = events[1].value /\ IsInput(1)
  BY DEF OrderInv, UiInv, UiTypeOK, OnInput, Handles, Done, Value, IsInput
<1>2. Value \in Nat /\ TakenBelow(Value)
  <2>1. events[1] \in EventType
    BY <1>1
  <2> QED
    BY <1>1, <2>1 DEF EventType, OrderInv, QueueInOrder
<1>3. /\ lifecycle \in Lifecycle /\ lifecycle.buffer \in Seq(Nat)
      /\ ptys \in [DOMAIN ptys -> Pty]
      /\ \A g \in DOMAIN ptys : ptys[g].written \in Seq(Nat)
  BY <1>1 DEF UiTypeOK, Lifecycle, Pty
<1>4. /\ <<Value>> \in Seq(Nat) /\ Increasing(<<Value>>)
      /\ \A n \in Nat : Value < n => AllBelow(<<Value>>, n)
  BY <1>2 DEF Increasing, AllBelow
<1>5. \A s \in Seq(Nat) : AllBelow(s, Value) => Precedes(s, <<Value>>)
  BY <1>2 DEF AllBelow, Precedes
<1>6. NothingTyped(1)
  BY <1>1, QueueSteps
<1>7. CASE IsReady(lifecycle)
  <2>1. /\ pty_handle \in DOMAIN ptys /\ lifecycle.buffer = <<>>
        /\ ptys' = Written(pty_handle, <<Value>>) /\ UNCHANGED lifecycle
    BY <1>1, <1>7 DEF OnInput, SendInput, UiInv, UiTypeOK, AttachedToPresent, IsReady, IsBuffering
  <2>2. /\ DOMAIN ptys' = DOMAIN ptys
        /\ \A g \in DOMAIN ptys :
              \/ ptys'[g].written = ptys[g].written
              \/ ptys'[g].written = ptys[g].written \o <<Value>>
    BY <1>3, <2>1 DEF Written, Pty
  <2>3. ASSUME NEW g \in DOMAIN ptys
        PROVE  Increasing(ptys'[g].written)
    <3>1. Increasing(ptys[g].written) /\ Precedes(ptys[g].written, <<Value>>)
      BY <1>2, <1>3, <1>5 DEF OrderInv, TakenBelow
    <3> QED
      BY <1>3, <1>4, <2>2, <3>1, ConcatInOrder
  <2>4. ASSUME NEW n \in Nat, TakenBelow(n), Value < n
        PROVE  TakenBelow(n)'
    <3>1. ASSUME NEW g \in DOMAIN ptys
          PROVE  AllBelow(ptys'[g].written, n)
      BY <1>3, <1>4, <2>2, <2>4, ConcatInOrder DEF TakenBelow
    <3> QED
      BY <2>1, <2>2, <2>4, <3>1 DEF TakenBelow
  <2>5. QueueInOrder' /\ TakenBelow(typed + 1)'
    BY <1>1, <1>6, <2>4, QueueStaysInOrder
  <2>6. Precedes(ptys'[pty_handle].written, lifecycle'.buffer)
    BY <2>1 DEF Precedes
  <2> QED
    BY <1>1, <2>1, <2>2, <2>3, <2>5, <2>6 DEF OrderInv
<1>8. CASE IsBuffering(lifecycle)
  <2>1. /\ lifecycle' = BufferInput(lifecycle, Value) /\ UNCHANGED ptys
        /\ lifecycle'.buffer = Append(lifecycle.buffer, Value)
    BY <1>3, <1>8 DEF OnInput, SendInput, IsReady, IsBuffering, BufferInput, Lifecycle
  <2>2. lifecycle'.buffer = lifecycle.buffer \o <<Value>>
    BY <1>2, <1>3, <2>1, AppendIsConcat
  <2>3. Increasing(lifecycle'.buffer)
    BY <1>2, <1>3, <1>4, <1>5, <2>2, ConcatInOrder DEF OrderInv, TakenBelow
  <2>4. ASSUME NEW n \in Nat, TakenBelow(n), Value < n
        PROVE  TakenBelow(n)'
    BY <1>3, <1>4, <2>1, <2>2, <2>4, ConcatInOrder DEF TakenBelow
  <2>5. QueueInOrder' /\ TakenBelow(typed + 1)'
    BY <1>1, <1>6, <2>4, QueueStaysInOrder
  <2>6. ASSUME pty_handle \in DOMAIN ptys
        PROVE  Precedes(ptys[pty_handle].written, lifecycle'.buffer)
    <3>1. Precedes(ptys[pty_handle].written, lifecycle.buffer)
      BY <2>6 DEF OrderInv
    <3>2. Precedes(ptys[pty_handle].written, <<Value>>)
      BY <1>2, <1>3, <1>5, <2>6 DEF TakenBelow
    <3>3. \A j \in DOMAIN lifecycle'.buffer :
              \/ j \in DOMAIN lifecycle.buffer /\ lifecycle'.buffer[j] = lifecycle.buffer[j]
              \/ lifecycle'.buffer[j] = Value
      BY <1>2, <1>3, <2>1, AppendProperties
    <3> QED
      BY <3>1, <3>2, <3>3 DEF Precedes
  <2> QED
    BY <1>1, <2>1, <2>3, <2>5, <2>6 DEF OrderInv
<1>9. CASE ~IsReady(lifecycle) /\ ~IsBuffering(lifecycle)
  BY <1>1, <1>6, <1>9, QuietKeepsOrder DEF OnInput, SendInput, BufferInput
<1> QED
  BY <1>7, <1>8, <1>9

\* The buffer is flushed behind what was written before.
LEMMA OutputKeepsOrder ==
    ASSUME OrderInv, UiInv', OnOutput, typed' = typed
    PROVE  OrderInv'
<1>1. /\ UiInv /\ UiTypeOK
      /\ events # <<>> /\ events' = Tail(events) /\ UNCHANGED pty_handle
      /\ ~IsInput(1) /\ events \in Seq(EventType)
  BY DEF OrderInv, UiInv, UiTypeOK, OnOutput, Handles, Done, IsInput
<1>2. /\ lifecycle \in Lifecycle /\ lifecycle.buffer \in Seq(Nat)
      /\ ptys \in [DOMAIN ptys -> Pty]
      /\ \A g \in DOMAIN ptys : ptys[g].written \in Seq(Nat)
  BY <1>1 DEF UiTypeOK, Lifecycle, Pty
<1>3. NothingTyped(1)
  BY <1>1, QueueSteps
<1>4. CASE ~IsReady(lifecycle) /\ Drawn /\ IsAttached(lifecycle)
  <2>1. /\ pty_handle \in DOMAIN ptys /\ lifecycle'.buffer = <<>>
        /\ ptys' = Written(pty_handle, lifecycle.buffer)
    BY <1>1, <1>4 DEF OnOutput, Drawn, Flushed, GotOutput, UiTypeOK
  <2>2. /\ DOMAIN ptys' = DOMAIN ptys
        /\ \A g \in DOMAIN ptys :
              \/ ptys'[g].written = ptys[g].written
              \/ g = pty_handle /\ ptys'[g].written = ptys[g].written \o lifecycle.buffer
    BY <1>2, <2>1 DEF Written, Pty
  <2>3. ASSUME NEW g \in DOMAIN ptys
        PROVE  Increasing(ptys'[g].written)
    BY <1>2, <2>1, <2>2, ConcatInOrder DEF OrderInv
  <2>4. ASSUME NEW n \in Nat, TakenBelow(n)
        PROVE  TakenBelow(n)'
    <3>1. ASSUME NEW g \in DOMAIN ptys
          PROVE  AllBelow(ptys'[g].written, n)
      BY <1>2, <2>2, <2>4, ConcatInOrder DEF TakenBelow
    <3> QED
      BY <2>1, <2>2, <3>1 DEF TakenBelow, AllBelow
  <2>5. QueueInOrder' /\ TakenBelow(typed + 1)'
    BY <1>1, <1>3, <2>4, QueueStaysInOrder
  <2>6. /\ Precedes(ptys'[pty_handle].written, lifecycle'.buffer)
        /\ Increasing(lifecycle'.buffer)
    BY <2>1 DEF Precedes, Increasing
  <2> QED
    BY <1>1, <2>1, <2>2, <2>3, <2>5, <2>6 DEF OrderInv
<1>5. CASE ~(~IsReady(lifecycle) /\ Drawn /\ IsAttached(lifecycle))
  <2>1. UNCHANGED lifecycle
    BY <1>5 DEF OnOutput, GotOutput
  <2>2. DOMAIN ptys' = DOMAIN ptys /\ \A g \in DOMAIN ptys : ptys'[g].written = ptys[g].written
    <3>1. CASE ptys' = ptys
      BY <3>1
    <3>2. CASE ~IsReady(lifecycle) /\ Drawn
      <4>1. ptys' = Written(pty_handle, <<>>) /\ pty_handle \in DOMAIN ptys
        BY <1>1, <1>5, <3>2 DEF OnOutput, Flushed, Drawn, UiTypeOK
      <4>2. \A g \in DOMAIN ptys : ptys[g].written \o <<>> = ptys[g].written
        BY <1>2, ConcatEmptySeq
      <4> QED
        BY <1>2, <4>1, <4>2 DEF Written, Pty
    <3> QED
      BY <3>1, <3>2 DEF OnOutput
  <2> QED
    BY <1>1, <1>3, <2>1, <2>2, QuietKeepsOrder
<1> QED
  BY <1>4, <1>5

\* A restart takes nothing along.
LEMMA RespawnKeepsOrder ==
    ASSUME OrderInv, UiInv', events # <<>>, typed' = typed,
           NEW session, NEW resumed, NEW agents, Respawn(session, resumed, agents)
    PROVE  OrderInv'
<1> DEFINE next == pty_generation + 1
<1>1. PICK e \in {<<>>, <<Event("exit", pty_session)>>}, reader \in BOOLEAN :
        /\ events' = Tail(events) \o e
        /\ \/ /\ ptys' = [g \in DOMAIN ptys \cup {next} |->
                            IF g = next THEN Spawned(session, resumed, agents)
                            ELSE AfterShutdown(reader)[g]]
              /\ lifecycle' = Attach(Detach(lifecycle))
           \/ /\ ptys' = AfterShutdown(reader)
              /\ lifecycle' = SpawnFailed(Detach(lifecycle))
  BY DEF Respawn
<1>2. /\ UiInv /\ ptys \in [DOMAIN ptys -> Pty] /\ pty_session \in Nat
      /\ events \in Seq(EventType)
  BY DEF OrderInv, UiInv, UiTypeOK
<1>3. lifecycle'.buffer = <<>>
  BY <1>1 DEF Attach, Detach, SpawnFailed, Restarting, Pending, IsReady, IsRestarting
<1>4. /\ DOMAIN AfterShutdown(reader) = DOMAIN ptys
      /\ \A g \in DOMAIN ptys : AfterShutdown(reader)[g].written = ptys[g].written
  BY <1>2 DEF AfterShutdown, Pty
<1>5. Spawned(session, resumed, agents).written = <<>>
  BY DEF Spawned
<1>6. \A g \in DOMAIN ptys' : \/ ptys'[g].written = <<>>
                              \/ g \in DOMAIN ptys /\ ptys'[g].written = ptys[g].written
  BY <1>1, <1>4, <1>5
<1>7. NothingTyped(1)
  <2>1. Event("exit", pty_session) \in EventType /\ Event("exit", pty_session).kind # "input"
    BY <1>2 DEF Event, EventType, EventKinds
  <2>2. Tail(events) \o <<>> = Tail(events)
    BY <1>2, HeadTailProperties, ConcatEmptySeq
  <2> QED
    BY <1>1, <1>2, <2>1, <2>2, QueueSteps
<1> QED
  BY <1>3, <1>6, <1>7, QuietKeepsOrder

LEMMA HandlersKeepOrder ==
    ASSUME OrderInv, UiInv', HandleEvent
    PROVE  OrderInv'
<1>1. UiInv /\ typed' = typed
  BY DEF OrderInv, HandleEvent
<1>2. events # <<>>
  BY <1>1, HandlerKinds
<1>3. CASE OnQuit \/ OnCtrlR \/ OnApply
  <2>1. /\ events' = Tail(events) /\ UNCHANGED <<pty_handle, ptys>>
        /\ lifecycle' = lifecycle \/ lifecycle' = Restarting \/ lifecycle' = Pending
    BY <1>3 DEF OnQuit, OnCtrlR, OnApply, Done, RequestRestart, Detach, SpawnFailed
  <2>2. NothingTyped(1)
    BY <1>1, <1>2, <2>1, QueueSteps
  <2> QED
    BY <1>1, <1>2, <2>1, <2>2, QuietKeepsOrder DEF Restarting, Pending
<1>4. CASE OnRestartClaude
  BY <1>1, <1>2, <1>4, RespawnKeepsOrder DEF OnRestartClaude
<1>5. CASE OnPtyRestart
  BY <1>1, <1>2, <1>5, RespawnKeepsOrder DEF OnPtyRestart
<1>6. CASE OnExit
  <2>1. CASE /\ events' = Tail(events) /\ UNCHANGED <<pty_handle, ptys>>
             /\ lifecycle' \in {lifecycle, SpawnFailed(lifecycle)}
    <3>1. NothingTyped(1)
      BY <1>1, <1>2, <2>1, QueueSteps
    <3> QED
      BY <1>1, <1>2, <2>1, <3>1, QuietKeepsOrder DEF SpawnFailed, Pending
  <2>2. CASE Respawn(sessions', SessionSource = "resumed", settings)
    BY <1>1, <1>2, <2>2, RespawnKeepsOrder
  <2> QED
    BY <1>6, <2>1, <2>2 DEF OnExit, Done
<1> QED
  BY <1>1, <1>3, <1>4, <1>5, <1>6, InputKeepsOrder, OutputKeepsOrder DEF HandleEvent

LEMMA NextKeepsOrder ==
    ASSUME OrderInv, [UiNext]_uiVars
    PROVE  OrderInv'
<1>1. UiInv'
  BY UiNextKeepsInv DEF OrderInv
<1>2. CASE Keyboard
  BY <1>1, <1>2, TypeKeepsOrder, OthersKeepOrder DEF Keyboard
<1>3. CASE PtyStep \/ Bridge \/ UNCHANGED uiVars
  BY <1>1, <1>3, OthersKeepOrder
<1>4. CASE HandleEvent
  BY <1>1, <1>4, HandlersKeepOrder
<1>5. CASE OnTick /\ UNCHANGED <<typed, presses>>
  BY <1>1, <1>5, OthersKeepOrder
<1> QED
  BY <1>2, <1>3, <1>4, <1>5 DEF UiNext

\* However many restarts there are and whatever they drop, each PTY is given what
\* was typed in the order it was typed, nothing twice, and what waits in the
\* buffer comes after it.
THEOREM InputAlwaysInOrder == UiSpec => []InputInOrder
<1> QED
  BY OrderInitInv, NextKeepsOrder, OrderImpliesInOrder, PTL DEF UiSpec

-----------------------------------------------------------------------------
(* TtyReader. *)

-----------------------------------------------------------------------------
(* The bytes of a sequence of events. *)

LEMMA BytesAssociate ==
    ASSUME NEW a \in Seq(Bytes), NEW b \in Seq(Bytes), NEW c \in Seq(Bytes)
    PROVE  (a \o b) \o c = a \o (b \o c)
<1> DEFINE B == Bytes
<1> HIDE DEF B
<1>1. a \in Seq(B) /\ b \in Seq(B) /\ c \in Seq(B)
    BY DEF B
<1> QED
    BY <1>1, ConcatAssociative

\* The events, or units, of X have raw bytes.
HasRaws(X) == \A x \in X : x.raw \in Seq(Bytes)

LEMMA RawsEmpty == Raws(<<>>) = <<>>
<1>1. [i \in DOMAIN <<>> |-> <<>>[i].raw] = <<>>
    OBVIOUS
<1> QED
    BY <1>1 DEF Raws, FlattenSeq

LEMMA RawsAppend ==
    ASSUME NEW X, HasRaws(X), NEW s \in Seq(X), NEW x \in X
    PROVE  /\ Raws(Append(s, x)) = Raws(s) \o x.raw
           /\ Raws(s) \in Seq(Bytes)
<1> DEFINE ss == [i \in DOMAIN s |-> s[i].raw]
           tt == [i \in DOMAIN Append(s, x) |-> Append(s, x)[i].raw]
<1>1. x.raw \in Seq(Bytes) /\ \A i \in 1..Len(s) : s[i] \in X /\ s[i].raw \in Seq(Bytes)
    BY DEF HasRaws
<1>2. Len(s) \in Nat /\ DOMAIN s = 1..Len(s) /\ DOMAIN Append(s, x) = 1..(Len(s) + 1)
    OBVIOUS
<1>3. ss \in Seq(Seq(Bytes)) /\ Len(ss) = Len(s)
    <2>1. ss \in [1..Len(s) -> Seq(Bytes)]
        BY <1>1, <1>2
    <2> HIDE DEF ss
    <2> QED
        BY <1>2, <2>1
<1>4. tt = Append(ss, x.raw)
    <2>1. DOMAIN tt = 1..(Len(s) + 1) /\ DOMAIN Append(ss, x.raw) = 1..(Len(s) + 1)
        BY <1>2, <1>3
    <2>2. ASSUME NEW i \in 1..(Len(s) + 1) PROVE tt[i] = Append(ss, x.raw)[i]
        <3>1. tt[i] = Append(s, x)[i].raw
            BY <1>2
        <3>2. CASE i = Len(s) + 1
            BY <1>2, <1>3, <3>1, <3>2
        <3>3. CASE i \in 1..Len(s)
            <4>1. Append(s, x)[i] = s[i] /\ ss[i] = s[i].raw
                BY <1>2, <3>3
            <4>2. Append(ss, x.raw)[i] = ss[i]
                BY <1>3, <3>3
            <4> QED
                BY <3>1, <4>1, <4>2
        <3> QED
            BY <1>2, <3>2, <3>3
    <2>3. tt = [i \in 1..(Len(s) + 1) |-> tt[i]]
        BY <1>2
    <2>4. Append(ss, x.raw) = [i \in 1..(Len(s) + 1) |-> Append(ss, x.raw)[i]]
        BY <1>3
    <2> HIDE DEF ss, tt
    <2> QED
        BY <2>1, <2>2, <2>3, <2>4
<1>5. Raws(s) = FlattenSeq(ss) /\ Raws(Append(s, x)) = FlattenSeq(tt)
    BY DEF Raws
<1> HIDE DEF ss, tt
<1> QED
    BY <1>1, <1>3, <1>4, <1>5, FlattenAppend

LEMMA RawsType ==
    ASSUME NEW X, HasRaws(X), NEW s \in Seq(X)
    PROVE  Raws(s) \in Seq(Bytes)
<1>1. CASE s = <<>>
    <2>1. <<>> \in Seq(Bytes)
        OBVIOUS
    <2> QED
        BY <1>1, <2>1, RawsEmpty
<1>2. CASE s # <<>>
    <2>1. s[1] \in X
        BY <1>2
    <2> QED
        BY <2>1, RawsAppend
<1> QED
    BY <1>1, <1>2

LEMMA RawsConcat ==
    ASSUME NEW X, HasRaws(X), NEW s \in Seq(X), NEW t \in Seq(X)
    PROVE  Raws(s \o t) = Raws(s) \o Raws(t)
<1> DEFINE T(n) == SubSeq(t, 1, n)
           S == {n \in Nat : n <= Len(t) => Raws(s \o T(n)) = Raws(s) \o Raws(T(n))}
<1>1. Len(t) \in Nat /\ \A n \in Nat : n <= Len(t) => T(n) \in Seq(X)
    OBVIOUS
<1>2. 0 \in S
    <2>1. T(0) = <<>> /\ s \o <<>> = s
        OBVIOUS
    <2>2. Raws(s) \o <<>> = Raws(s)
        BY RawsType
    <2> QED
        BY <2>1, <2>2, RawsEmpty
<1>3. ASSUME NEW n \in Nat, n \in S PROVE n + 1 \in S
    <2> SUFFICES ASSUME n + 1 <= Len(t)
                 PROVE  Raws(s \o T(n + 1)) = Raws(s) \o Raws(T(n + 1))
        OBVIOUS
    <2> DEFINE x == t[n + 1]
               u == T(n)
    <2>1. x \in X /\ T(n + 1) = Append(u, x) /\ u \in Seq(X) /\ s \o u \in Seq(X)
        BY <1>1
    <2>2. Raws(s \o u) = Raws(s) \o Raws(u)
        BY <1>1, <1>3
    <2> HIDE DEF T, S, u, x
    <2>3. s \o Append(u, x) = Append(s \o u, x)
        BY <2>1
    <2>4. Raws(Append(s \o u, x)) = Raws(s \o u) \o x.raw
        BY <2>1, RawsAppend
    <2>5. Raws(Append(u, x)) = Raws(u) \o x.raw
        BY <2>1, RawsAppend
    <2>6. Raws(s) \in Seq(Bytes) /\ Raws(u) \in Seq(Bytes) /\ x.raw \in Seq(Bytes)
        BY <2>1, RawsType DEF HasRaws
    <2>7. (Raws(s) \o Raws(u)) \o x.raw = Raws(s) \o (Raws(u) \o x.raw)
        BY <2>6, BytesAssociate
    <2> QED
        BY <2>1, <2>2, <2>3, <2>4, <2>5, <2>7
<1>4. T(Len(t)) = t
    OBVIOUS
<1>5. Len(t) \in S
    <2> HIDE DEF S
    <2> QED
        BY <1>1, <1>2, <1>3, NatSetInduction
<1>6. Raws(s \o T(Len(t))) = Raws(s) \o Raws(T(Len(t)))
    <2> HIDE DEF T
    <2> QED
        BY <1>5
<1> HIDE DEF T
<1> QED
    BY <1>4, <1>6

-----------------------------------------------------------------------------
(* What the parser gives for the bytes it is fed. *)

Keys == Printable \cup {"Enter", "Tab", "Backspace", "Control", "Unknown", "Escape", "Char",
                        "Arrow", "Nav", "Function", "Mouse", "Paste"}

KindType == [key : Keys, alt : BOOLEAN]

KeyEventType == [raw : Seq(Bytes), kind : KindType]

ParserType ==
    [state : ParserStates, left : 0..3, buf : Seq(Bytes), out : Seq(KeyEventType)]

\* What parts the numbers.
Semi(byte) == byte = ";"

\* What each state knows of its buffer.
ParserInv(p) ==
    /\ p \in ParserType
    /\ p.left > 0 <=> p.state \in {"MouseX10", "Utf8"}
    /\ p.state = "Ground" => p.buf = <<>>
    /\ p.state = "EscReceived" => p.buf = <<"esc">>
    /\ p.state = "CsiEntry" => p.buf = Introducer
    /\ p.state = "CsiParam" => \E s \in Seq(ParamBytes) : p.buf = Introducer \o s

\* The bytes the parser was fed and has, or has given out.
Given(p) == Raws(p.out) \o Held(p)

LEMMA EventsHaveRaws == HasRaws(KeyEventType)
BY DEF HasRaws, KeyEventType

LEMMA KindsType ==
    /\ \A key \in Keys : Kind(key) \in KindType
    /\ \A kind \in KindType : Alt(kind) \in KindType
    /\ Unknown \in KindType
    /\ \A byte : KeyOf(byte) \in KindType
<1>1. \A key \in Keys : Kind(key) \in KindType
    BY DEF Kind, KindType
<1>2. Unknown \in KindType
    BY <1>1 DEF Unknown, Keys
<1>3. \A kind \in KindType : Alt(kind) \in KindType
    BY DEF Alt, KindType
<1>4. ASSUME NEW byte PROVE KeyOf(byte) \in KindType
    <2>1. /\ Kind("Enter") \in KindType /\ Kind("Tab") \in KindType
          /\ Kind("Backspace") \in KindType /\ Kind("Control") \in KindType
          /\ byte \in Printable => Kind(byte) \in KindType
        BY <1>1 DEF Keys
    <2> QED
        BY <1>2, <2>1 DEF KeyOf
<1> QED
    BY <1>1, <1>2, <1>3, <1>4

LEMMA ClassifiedType ==
    ASSUME NEW params
    PROVE  /\ \A final : ClassifyCsiFinal(final, params) \in KindType
           /\ ClassifyTildeKey(params) \in KindType
<1>1. /\ Kind("Arrow") \in KindType /\ Kind("Nav") \in KindType /\ Kind("Function") \in KindType
      /\ Unknown \in KindType
    BY KindsType DEF Keys
<1>2. \A kind \in KindType : WrapModifier(kind, params) \in KindType
    BY KindsType DEF WrapModifier
<1>3. ASSUME NEW final PROVE ClassifyCsiFinal(final, params) \in KindType
    <2>1. DOMAIN FinalKeys = {"A", "H"} /\ FinalKeys["A"] = "Arrow" /\ FinalKeys["H"] = "Nav"
        BY DEF FinalKeys
    <2>2. CASE final \in DOMAIN FinalKeys
        BY <1>1, <1>2, <2>1, <2>2 DEF ClassifyCsiFinal
    <2>3. CASE final \notin DOMAIN FinalKeys
        BY <1>1, <2>3 DEF ClassifyCsiFinal
    <2> QED
        BY <2>2, <2>3
<1>4. ClassifyTildeKey(params) \in KindType
    BY <1>1, <1>2 DEF ClassifyTildeKey
<1> QED
    BY <1>3, <1>4

\* An event carries the bytes it stands for, whatever is made of them.
LEMMA EmitGives ==
    ASSUME NEW p, ParserInv(p), NEW raw \in Seq(Bytes), NEW kind \in KindType
    PROVE  /\ ParserInv(Emit(p, raw, kind))
           /\ Given(Emit(p, raw, kind)) = Raws(p.out) \o raw
           /\ Emit(p, raw, kind).state = "Ground"
           /\ Emit(p, raw, kind).out = Append(p.out, [raw |-> raw, kind |-> kind])
<1> DEFINE event == [raw |-> raw, kind |-> kind]
           q == Emit(p, raw, kind)
<1>1. event \in KeyEventType /\ event.raw = raw
    BY DEF KeyEventType
<1>2. p.out \in Seq(KeyEventType)
    BY DEF ParserInv, ParserType
<1>3. /\ q.state = "Ground" /\ q.left = 0 /\ q.buf = <<>> /\ q.out = Append(p.out, event)
      /\ q = [state |-> "Ground", left |-> 0, buf |-> <<>>, out |-> Append(p.out, event)]
    BY DEF Emit
<1> HIDE DEF event, q
<1>4. Append(p.out, event) \in Seq(KeyEventType) /\ <<>> \in Seq(Bytes) /\ 0 \in 0..3
    BY <1>1, <1>2
<1>5. q \in ParserType
    BY <1>3, <1>4 DEF ParserType, ParserStates
<1>6. ParserInv(q)
    <2>1. q.state = "Ground" /\ q.buf = <<>> /\ ~(q.left > 0)
        <3>1. q.left = 0
            BY <1>3
        <3> QED
            BY <1>3, <3>1
    <2> QED
        BY <1>5, <2>1 DEF ParserInv
<1>7. Raws(q.out) = Raws(p.out) \o raw /\ Raws(q.out) \in Seq(Bytes)
    <2>1. Raws(q.out) = Raws(p.out) \o raw
        BY <1>1, <1>2, <1>3, EventsHaveRaws, RawsAppend
    <2>2. Raws(q.out) \in Seq(Bytes)
        BY <1>3, <1>4, EventsHaveRaws, RawsType
    <2> QED
        BY <2>1, <2>2
<1>8. Held(q) = <<>>
    BY <1>3 DEF Held, IsInPaste
<1>9. Raws(q.out) \o <<>> = Raws(q.out)
    BY <1>7
<1> QED
    BY <1>3, <1>6, <1>7, <1>8, <1>9 DEF Given, q, event

\* q is p after one byte more, which it gives out or holds.
Takes(p, q, byte) == ParserInv(q) /\ Given(q) = Append(Given(p), byte)

LEMMA HeldType ==
    ASSUME NEW p, ParserInv(p)
    PROVE  /\ Held(p) \in Seq(Bytes) /\ Raws(p.out) \in Seq(Bytes)
           /\ Given(p) \in Seq(Bytes)
           /\ p.state # "PasteBuf" => Held(p) = p.buf
<1>1. p.buf \in Seq(Bytes) /\ p.out \in Seq(KeyEventType)
    BY DEF ParserInv, ParserType
<1>2. PasteStart \in Seq(Bytes)
    BY DEF PasteStart, Bytes, Printable, Finals, Letters, Digits
<1>3. Held(p) \in Seq(Bytes)
    BY <1>1, <1>2 DEF Held
<1>4. Raws(p.out) \in Seq(Bytes)
    BY <1>1, EventsHaveRaws, RawsType
<1> QED
    BY <1>3, <1>4 DEF Given, Held, IsInPaste

LEMMA EmitTakes ==
    ASSUME NEW p, ParserInv(p), NEW byte \in Bytes, NEW kind \in KindType,
           NEW raw, raw = Append(Held(p), byte)
    PROVE  Takes(p, Emit(p, raw, kind), byte)
<1> DEFINE h == Held(p)
           o == Raws(p.out)
<1>1. h \in Seq(Bytes) /\ o \in Seq(Bytes) /\ Given(p) = o \o h
    BY HeldType DEF Given
<1> HIDE DEF h, o
<1>2. Append(h, byte) \in Seq(Bytes) /\ o \o Append(h, byte) = Append(o \o h, byte)
    BY <1>1
<1>3. raw \in Seq(Bytes)
    BY <1>2 DEF h
<1> QED
    BY <1>1, <1>2, <1>3, EmitGives DEF Takes, h, o

LEMMA PushTakes ==
    ASSUME NEW p, ParserInv(p), NEW byte \in Bytes,
           NEW q, ParserInv(q), q.out = p.out, Held(q) = Append(Held(p), byte)
    PROVE  Takes(p, q, byte)
<1> DEFINE h == Held(p)
           o == Raws(p.out)
<1>1. h \in Seq(Bytes) /\ o \in Seq(Bytes) /\ Given(p) = o \o h
    BY HeldType DEF Given
<1>2. Given(q) = o \o Append(h, byte)
    BY DEF Given
<1> HIDE DEF h, o
<1>3. o \o Append(h, byte) = Append(o \o h, byte)
    BY <1>1
<1> QED
    BY <1>1, <1>2, <1>3 DEF Takes

\* The byte is held, outside of a paste.
LEMMA PushedFields ==
    ASSUME NEW p \in ParserType, NEW byte \in Bytes, NEW state \in ParserStates
    PROVE  /\ Push(p, byte) \in ParserType
           /\ PushTo(p, byte, state) \in ParserType
           /\ Push(p, byte).state = p.state /\ PushTo(p, byte, state).state = state
           /\ Push(p, byte).left = p.left /\ PushTo(p, byte, state).left = p.left
           /\ Push(p, byte).out = p.out /\ PushTo(p, byte, state).out = p.out
           /\ Push(p, byte).buf = Append(p.buf, byte)
           /\ PushTo(p, byte, state).buf = Append(p.buf, byte)
<1>1. p.buf \in Seq(Bytes)
    BY DEF ParserType
<1> DEFINE b == Append(p.buf, byte)
<1>2. b \in Seq(Bytes)
    BY <1>1
<1>3. Push(p, byte) = [p EXCEPT !.buf = b]
    BY DEF Push, ParserType
<1> HIDE DEF b
<1>4. /\ Push(p, byte) \in ParserType
      /\ Push(p, byte).state = p.state /\ Push(p, byte).left = p.left
      /\ Push(p, byte).out = p.out /\ Push(p, byte).buf = b
    BY <1>2, <1>3 DEF ParserType
<1>5. PushTo(p, byte, state) = [Push(p, byte) EXCEPT !.state = state]
    BY DEF PushTo
<1> DEFINE q == Push(p, byte)
<1> HIDE DEF q
<1>6. q \in ParserType /\ PushTo(p, byte, state) = [q EXCEPT !.state = state]
    BY <1>4, <1>5 DEF q
<1>7. /\ PushTo(p, byte, state) \in ParserType
      /\ PushTo(p, byte, state).state = state /\ PushTo(p, byte, state).left = q.left
      /\ PushTo(p, byte, state).out = q.out /\ PushTo(p, byte, state).buf = q.buf
    BY <1>6 DEF ParserType
<1> QED
    BY <1>4, <1>7 DEF q, b

LEMMA LeadBytes ==
    /\ DOMAIN Lead = {"lead2", "lead3"} /\ \A byte \in DOMAIN Lead : Lead[byte] \in 1..2
    /\ "esc" \notin DOMAIN Lead
BY DEF Lead

LEMMA GroundTakes ==
    ASSUME NEW p, ParserInv(p), p.state = "Ground", NEW byte \in Bytes
    PROVE  Takes(p, Ground(p, byte), byte)
<1>1. p.buf = <<>> /\ Held(p) = <<>> /\ p.left = 0 /\ p \in ParserType
    <2>1. p.left \in 0..3
        BY DEF ParserInv, ParserType
    <2>2. ~(p.left > 0)
        BY DEF ParserInv
    <2>3. p.left = 0
        BY <2>1, <2>2
    <2> QED
        BY <2>3, HeldType DEF ParserInv
<1>2. Append(Held(p), byte) = <<byte>> /\ <<byte>> \in Seq(Bytes)
    BY <1>1
<1>3. CASE byte = "esc"
    <2> DEFINE q == [p EXCEPT !.state = "EscReceived", !.buf = <<byte>>]
    <2>1. /\ q \in ParserType /\ q.state = "EscReceived" /\ q.left = 0
          /\ q.buf = <<byte>> /\ q.out = p.out
        BY <1>1, <1>2 DEF ParserType, ParserStates
    <2>2. Ground(p, byte) = q
        BY <1>3, LeadBytes DEF Ground
    <2> HIDE DEF q
    <2>3. ParserInv(q)
        BY <1>3, <2>1 DEF ParserInv
    <2>4. Held(q) = <<byte>>
        BY <2>1, <2>3, HeldType
    <2> QED
        BY <1>2, <2>1, <2>2, <2>3, <2>4, PushTakes
<1>4. CASE byte \in DOMAIN Lead
    <2> DEFINE n == Lead[byte]
               q == [p EXCEPT !.state = "Utf8", !.left = n, !.buf = <<byte>>]
    <2>1. n \in 1..2 /\ byte # "esc"
        BY <1>4, LeadBytes
    <2>2. Ground(p, byte) = q
        BY <1>4, <2>1 DEF Ground, StartUtf8
    <2> HIDE DEF n
    <2> n \in 0..3
        BY <2>1
    <2>3. /\ q \in ParserType /\ q.state = "Utf8" /\ q.left = n
          /\ q.buf = <<byte>> /\ q.out = p.out
        BY <1>1, <1>2 DEF ParserType, ParserStates
    <2> HIDE DEF q
    <2>4. q.left > 0
        BY <2>1, <2>3
    <2>5. ParserInv(q)
        BY <2>3, <2>4 DEF ParserInv
    <2>6. Held(q) = <<byte>>
        BY <2>3, <2>5, HeldType
    <2> QED
        BY <1>2, <2>2, <2>3, <2>5, <2>6, PushTakes
<1>5. CASE byte # "esc" /\ byte \notin DOMAIN Lead
    <2>1. Ground(p, byte) = Emit(p, <<byte>>, KeyOf(byte))
        BY <1>5 DEF Ground
    <2> QED
        BY <1>2, <2>1, KindsType, EmitTakes
<1> QED
    BY <1>3, <1>4, <1>5

LEMMA EmitWithTakes ==
    ASSUME NEW p, ParserInv(p), p.state # "PasteBuf", NEW byte \in Bytes,
           NEW kind \in KindType
    PROVE  Takes(p, EmitWith(p, byte, kind), byte)
BY HeldType, EmitTakes DEF EmitWith

\* A state that counts nothing.
Uncounted == ParserStates \ {"Ground", "EscReceived", "MouseX10", "Utf8", "PasteBuf"}

LEMMA PushToTakes ==
    ASSUME NEW p, ParserInv(p), p.state # "PasteBuf", ~(p.left > 0), NEW byte \in Bytes,
           NEW state \in Uncounted,
           state = "CsiEntry" => Append(p.buf, byte) = Introducer,
           state = "CsiParam" =>
               \E s \in Seq(ParamBytes) : Append(p.buf, byte) = Introducer \o s
    PROVE  Takes(p, PushTo(p, byte, state), byte)
<1> DEFINE q == PushTo(p, byte, state)
<1>1. p \in ParserType /\ state \in ParserStates
    BY DEF ParserInv, Uncounted
<1>2. /\ q \in ParserType /\ q.state = state /\ q.left = p.left
      /\ q.out = p.out /\ q.buf = Append(p.buf, byte)
    BY <1>1, PushedFields
<1> HIDE DEF q
<1>3. ParserInv(q)
    BY <1>2 DEF ParserInv, Uncounted
<1>4. Held(q) = Append(Held(p), byte)
    BY <1>2, <1>3, HeldType DEF Uncounted
<1> QED
    BY <1>2, <1>3, <1>4, PushTakes DEF q

LEMMA LeftOf ==
    ASSUME NEW p, ParserInv(p)
    PROVE  /\ p.state \notin {"MouseX10", "Utf8"} => p.left = 0
           /\ p.left \in 0..3 /\ p \in ParserType /\ p.buf \in Seq(Bytes)
           /\ p.state \in {"MouseX10", "Utf8"} => p.left \in 1..3
<1>1. p \in ParserType /\ p.left \in 0..3 /\ p.buf \in Seq(Bytes)
    BY DEF ParserInv, ParserType
<1>2. p.left > 0 <=> p.state \in {"MouseX10", "Utf8"}
    BY DEF ParserInv
<1> QED
    BY <1>1, <1>2

LEMMA EscReceivedTakes ==
    ASSUME NEW p, ParserInv(p), p.state = "EscReceived", NEW byte \in Bytes
    PROVE  Takes(p, EscReceived(p, byte), byte)
<1>1. p.buf = <<"esc">> /\ Held(p) = <<"esc">> /\ ~(p.left > 0) /\ p \in ParserType
    BY HeldType DEF ParserInv
<1>2. CASE byte = "["
    <2>1. Append(p.buf, byte) = Introducer
        BY <1>1, <1>2, AppendToOne DEF Introducer
    <2>2. EscReceived(p, byte) = PushTo(p, byte, "CsiEntry")
        BY <1>2 DEF EscReceived, Controls
    <2> QED
        BY <1>1, <2>1, <2>2, PushToTakes DEF Uncounted, ParserStates
<1>3. CASE byte = "O"
    <2>1. EscReceived(p, byte) = PushTo(p, byte, "Ss3Pending")
        BY <1>3 DEF EscReceived, Controls
    <2> QED
        BY <1>1, <2>1, PushToTakes DEF Uncounted, ParserStates
<1>4. CASE byte = "esc"
    <2> DEFINE kind == Kind("Escape")
               e == Emit(p, <<"esc">>, kind)
               q == [e EXCEPT !.state = "EscReceived", !.buf = <<"esc">>]
    <2>1. EscReceived(p, byte) = q
        BY <1>4 DEF EscReceived, Printable, Finals, Letters, Digits, Controls
    <2>2. kind \in KindType /\ <<"esc">> \in Seq(Bytes)
        BY KindsType DEF Keys, Bytes
    <2> HIDE DEF kind
    <2>3. ParserInv(e) /\ e.state = "Ground" /\ Given(e) = Raws(p.out) \o <<"esc">>
        BY <2>2, EmitGives
    <2> HIDE DEF e
    <2>4. e \in ParserType /\ e.left = 0
        BY <2>3, LeftOf
    <2>5. /\ q \in ParserType /\ q.state = "EscReceived" /\ q.left = 0
          /\ q.buf = <<"esc">> /\ q.out = e.out
        BY <2>2, <2>4 DEF ParserType, ParserStates
    <2> HIDE DEF q
    <2>6. ParserInv(q)
        BY <2>5 DEF ParserInv
    <2>7. Held(e) = <<>> /\ Held(q) = <<"esc">>
        BY <2>3, <2>5, <2>6, HeldType DEF ParserInv
    <2>8. Takes(e, q, byte)
        <3>1. Append(<<>>, byte) = <<"esc">>
            BY <1>4
        <3>2. Held(q) = Append(Held(e), byte)
            BY <2>7, <3>1
        <3> QED
            BY <2>3, <2>5, <2>6, <3>2, PushTakes
    <2>9. Given(p) = Given(e)
        BY <1>1, <2>3 DEF Given
    <2> QED
        BY <2>1, <2>8, <2>9 DEF Takes
<1>5. CASE byte \notin {"[", "O", "esc"}
    <2>1. \E kind \in KindType : EscReceived(p, byte) = EmitWith(p, byte, kind)
        <3>1. /\ Alt(Kind("Control")) \in KindType /\ Alt(KeyOf(byte)) \in KindType
              /\ Unknown \in KindType
            BY KindsType DEF Keys
        <3> QED
            BY <1>5, <3>1 DEF EscReceived
    <2> QED
        BY <2>1, EmitWithTakes
<1> QED
    BY <1>2, <1>3, <1>4, <1>5

LEMMA CsiEntryTakes ==
    ASSUME NEW p, ParserInv(p), p.state = "CsiEntry", NEW byte \in Bytes
    PROVE  Takes(p, CsiEntry(p, byte), byte)
<1>1. p.buf = Introducer /\ Held(p) = p.buf /\ ~(p.left > 0) /\ p \in ParserType
    BY HeldType DEF ParserInv
<1>2. CASE byte = "M"
    <2> DEFINE e == PushTo(p, byte, "MouseX10")
               q == [e EXCEPT !.left = 3]
    <2>1. CsiEntry(p, byte) = q
        BY <1>2, Zenon DEF CsiEntry, Digits
    <2>2. e \in ParserType /\ e.state = "MouseX10" /\ e.buf = Append(p.buf, byte) /\ e.out = p.out
        BY <1>1, PushedFields, ZenonT(60) DEF ParserStates
    <2> HIDE DEF e
    <2> 3 \in 0..3
        OBVIOUS
    <2>3. /\ q \in ParserType /\ q.state = "MouseX10" /\ q.left = 3
          /\ q.buf = Append(p.buf, byte) /\ q.out = p.out
        BY <2>2 DEF ParserType
    <2> HIDE DEF q
    <2>4. ParserInv(q)
        <3>1. q.left > 0
            BY <2>3
        <3> QED
            BY <2>3, <3>1 DEF ParserInv
    <2>5. Held(q) = q.buf
        BY <2>3, <2>4, HeldType
    <2> QED
        BY <1>1, <2>1, <2>3, <2>4, <2>5, PushTakes
<1>3. CASE byte = "<"
    <2>1. CsiEntry(p, byte) = PushTo(p, byte, "SgrMouse")
        BY <1>3, Zenon DEF CsiEntry, Digits
    <2> QED
        BY <1>1, <2>1, PushToTakes DEF Uncounted, ParserStates
<1>4. CASE byte \in ParamBytes
    <2>1. CsiEntry(p, byte) = PushTo(p, byte, "CsiParam")
        <3>1. byte \notin {"M", "<"}
            BY <1>4, Zenon DEF ParamBytes, Digits
        <3> QED
            BY <1>4, <3>1, Zenon DEF CsiEntry, ParamBytes
    <2>2. /\ <<byte>> \in Seq(ParamBytes)
          /\ Append(p.buf, byte) = Introducer \o <<byte>>
        <3> DEFINE D == ParamBytes
        <3> byte \in D
            BY <1>4
        <3> HIDE DEF D
        <3>1. <<byte>> \in Seq(D)
            OBVIOUS
        <3>2. Append(Introducer, byte) = Introducer \o <<byte>>
            BY DEF Introducer
        <3> QED
            BY <1>1, <3>1, <3>2 DEF D
    <2> QED
        BY <1>1, <2>1, <2>2, PushToTakes DEF Uncounted, ParserStates
<1>5. CASE byte \notin {"M", "<"} \cup (ParamBytes)
    <2>1. CsiEntry(p, byte) = EmitWith(p, byte, ClassifyCsiFinal(byte, <<>>))
        BY <1>5, Zenon DEF CsiEntry, ParamBytes
    <2> QED
        BY <2>1, ClassifiedType, EmitWithTakes
<1> QED
    BY <1>2, <1>3, <1>4, <1>5

-----------------------------------------------------------------------------
(* The start of a paste. *)

\* f takes s apart at its semicolons, from the left.
ParamsBy(f, s) ==
    f = [n \in 0..Len(s) |->
            CASE n = 0             -> <<"0">>
              [] n > 0 /\ Semi(s[n]) -> Append(f[n - 1], "0")
              [] OTHER             -> Append(Front(f[n - 1]), s[n])]

Param == Digits \cup {"0"}

\* What s has before its first semicolon ends in 200.
Begins200(s, n) ==
    \E j \in 1..n : /\ s[j] = "200" /\ \A i \in 1..(j - 1) : ~Semi(s[i])
                    /\ j < n => Semi(s[j + 1])

LEMMA ParamsGo ==
    ASSUME NEW s \in Seq(ParamBytes)
    PROVE  LET h == CHOOSE x : ParamsBy(x, s)
           IN  /\ h \in [0..Len(s) -> Seq(Param)] /\ h[0] = <<"0">>
               /\ \A n \in 1..Len(s) :
                      h[n] = IF Semi(s[n]) THEN Append(h[n - 1], "0")
                             ELSE Append(Front(h[n - 1]), s[n])
<1> DEFINE len == Len(s)
           V == Seq(Param)
           Next1(x, n) == IF Semi(s[n]) THEN Append(x, "0") ELSE Append(Front(x), s[n])
           G == [n \in 1..len |-> [x \in V |-> Next1(x, n)]]
           v == <<"0">>
           h == CHOOSE x : ParamsBy(x, s)
<1>1. len \in Nat /\ \A n \in 1..len : Semi(s[n]) \/ s[n] \in Param
    <2>1. \A byte \in ParamBytes : Semi(byte) \/ byte \in Param
        BY Zenon DEF Param, ParamBytes, Semi
    <2>2. len \in Nat /\ \A n \in 1..len : s[n] \in ParamBytes
        OBVIOUS
    <2> QED
        BY <2>1, <2>2
<1>2. v \in V
    BY DEF Param
<1>3. \A n \in 1..len : \A x \in V : Next1(x, n) \in V
    <2> SUFFICES ASSUME NEW n \in 1..len, NEW x \in V
                 PROVE  Next1(x, n) \in V
        OBVIOUS
    <2>1. Front(x) \in V
        BY DEF Front
    <2>2. CASE Semi(s[n])
        BY <2>2 DEF Param
    <2>3. CASE ~Semi(s[n])
        BY <1>1, <2>1, <2>3
    <2> QED
        BY <2>2, <2>3
<1>4. G \in [1..len -> [V -> V]] /\ \A n \in 1..len : \A x \in V : G[n][x] = Next1(x, n)
    BY <1>3
<1> HIDE DEF V, G, v, len, Next1
<1>5. PICK f \in [0..len -> V] : Iterates(f, len, v, G)
    BY <1>1, <1>2, <1>4, Iterated
<1>6. f[0] = v /\ \A n \in 1..len : f[n] = Next1(f[n - 1], n)
    <2>1. ASSUME NEW n \in 1..len PROVE f[n] = Next1(f[n - 1], n)
        <3>1. n - 1 \in 0..len
            BY <1>1
        <3>2. f[n - 1] \in V
            BY <1>5, <3>1
        <3> QED
            BY <1>4, <1>5, <3>2 DEF Iterates
    <2> QED
        BY <1>5, <2>1 DEF Iterates
<1>7. ParamsBy(f, s)
    <2>1. f = [n \in 0..len |-> f[n]]
        OBVIOUS
    <2>2. ASSUME NEW n \in 0..len
          PROVE  f[n] = CASE n = 0             -> <<"0">>
                          [] n > 0 /\ Semi(s[n]) -> Append(f[n - 1], "0")
                          [] OTHER             -> Append(Front(f[n - 1]), s[n])
        <3>1. CASE n = 0
            BY <1>6, <3>1 DEF v
        <3>2. CASE n # 0
            <4>1. n \in 1..len /\ n > 0
                BY <1>1, <3>2
            <4>2. f[n] = Next1(f[n - 1], n)
                BY <1>6, <4>1
            <4> QED
                BY <3>2, <4>1, <4>2 DEF Next1
        <3> QED
            BY <3>1, <3>2
    <2> QED
        BY <2>1, <2>2 DEF ParamsBy, len
<1>8. ParamsBy(h, s)
    BY <1>7
<1> HIDE DEF h
<1>9. h[0] = <<"0">> /\ \A n \in 1..len : h[n] = Next1(h[n - 1], n)
    <2>1. h[0] = <<"0">>
        <3>1. 0 \in 0..len
            BY <1>1
        <3> QED
            BY <1>8, <3>1 DEF ParamsBy, len
    <2>2. ASSUME NEW n \in 1..len PROVE h[n] = Next1(h[n - 1], n)
        <3>1. n \in 0..len /\ n # 0 /\ n > 0
            BY <1>1
        <3>2. h[n] = CASE n = 0             -> <<"0">>
                       [] n > 0 /\ Semi(s[n]) -> Append(h[n - 1], "0")
                       [] OTHER             -> Append(Front(h[n - 1]), s[n])
            BY <1>8, <3>1 DEF ParamsBy, len
        <3> QED
            BY <3>1, <3>2 DEF Next1
    <2> QED
        BY <2>1, <2>2
<1>10. h \in [0..len -> V]
    <2> DEFINE S == {n \in Nat : n <= len => h[n] \in V}
    <2>1. 0 \in S
        BY <1>2, <1>9 DEF v
    <2>2. ASSUME NEW n \in Nat, n \in S PROVE n + 1 \in S
        <3> SUFFICES ASSUME n + 1 <= len PROVE h[n + 1] \in V
            OBVIOUS
        <3>1. n + 1 \in 1..len /\ (n + 1) - 1 = n /\ h[n] \in V
            BY <1>1, <2>2
        <3> QED
            BY <1>3, <1>9, <3>1
    <2> HIDE DEF S
    <2>3. Nat \subseteq S
        BY <2>1, <2>2, NatSetInduction
    <2>4. \A n \in 0..len : h[n] \in V
        BY <2>3 DEF S
    <2>5. h = [n \in 0..len |-> h[n]]
        BY <1>8 DEF ParamsBy, len
    <2> QED
        BY <2>4, <2>5
<1> QED
    BY <1>9, <1>10 DEF h, V, len, Next1

\* The last element gives way to a.
LEMMA LastReplaced ==
    ASSUME NEW A, NEW x \in Seq(A), Len(x) >= 1, NEW a
    PROVE  /\ Len(Append(Front(x), a)) = Len(x)
           /\ Append(Front(x), a)[1] = IF Len(x) = 1 THEN a ELSE x[1]
<1> DEFINE f == Front(x)
           n == Len(x) - 1
<1>1. n \in Nat /\ Len(x) = n + 1 /\ n <= Len(x) /\ \A i \in 1..n : i \in 1..Len(x)
    OBVIOUS
<1> f = SubSeq(x, 1, n)
    BY DEF Front
<1> HIDE DEF f, n
<1>2. f \in Seq(A) /\ Len(f) = n /\ \A i \in 1..n : f[i] = x[i]
    <2>1. f \in Seq(A)
        BY <1>1
    <2>2. Len(f) = n
        BY <1>1
    <2>3. \A i \in 1..n : f[i] = x[i]
        BY <1>1
    <2> QED
        BY <2>1, <2>2, <2>3
<1>3. Len(Append(f, a)) = n + 1
    BY <1>1, <1>2
<1>4. Append(f, a)[1] = IF n = 0 THEN a ELSE x[1]
    <2>1. CASE n = 0
        BY <1>2, <2>1
    <2>2. CASE n # 0
        <3>1. 1 \in 1..n
            BY <1>1, <2>2
        <3>2. Append(f, a)[1] = f[1]
            BY <1>2, <3>1
        <3> QED
            BY <1>2, <2>2, <3>1, <3>2
    <2> QED
        BY <2>1, <2>2
<1>5. n = 0 <=> Len(x) = 1
    BY <1>1
<1> QED
    BY <1>1, <1>3, <1>4, <1>5 DEF f

\* One byte more, after n of them.
LEMMA BeginsGoesOn ==
    ASSUME NEW s, NEW n \in Nat
    PROVE  /\ Begins200(s, n) /\ Semi(s[n + 1]) => Begins200(s, n + 1)
           /\ Begins200(s, n) /\ ~(\A i \in 1..n : ~Semi(s[i])) => Begins200(s, n + 1)
           /\ s[n + 1] = "200" /\ (\A i \in 1..n : ~Semi(s[i])) => Begins200(s, n + 1)
<1> DEFINE m == n + 1
<1>1. m \in Nat /\ m \in 1..m /\ ~(m < m) /\ m - 1 = n
    OBVIOUS
<1>2. ASSUME s[m] = "200", \A i \in 1..n : ~Semi(s[i])
      PROVE  Begins200(s, m)
    <2> HIDE DEF m
    <2> QED
        BY <1>1, <1>2 DEF Begins200
<1>3. ASSUME Begins200(s, n), Semi(s[m]) \/ ~(\A i \in 1..n : ~Semi(s[i]))
      PROVE  Begins200(s, m)
    <2>1. PICK j \in 1..n : /\ s[j] = "200" /\ \A i \in 1..(j - 1) : ~Semi(s[i])
                            /\ j < n => Semi(s[j + 1])
        BY <1>3 DEF Begins200
    <2>2. j \in 1..n
        OBVIOUS
    <2>3. j \in 1..m /\ (j < n \/ j = n)
        BY <2>2
    <2>4. Semi(s[j + 1])
        <3>1. CASE j < n
            BY <2>1, <3>1
        <3>2. CASE j = n /\ Semi(s[m])
            BY <3>2
        <3>3. CASE j = n /\ ~(\A i \in 1..n : ~Semi(s[i]))
            <4>1. \A i \in 1..n : i = j \/ i \in 1..(j - 1)
                BY <2>2, <3>3
            <4>2. ~Semi(s[j])
                BY <2>1, Zenon DEF Semi
            <4>3. \A i \in 1..n : ~Semi(s[i])
                BY <2>1, <4>1, <4>2
            <4> QED
                BY <3>3, <4>3
        <3> QED
            BY <1>3, <2>3, <3>1, <3>2, <3>3
    <2> HIDE DEF m
    <2> QED
        BY <2>1, <2>3, <2>4 DEF Begins200
<1> QED
    BY <1>2, <1>3

AsksForPaste(s) == Params(s)[1] = "200"

LEMMA ParamsFirst ==
    ASSUME NEW s \in Seq(ParamBytes), AsksForPaste(s)
    PROVE  Begins200(s, Len(s))
<1> DEFINE h == CHOOSE x : ParamsBy(x, s)
           len == Len(s)
<1>1. Params(s) = h[len]
    BY DEF Params, ParamsBy
<1>2. /\ h \in [0..len -> Seq(Param)] /\ h[0] = <<"0">>
      /\ \A n \in 1..len : h[n] = IF Semi(s[n]) THEN Append(h[n - 1], "0")
                                  ELSE Append(Front(h[n - 1]), s[n])
    BY ParamsGo
<1>3. len \in Nat
    OBVIOUS
<1> HIDE DEF h, len
<1> DEFINE Plain(n) == \A i \in 1..n : ~Semi(s[i])
           P(n) == /\ Len(h[n]) >= 1
                   /\ Len(h[n]) = 1 <=> Plain(n)
                   /\ h[n][1] = "200" => Begins200(s, n)
           S == {n \in Nat : n <= len => P(n)}
<1>4. 0 \in S
    <2>1. Len(<<"0">>) = 1 /\ <<"0">>[1] # "200" /\ 1..0 = {}
        OBVIOUS
    <2>2. Len(h[0]) >= 1 /\ Len(h[0]) = 1 /\ h[0][1] # "200"
        BY <1>2, <2>1
    <2>3. Plain(0)
        BY <2>1
    <2>4. P(0)
        <3> HIDE DEF Plain
        <3> QED
            BY <2>2, <2>3
    <2> HIDE DEF P
    <2> QED
        BY <2>4
<1>5. ASSUME NEW n \in Nat, n \in S PROVE n + 1 \in S
    <2> SUFFICES ASSUME n + 1 <= len PROVE P(n + 1)
        OBVIOUS
    <2> DEFINE x == h[n]
               m == n + 1
    <2>1. /\ x \in Seq(Param) /\ P(n)
          /\ h[m] = IF Semi(s[m]) THEN Append(x, "0") ELSE Append(Front(x), s[m])
        <3>1. m \in 1..len /\ n \in 0..len /\ m - 1 = n
            BY <1>3
        <3> QED
            BY <1>2, <1>5, <3>1
    <2>2. /\ Len(x) >= 1 /\ (Len(x) = 1 <=> Plain(n))
          /\ x[1] = "200" => Begins200(s, n)
        BY <2>1
    <2>3. Plain(m) <=> Plain(n) /\ ~Semi(s[m])
        <3>1. 1..m = 1..n \cup {m}
            OBVIOUS
        <3> QED
            BY <3>1
    <2>4. /\ Begins200(s, n) /\ Semi(s[m]) => Begins200(s, m)
          /\ Begins200(s, n) /\ ~Plain(n) => Begins200(s, m)
          /\ s[m] = "200" /\ Plain(n) => Begins200(s, m)
        BY BeginsGoesOn
    <2> HIDE DEF P, S, Plain, x, m
    <2>5. CASE Semi(s[m])
        <3>1. h[m] = Append(x, "0")
            BY <2>1, <2>5
        <3>2. Len(x) \in Nat /\ Len(x) >= 1
            BY <2>1, <2>2
        <3>3. Len(h[m]) = Len(x) + 1 /\ h[m][1] = x[1]
            <4>1. x \in Seq(Param) /\ 1 \in 1..Len(x)
                BY <2>1, <3>2
            <4>2. Len(Append(x, "0")) = Len(x) + 1 /\ Append(x, "0")[1] = x[1]
                BY <4>1
            <4> QED
                BY <3>1, <4>2
        <3>4. Len(h[m]) # 1 /\ Len(h[m]) >= 1
            BY <3>2, <3>3
        <3>5. P(m)
            BY <2>2, <2>3, <2>4, <2>5, <3>3, <3>4 DEF P
        <3> QED
            BY <3>5 DEF m
    <2>6. CASE ~Semi(s[m])
        <3>1. Len(h[m]) = Len(x) /\ h[m][1] = IF Len(x) = 1 THEN s[m] ELSE x[1]
            <4>1. h[m] = Append(Front(x), s[m]) /\ x \in Seq(Param) /\ Len(x) >= 1
                BY <2>1, <2>2, <2>6
            <4>2. /\ Len(Append(Front(x), s[m])) = Len(x)
                  /\ Append(Front(x), s[m])[1] = IF Len(x) = 1 THEN s[m] ELSE x[1]
                BY <4>1, LastReplaced
            <4> QED
                BY <4>1, <4>2
        <3>2. P(m)
            BY <2>2, <2>3, <2>4, <2>6, <3>1 DEF P
        <3> QED
            BY <3>2 DEF m
    <2> QED
        BY <2>5, <2>6
<1>6. len \in S
    <2> HIDE DEF S
    <2> QED
        BY <1>3, <1>4, <1>5, NatSetInduction
<1> QED
    BY <1>1, <1>3, <1>6 DEF len, AsksForPaste

\* A 200 in W begins a run of digits, and right behind a bracket a tilde follows.
Marked(W) ==
    \A i \in 2..Len(W) :
        W[i] = "200" =>
            /\ W[i - 1] \notin Digits
            /\ W[i - 1] = "[" => (i < Len(W) => W[i + 1] = "~")

LEMMA MarkedPart ==
    ASSUME NEW a \in Seq(Bytes), NEW b \in Seq(Bytes), NEW c \in Seq(Bytes),
           Marked((a \o b) \o c)
    PROVE  Marked(b)
<1> DEFINE W == (a \o b) \o c
           k == Len(a)
           n == Len(b)
<1>1. /\ k \in Nat /\ n \in Nat /\ Len(W) \in Nat /\ Len(W) >= k + n
      /\ \A i \in 1..n : W[k + i] = b[i]
    <2>1. a \o b \in Seq(Bytes) /\ Len(a \o b) = k + n /\ k \in Nat /\ n \in Nat /\ Len(c) \in Nat
        OBVIOUS
    <2>2. Len(W) = (k + n) + Len(c)
        BY <2>1
    <2>3. ASSUME NEW i \in 1..n PROVE W[k + i] = b[i]
        <3>1. k + i \in 1..(k + n)
            BY <2>1
        <3>2. W[k + i] = (a \o b)[k + i]
            BY <2>1, <3>1
        <3>3. (a \o b)[k + i] = b[i]
            BY <2>1, <3>1
        <3> QED
            BY <3>2, <3>3
    <2> QED
        BY <2>1, <2>2, <2>3
<1> Marked(W)
    OBVIOUS
<1> HIDE DEF W, k, n
<1> SUFFICES ASSUME NEW i \in 2..n, b[i] = "200"
             PROVE  /\ b[i - 1] \notin Digits
                    /\ b[i - 1] = "[" => (i < n => b[i + 1] = "~")
    BY DEF Marked, n
<1>2. /\ i \in 1..n /\ i - 1 \in 1..n /\ k + i \in 2..Len(W)
      /\ (k + i) - 1 = k + (i - 1) /\ (k + i) + 1 = k + (i + 1)
      /\ i < n => i + 1 \in 1..n /\ k + i < Len(W)
    BY <1>1
<1>3. W[k + i] = b[i] /\ W[k + (i - 1)] = b[i - 1] /\ (i < n => W[k + (i + 1)] = b[i + 1])
    BY <1>1, <1>2
<1> QED
    BY <1>2, <1>3 DEF Marked

LEMMA IntroducerThen ==
    ASSUME NEW s \in Seq(ParamBytes)
    PROVE  LET b == Introducer \o s
           IN  /\ b \in Seq(Bytes) /\ Len(b) = Len(s) + 2
               /\ b[1] = "esc" /\ b[2] = "[" /\ \A i \in 1..Len(s) : b[i + 2] = s[i]
               /\ SubSeq(b, 3, Len(b)) = s
<1>1. ParamBytes \subseteq Bytes /\ "esc" \in Bytes /\ "[" \in Bytes
    BY Zenon DEF ParamBytes, Bytes, Printable, Finals
<1> DEFINE b == Introducer \o s
           n == Len(s)
<1>2. Introducer \in Seq(Bytes) /\ Len(Introducer) = 2 /\ Introducer[1] = "esc" /\ Introducer[2] = "["
    BY <1>1 DEF Introducer
<1>3. s \in Seq(Bytes) /\ n \in Nat /\ DOMAIN s = 1..n
    BY <1>1
<1>4. b \in Seq(Bytes) /\ Len(b) = n + 2
    <2>1. b \in Seq(Bytes)
        BY <1>2, <1>3
    <2>2. Len(b) = Len(Introducer) + Len(s)
        BY <1>2, <1>3, ConcatProperties
    <2> QED
        BY <1>2, <1>3, <2>1, <2>2
<1>5. b[1] = "esc" /\ b[2] = "[" /\ \A i \in 1..n : b[i + 2] = s[i]
    <2>1. ASSUME NEW i \in 1..(2 + n)
          PROVE  b[i] = IF i <= 2 THEN Introducer[i] ELSE s[i - 2]
        <3>1. i \in 1..(Len(Introducer) + Len(s))
            BY <1>2
        <3>2. b[i] = IF i <= Len(Introducer) THEN Introducer[i] ELSE s[i - Len(Introducer)]
            BY <1>2, <1>3, <3>1, ConcatProperties
        <3> QED
            BY <1>2, <3>2
    <2>2. 1 \in 1..(2 + n) /\ 2 \in 1..(2 + n)
        BY <1>3
    <2>3. \A i \in 1..n : i + 2 \in 1..(2 + n) /\ ~(i + 2 <= 2) /\ (i + 2) - 2 = i
        BY <1>3
    <2> HIDE DEF b
    <2>4. \A i \in 1..n : b[i + 2] = s[i]
        BY <2>1, <2>3
    <2>5. b[1] = Introducer[1] /\ b[2] = Introducer[2]
        BY <2>1, <2>2
    <2> QED
        BY <1>2, <2>4, <2>5
<1> HIDE DEF b, n
<1>6. SubSeq(b, 3, Len(b)) = s
    <2> DEFINE t == SubSeq(b, 3, n + 2)
    <2>1. t \in Seq(Bytes) /\ Len(t) = n
        BY <1>3, <1>4
    <2>2. \A i \in 1..n : t[i] = b[i + 2]
        BY <1>3, <1>4
    <2> HIDE DEF t
    <2>3. t = s
        BY <1>3, <1>5, <2>1, <2>2, SeqEqual DEF n
    <2> QED
        BY <1>4, <2>3 DEF t
<1> QED
    BY <1>4, <1>5, <1>6 DEF b, n

\* Only the start of a paste asks for one.
LEMMA PasteBegins ==
    ASSUME NEW p, ParserInv(p), p.state = "CsiParam", CsiParams(p)[1] = "200",
           Marked(Append(p.buf, "~"))
    PROVE  Append(p.buf, "~") = PasteStart
<1>1. PICK s \in Seq(ParamBytes) : p.buf = Introducer \o s
    BY DEF ParserInv
<1> DEFINE b == Introducer \o s
           n == Len(s)
           W == Append(b, "~")
<1>2. /\ b \in Seq(Bytes) /\ Len(b) = n + 2 /\ n \in Nat
      /\ b[1] = "esc" /\ b[2] = "[" /\ \A i \in 1..n : b[i + 2] = s[i]
      /\ SubSeq(b, 3, Len(b)) = s
    BY IntroducerThen
<1>3. Begins200(s, n)
    <2>1. Params(s)[1] = "200"
        BY <1>1, <1>2 DEF CsiParams
    <2> QED
        BY <2>1, ParamsFirst DEF AsksForPaste
<1>4. Marked(W)
    BY <1>1
<1> HIDE DEF b
<1>5. /\ Len(W) = n + 3 /\ W[n + 3] = "~"
      /\ \A i \in 1..(n + 2) : W[i] = b[i]
    BY <1>2
<1> HIDE DEF W
<1>6. PICK j \in 1..n : /\ s[j] = "200" /\ \A i \in 1..(j - 1) : ~Semi(s[i])
                        /\ j < n => Semi(s[j + 1])
    BY <1>3 DEF Begins200
<1>7. W[j + 2] = "200" /\ j + 2 \in 2..Len(W)
    BY <1>2, <1>5, <1>6
<1>8. W[(j + 2) - 1] \notin Digits
    BY <1>4, <1>7 DEF Marked
<1>9. j = 1
    <2> SUFFICES ASSUME j # 1 PROVE FALSE
        OBVIOUS
    <2>1. j - 1 \in 1..n /\ j - 1 \in 1..(j - 1) /\ (j + 2) - 1 = (j - 1) + 2
        BY <1>2
    <2>2. W[(j + 2) - 1] = s[j - 1]
        BY <1>2, <1>5, <2>1
    <2>3. s[j - 1] \in ParamBytes /\ ~Semi(s[j - 1])
        BY <1>6, <2>1
    <2>4. s[j - 1] \in Digits
        BY <2>3, Zenon DEF ParamBytes, Semi
    <2> QED
        BY <1>8, <2>2, <2>4
<1>10. n = 1
    <2> SUFFICES ASSUME n # 1 PROVE FALSE
        OBVIOUS
    <2>1. 1 < n /\ 2 \in 1..n /\ 3 \in 2..Len(W) /\ 3 < Len(W)
        BY <1>2, <1>5, <1>9
    <2>2. W[3] = "200" /\ W[2] = "[" /\ W[4] = s[2]
        BY <1>2, <1>5, <1>7, <1>9, <2>1
    <2>3. W[4] = "~"
        BY <1>4, <2>1, <2>2 DEF Marked
    <2>4. Semi(s[2])
        BY <1>6, <1>9, <2>1
    <2>5. s[2] # "~"
        BY <2>4, Zenon DEF Semi
    <2> QED
        BY <2>2, <2>3, <2>5
<1>11. W \in Seq(Bytes)
    <2>1. "~" \in Bytes
        BY Zenon DEF Bytes, Printable, Finals
    <2> QED
        BY <1>2, <2>1 DEF W
<1>12. PasteStart \in Seq(Bytes) /\ Len(PasteStart) = 4
    <2>1. "~" \in Bytes /\ "[" \in Bytes /\ "esc" \in Bytes /\ "200" \in Bytes
        BY Zenon DEF Bytes, Printable, Finals, Digits
    <2> QED
        BY <2>1 DEF PasteStart
<1>13. W[1] = "esc" /\ W[2] = "[" /\ W[3] = "200" /\ W[4] = "~" /\ Len(W) = 4
    BY <1>2, <1>5, <1>7, <1>9, <1>10
<1>14. \A i \in 1..4 : W[i] = PasteStart[i]
    BY <1>13 DEF PasteStart
<1>15. W = PasteStart
    BY <1>11, <1>12, <1>13, <1>14, SeqEqual
<1> QED
    BY <1>1, <1>15 DEF W, b

-----------------------------------------------------------------------------
(* Every other state. *)

LEMMA AppendAssociates ==
    ASSUME NEW a \in Seq(Bytes), NEW b \in Seq(Bytes), NEW x \in Bytes
    PROVE  Append(a \o b, x) = a \o Append(b, x) /\ Append(b, x) \in Seq(Bytes)
OBVIOUS

LEMMA PasteStartType == PasteStart \in Seq(Bytes)
<1>1. "esc" \in Bytes /\ "[" \in Bytes /\ "200" \in Bytes /\ "~" \in Bytes
    BY Zenon DEF Bytes, Printable, Finals, Digits
<1> QED
    BY <1>1 DEF PasteStart

LEMMA CsiParamTakes ==
    ASSUME NEW p, ParserInv(p), p.state = "CsiParam", NEW byte \in Bytes,
           Marked(Append(p.buf, byte))
    PROVE  Takes(p, CsiParam(p, byte), byte)
<1>1. Held(p) = p.buf /\ p \in ParserType /\ p.left = 0 /\ p.buf \in Seq(Bytes)
    BY HeldType, LeftOf
<1>2. CASE byte \in ParamBytes
    <2> DEFINE q == Push(p, byte)
    <2>1. CsiParam(p, byte) = q
        <3>1. byte # "~" /\ byte \notin Finals
            BY <1>2, Zenon DEF ParamBytes, Finals, Letters, Digits
        <3> QED
            BY <1>2, <3>1, Zenon DEF CsiParam, ParamBytes
    <2>2. /\ q \in ParserType /\ q.state = "CsiParam" /\ q.left = 0
          /\ q.out = p.out /\ q.buf = Append(p.buf, byte)
        BY <1>1, PushedFields, ZenonT(60) DEF ParserStates
    <2> HIDE DEF q
    <2>3. \E s \in Seq(ParamBytes) : q.buf = Introducer \o s
        <3>1. PICK s \in Seq(ParamBytes) : p.buf = Introducer \o s
            BY DEF ParserInv
        <3>2. s \in Seq(ParamBytes)
            BY <3>1
        <3>3. Append(s, byte) \in Seq(ParamBytes)
            BY <1>2, <3>2
        <3>4. ParamBytes \subseteq Bytes /\ "esc" \in Bytes /\ "[" \in Bytes
            BY Zenon DEF ParamBytes, Bytes, Printable, Finals
        <3>5. Introducer \in Seq(Bytes) /\ s \in Seq(Bytes)
            BY <3>2, <3>4 DEF Introducer
        <3>6. Append(Introducer \o s, byte) = Introducer \o Append(s, byte)
            BY <3>5, AppendAssociates
        <3>7. q.buf = Introducer \o Append(s, byte)
            BY <2>2, <3>1, <3>6
        <3> QED
            BY <3>3, <3>7
    <2>4. ParserInv(q)
        <3>1. ~(q.left > 0)
            BY <2>2
        <3> QED
            BY <2>2, <2>3, <3>1 DEF ParserInv
    <2>5. Held(q) = Append(Held(p), byte)
        BY <1>1, <2>2, <2>4, HeldType
    <2> QED
        BY <2>1, <2>2, <2>4, <2>5, PushTakes
<1>3. CASE byte = "~" /\ CsiParams(p)[1] = "200"
    <2> DEFINE q == [p EXCEPT !.state = "PasteBuf", !.buf = <<>>]
    <2>1. CsiParam(p, byte) = q
        BY <1>3, Zenon DEF CsiParam, Digits
    <2>2. /\ q \in ParserType /\ q.state = "PasteBuf" /\ q.left = 0
          /\ q.out = p.out /\ q.buf = <<>>
        <3> <<>> \in Seq(Bytes)
            OBVIOUS
        <3> QED
            BY <1>1 DEF ParserType, ParserStates
    <2> HIDE DEF q
    <2>3. ParserInv(q)
        <3>1. ~(q.left > 0)
            BY <2>2
        <3> QED
            BY <2>2, <3>1 DEF ParserInv
    <2>4. Append(p.buf, byte) = PasteStart
        BY <1>3, PasteBegins
    <2>5. Held(q) = Append(Held(p), byte)
        <3>1. PasteStart \in Seq(Bytes)
            BY <1>1, <2>4
        <3>2. PasteStart \o <<>> = PasteStart
            BY <3>1
        <3> QED
            BY <1>1, <2>2, <2>4, <3>2 DEF Held, IsInPaste
    <2> QED
        BY <2>1, <2>2, <2>3, <2>5, PushTakes
<1>4. CASE byte \notin ParamBytes /\ ~(byte = "~" /\ CsiParams(p)[1] = "200")
    <2>1. \E kind \in KindType : CsiParam(p, byte) = EmitWith(p, byte, kind)
        <3>1. /\ ClassifyTildeKey(CsiParams(p)) \in KindType
              /\ ClassifyCsiFinal(byte, CsiParams(p)) \in KindType /\ Unknown \in KindType
            BY ClassifiedType, KindsType
        <3> QED
            BY <1>4, <3>1, Zenon DEF CsiParam, ParamBytes
    <2> QED
        BY <2>1, EmitWithTakes
<1> QED
    BY <1>2, <1>3, <1>4

LEMMA Ss3Takes ==
    ASSUME NEW p, ParserInv(p), p.state = "Ss3Pending", NEW byte \in Bytes
    PROVE  Takes(p, Ss3Pending(p, byte), byte)
<1> DEFINE kind == IF byte \in DOMAIN Ss3Keys THEN Kind(Ss3Keys[byte]) ELSE Unknown
<1>1. kind \in KindType
    <2>1. DOMAIN Ss3Keys = {"A", "H", "P"}
          /\ Ss3Keys["A"] = "Arrow" /\ Ss3Keys["H"] = "Nav" /\ Ss3Keys["P"] = "Function"
        BY DEF Ss3Keys
    <2>2. \A b \in DOMAIN Ss3Keys : Ss3Keys[b] \in Keys
        BY <2>1 DEF Keys
    <2> QED
        BY <2>2, KindsType
<1>2. Ss3Pending(p, byte) = EmitWith(p, byte, kind)
    BY DEF Ss3Pending
<1> HIDE DEF kind
<1> QED
    BY <1>1, <1>2, EmitWithTakes

\* A byte of those the state counts, and not the last.
LEMMA CountedTakes ==
    ASSUME NEW p, ParserInv(p), p.state \in {"MouseX10", "Utf8"}, p.left > 1, NEW byte \in Bytes
    PROVE  Takes(p, [Push(p, byte) EXCEPT !.left = @ - 1], byte)
<1> DEFINE e == Push(p, byte)
           n == e.left - 1
           q == [e EXCEPT !.left = n]
<1>1. p \in ParserType /\ p.left \in 0..3 /\ Held(p) = p.buf
    BY LeftOf, HeldType
<1>2. /\ e \in ParserType /\ e.state = p.state /\ e.left = p.left
      /\ e.out = p.out /\ e.buf = Append(p.buf, byte)
    BY <1>1, PushedFields DEF ParserStates
<1>3. [Push(p, byte) EXCEPT !.left = @ - 1] = q
    OBVIOUS
<1> HIDE DEF e
<1>4. n \in 0..3 /\ n > 0
    BY <1>1, <1>2
<1> HIDE DEF n
<1>5. /\ q \in ParserType /\ q.state = e.state /\ q.left = n
      /\ q.buf = e.buf /\ q.out = e.out
    BY <1>2, <1>4 DEF ParserType
<1> HIDE DEF q
<1>6. ParserInv(q)
    <2>1. q.left > 0
        BY <1>4, <1>5
    <2> QED
        BY <1>2, <1>5, <2>1 DEF ParserInv
<1>7. Held(q) = q.buf
    BY <1>2, <1>5, <1>6, HeldType
<1> QED
    BY <1>1, <1>2, <1>3, <1>5, <1>6, <1>7, PushTakes

LEMMA MouseX10Takes ==
    ASSUME NEW p, ParserInv(p), p.state = "MouseX10", NEW byte \in Bytes
    PROVE  Takes(p, MouseX10(p, byte), byte)
<1>1. CASE p.left > 1
    BY <1>1, CountedTakes DEF MouseX10
<1>2. CASE ~(p.left > 1)
    BY <1>2, KindsType, EmitWithTakes DEF MouseX10, Keys
<1> QED
    BY <1>1, <1>2

LEMMA SgrMouseTakes ==
    ASSUME NEW p, ParserInv(p), p.state = "SgrMouse", NEW byte \in Bytes
    PROVE  Takes(p, SgrMouse(p, byte), byte)
<1>1. CASE byte \in ParamBytes
    <2> DEFINE q == Push(p, byte)
    <2>1. SgrMouse(p, byte) = q
        <3>1. byte \notin {"M", "m"}
            BY <1>1, Zenon DEF ParamBytes, Digits
        <3> QED
            BY <1>1, <3>1, Zenon DEF SgrMouse, ParamBytes
    <2>2. Held(p) = p.buf /\ p \in ParserType /\ p.left = 0
        BY HeldType, LeftOf
    <2>3. /\ q \in ParserType /\ q.state = "SgrMouse" /\ q.left = 0
          /\ q.out = p.out /\ q.buf = Append(p.buf, byte)
        BY <2>2, PushedFields, ZenonT(60) DEF ParserStates
    <2> HIDE DEF q
    <2>4. ParserInv(q)
        <3>1. ~(q.left > 0)
            BY <2>3
        <3> QED
            BY <2>3, <3>1 DEF ParserInv
    <2>5. Held(q) = Append(Held(p), byte)
        BY <2>2, <2>3, <2>4, HeldType
    <2> QED
        BY <2>1, <2>3, <2>4, <2>5, PushTakes
<1>2. CASE byte \notin ParamBytes
    <2>1. \E kind \in KindType : SgrMouse(p, byte) = EmitWith(p, byte, kind)
        <3>1. Kind("Mouse") \in KindType /\ Unknown \in KindType
            BY KindsType DEF Keys
        <3> QED
            BY <1>2, <3>1, Zenon DEF SgrMouse, ParamBytes
    <2> QED
        BY <2>1, EmitWithTakes
<1> QED
    BY <1>1, <1>2

LEMMA InPasteTakes ==
    ASSUME NEW p, ParserInv(p), p.state = "PasteBuf", NEW byte \in Bytes
    PROVE  Takes(p, InPaste(p, byte), byte)
<1>1. /\ p \in ParserType /\ p.buf \in Seq(Bytes) /\ p.left = 0 /\ p.out \in Seq(KeyEventType)
      /\ Held(p) = PasteStart \o p.buf
    BY LeftOf DEF Held, IsInPaste, ParserType
<1>2. PasteStart \in Seq(Bytes)
    BY PasteStartType
<1>3. Append(PasteStart \o p.buf, byte) = PasteStart \o Append(p.buf, byte)
    BY <1>1, <1>2, AppendAssociates
<1>4. CASE IsSuffix(PasteEnd, Append(p.buf, byte))
    <2>1. InPaste(p, byte) = Emit(p, PasteStart \o Append(p.buf, byte), Kind("Paste"))
        BY <1>4 DEF InPaste
    <2>2. Kind("Paste") \in KindType
        BY KindsType DEF Keys
    <2>3. PasteStart \o Append(p.buf, byte) = Append(Held(p), byte)
        BY <1>1, <1>3
    <2> QED
        BY <2>1, <2>2, <2>3, EmitTakes
<1>5. CASE ~IsSuffix(PasteEnd, Append(p.buf, byte))
    <2> DEFINE q == Push(p, byte)
    <2>1. InPaste(p, byte) = q
        BY <1>5 DEF InPaste
    <2>2. /\ q \in ParserType /\ q.state = "PasteBuf" /\ q.left = 0
          /\ q.out = p.out /\ q.buf = Append(p.buf, byte)
        BY <1>1, PushedFields, ZenonT(60) DEF ParserStates
    <2> HIDE DEF q
    <2>3. ParserInv(q)
        <3>1. ~(q.left > 0)
            BY <2>2
        <3> QED
            BY <2>2, <3>1 DEF ParserInv
    <2>4. Held(q) = Append(Held(p), byte)
        BY <1>1, <1>3, <2>2 DEF Held, IsInPaste
    <2> QED
        BY <2>1, <2>2, <2>3, <2>4, PushTakes
<1> QED
    BY <1>4, <1>5

LEMMA Utf8ContTakes ==
    ASSUME NEW p, ParserInv(p), p.state = "Utf8", NEW byte \in Bytes
    PROVE  Takes(p, Utf8Cont(p, byte), byte)
<1>1. CASE byte # "cont"
    <2> DEFINE e == Emit(p, p.buf, Unknown)
    <2>1. Utf8Cont(p, byte) = Ground(e, byte)
        BY <1>1 DEF Utf8Cont
    <2>2. p.buf \in Seq(Bytes) /\ Unknown \in KindType /\ Held(p) = p.buf
        BY LeftOf, KindsType, HeldType
    <2>3. ParserInv(e) /\ e.state = "Ground" /\ Given(e) = Raws(p.out) \o p.buf
        BY <2>2, EmitGives
    <2> HIDE DEF e
    <2>4. Given(e) = Given(p)
        BY <2>2, <2>3 DEF Given
    <2>5. Takes(e, Ground(e, byte), byte)
        BY <2>3, GroundTakes
    <2> QED
        BY <2>1, <2>4, <2>5 DEF Takes
<1>2. CASE byte = "cont" /\ p.left > 1
    BY <1>2, CountedTakes DEF Utf8Cont
<1>3. CASE byte = "cont" /\ ~(p.left > 1)
    BY <1>3, KindsType, EmitWithTakes DEF Utf8Cont, Keys
<1> QED
    BY <1>1, <1>2, <1>3

\* Whatever the state, the parser takes the next byte.
LEMMA StepTakes ==
    ASSUME NEW p, ParserInv(p), NEW byte \in Bytes, Marked(Append(Held(p), byte))
    PROVE  Takes(p, Step(p, byte), byte)
<1> DEFINE q == Step(p, byte)
<1>1. p.state \in ParserStates /\ (p.state # "PasteBuf" => Held(p) = p.buf)
    BY LeftOf, HeldType DEF ParserType
<1>2. CASE p.state = "Ground"
    BY <1>2, GroundTakes DEF Step
<1>3. CASE p.state = "EscReceived"
    BY <1>3, EscReceivedTakes DEF Step
<1>4. CASE p.state = "CsiEntry"
    BY <1>4, CsiEntryTakes DEF Step
<1>5. CASE p.state = "CsiParam"
    BY <1>1, <1>5, CsiParamTakes DEF Step
<1>6. CASE p.state = "Ss3Pending"
    BY <1>6, Ss3Takes DEF Step
<1>7. CASE p.state = "MouseX10"
    BY <1>7, MouseX10Takes DEF Step
<1>8. CASE p.state = "SgrMouse"
    BY <1>8, SgrMouseTakes DEF Step
<1>9. CASE p.state = "PasteBuf"
    BY <1>9, InPasteTakes DEF Step
<1>10. CASE p.state = "Utf8"
    BY <1>10, Utf8ContTakes DEF Step
<1> QED
    BY <1>1, <1>2, <1>3, <1>4, <1>5, <1>6, <1>7, <1>8, <1>9, <1>10 DEF ParserStates

-----------------------------------------------------------------------------
(* Many bytes at a time. *)

\* q is p after data, which it gives out or holds.
TakesAll(p, q, data) == ParserInv(q) /\ Given(q) = Given(p) \o data

\* f[n] has nothing but the parser after n bytes of data.
Follows(f, p, data) ==
    /\ f[0] \subseteq {p}
    /\ \A n \in 1..Len(data) : f[n] \subseteq {Step(q, data[n]) : q \in f[n - 1]}

LEMMA FollowsTakes ==
    ASSUME NEW p, ParserInv(p), NEW data \in Seq(Bytes), Marked(Given(p) \o data),
           NEW f, Follows(f, p, data)
    PROVE  \A n \in 0..Len(data) : \A q \in f[n] : TakesAll(p, q, SubSeq(data, 1, n))
<1> DEFINE len == Len(data)
           d(n) == SubSeq(data, 1, n)
           P(n) == \A q \in f[n] : TakesAll(p, q, d(n))
           S == {n \in Nat : n <= len => P(n)}
           g == Given(p)
<1>1. len \in Nat /\ g \in Seq(Bytes)
    BY HeldType
<1>2. 0 \in S
    <2>1. d(0) = <<>> /\ g \o <<>> = g
        BY <1>1
    <2> QED
        BY <2>1 DEF Follows, TakesAll
<1>3. ASSUME NEW n \in Nat, n \in S PROVE n + 1 \in S
    <2> SUFFICES ASSUME n + 1 <= len, NEW q \in f[n + 1]
                 PROVE  TakesAll(p, q, d(n + 1))
        OBVIOUS
    <2> DEFINE m == n + 1
               byte == data[m]
               rest == SubSeq(data, m + 1, len)
    <2>1. m \in 1..len /\ m - 1 = n /\ P(n) /\ byte \in Bytes
        BY <1>1, <1>3
    <2>2. PICK r \in f[n] : q = Step(r, byte)
        BY <2>1 DEF Follows
    <2>3. /\ d(n) \in Seq(Bytes) /\ d(m) = Append(d(n), byte) /\ d(m) \in Seq(Bytes)
          /\ rest \in Seq(Bytes) /\ d(m) \o rest = data
        <3>1. n \in 0..len /\ m \in 0..len
            BY <1>1, <2>1
        <3>2. d(n) \in Seq(Bytes) /\ d(m) \in Seq(Bytes) /\ rest \in Seq(Bytes) /\ d(m) \o rest = data
            BY <3>1, SplitAt
        <3>3. d(m) = Append(d(n), byte)
            <4> DEFINE B == Bytes
            <4>1. data \in Seq(B) /\ len \in Nat
                BY <1>1
            <4> HIDE DEF B
            <4> QED
                BY <4>1, <2>1
        <3> QED
            BY <3>2, <3>3
    <2> DEFINE o == Raws(r.out)
               h == Held(r)
    <2>4. TakesAll(p, r, d(n))
        BY <2>1, <2>2
    <2>5. ParserInv(r) /\ Given(r) = g \o d(n) /\ Given(r) = o \o h
        BY <2>4 DEF TakesAll, Given
    <2>6. o \in Seq(Bytes) /\ h \in Seq(Bytes)
        BY <2>5, HeldType
    <2> HIDE DEF S, P, d, g, o, h, byte, rest, m
    <2>7. Append(h, byte) \in Seq(Bytes) /\ o \o Append(h, byte) = g \o d(m)
        <3>1. Append(o \o h, byte) = o \o Append(h, byte) /\ Append(h, byte) \in Seq(Bytes)
            BY <2>1, <2>6, AppendAssociates
        <3>2. Append(g \o d(n), byte) = g \o Append(d(n), byte)
            BY <1>1, <2>1, <2>3, AppendAssociates
        <3> QED
            BY <2>3, <2>5, <3>1, <3>2
    <2>8. (g \o d(m)) \o rest = g \o data
        BY <1>1, <2>3, BytesAssociate, ZenonT(60)
    <2>9. Marked(Append(h, byte))
        <3>1. Marked((o \o Append(h, byte)) \o rest)
            BY <2>7, <2>8 DEF g
        <3> QED
            BY <2>3, <2>6, <2>7, <3>1, MarkedPart
    <2>10. ParserInv(q) /\ Given(q) = Append(Given(r), byte)
        BY <2>1, <2>2, <2>5, <2>9, StepTakes DEF Takes, h
    <2>11. Append(Given(r), byte) = g \o d(m)
        <3>1. Append(g \o d(n), byte) = g \o Append(d(n), byte)
            BY <1>1, <2>1, <2>3, AppendAssociates
        <3> QED
            BY <2>3, <2>5, <3>1
    <2> QED
        BY <2>10, <2>11 DEF TakesAll, g, m
<1>4. Nat \subseteq S
    <2> HIDE DEF S
    <2> QED
        BY <1>2, <1>3, NatSetInduction
<1> QED
    BY <1>1, <1>4

\* The function of Feed.
FedBy(f, p, data) ==
    f = [n \in 0..Len(data) |->
            IF n = 0 THEN {p} ELSE {Step(q, data[n]) : q \in f[n - 1]}]

\* Feed's parsers have taken all the data.
LEMMA FeedTakes ==
    ASSUME NEW p, ParserInv(p), NEW data \in Seq(Bytes), Marked(Given(p) \o data),
           NEW fed \in Feed(p, data)
    PROVE  TakesAll(p, fed, data)
<1> DEFINE len == Len(data)
           V == SUBSET ParserType
           v == {p}
           G == [n \in 1..len |-> [x \in V |-> {Step(q, data[n]) : q \in x} \cap ParserType]]
           h == CHOOSE x : FedBy(x, p, data)
<1>1. len \in Nat /\ v \in V
    BY DEF ParserInv
<1>2. G \in [1..len -> [V -> V]]
    OBVIOUS
<1>3. \A n \in 1..len : \A x \in V : G[n][x] = {Step(q, data[n]) : q \in x} \cap ParserType
    OBVIOUS
<1> HIDE DEF G, V, v
<1>4. PICK f \in [0..len -> V] : Iterates(f, len, v, G)
    BY <1>1, <1>2, Iterated
<1>5. f[0] = {p} /\ \A n \in 1..len : f[n] = {Step(q, data[n]) : q \in f[n - 1]} \cap ParserType
    <2>1. f[0] = {p}
        BY <1>4 DEF Iterates, v
    <2>2. ASSUME NEW n \in 1..len
          PROVE  f[n] = {Step(q, data[n]) : q \in f[n - 1]} \cap ParserType
        <3>1. n - 1 \in 0..len
            BY <1>1
        <3>2. f[n - 1] \in V
            BY <1>4, <3>1
        <3>3. f[n] = G[n][f[n - 1]]
            BY <1>4 DEF Iterates
        <3> QED
            BY <1>3, <3>2, <3>3
    <2> QED
        BY <2>1, <2>2
<1>6. \A n \in 0..len : \A q \in f[n] : TakesAll(p, q, SubSeq(data, 1, n))
    <2>1. Follows(f, p, data)
        BY <1>5 DEF Follows
    <2> QED
        BY <2>1, FollowsTakes
<1>7. ASSUME NEW n \in 1..len, NEW q \in f[n - 1] PROVE Step(q, data[n]) \in ParserType
    <2> DEFINE k == [i \in 0..len |-> IF i = n THEN {Step(q, data[n])}
                                      ELSE IF i < n THEN f[i] ELSE {}]
    <2>1. /\ n \in 0..len /\ k[n] = {Step(q, data[n])}
          /\ \A i \in 0..len : (i < n => k[i] = f[i]) /\ (i > n => k[i] = {})
        BY <1>1
    <2> HIDE DEF k
    <2>2. Follows(k, p, data)
        <3>1. k[0] \subseteq {p}
            BY <1>1, <1>5, <2>1
        <3>2. ASSUME NEW i \in 1..len
              PROVE  k[i] \subseteq {Step(r, data[i]) : r \in k[i - 1]}
            <4>1. i - 1 \in 0..len /\ i \in 0..len
                BY <1>1
            <4>2. CASE i < n
                <5>1. k[i] = f[i] /\ k[i - 1] = f[i - 1]
                    BY <1>1, <2>1, <4>1, <4>2
                <5> QED
                    BY <1>5, <5>1
            <4>3. CASE i = n
                <5>1. k[i - 1] = f[n - 1]
                    BY <1>1, <2>1, <4>1, <4>3
                <5> QED
                    BY <2>1, <4>3, <5>1
            <4>4. CASE i > n
                BY <2>1, <4>1, <4>4
            <4> QED
                BY <1>1, <4>2, <4>3, <4>4
        <3> QED
            BY <3>1, <3>2 DEF Follows
    <2>3. TakesAll(p, Step(q, data[n]), SubSeq(data, 1, n))
        BY <2>1, <2>2, FollowsTakes
    <2> QED
        BY <2>3 DEF TakesAll, ParserInv
<1>8. FedBy(f, p, data)
    <2>1. f = [n \in 0..len |-> f[n]]
        BY <1>4
    <2>2. ASSUME NEW n \in 0..len
          PROVE  f[n] = IF n = 0 THEN {p} ELSE {Step(q, data[n]) : q \in f[n - 1]}
        <3>1. CASE n = 0
            BY <1>5, <3>1
        <3>2. CASE n # 0
            <4>1. n \in 1..len
                BY <1>1, <3>2
            <4>2. {Step(q, data[n]) : q \in f[n - 1]} \subseteq ParserType
                BY <1>7, <4>1
            <4> QED
                BY <1>5, <3>2, <4>1, <4>2
        <3> QED
            BY <3>1, <3>2
    <2> QED
        BY <2>1, <2>2 DEF FedBy
<1>9. FedBy(h, p, data)
    BY <1>8
<1>10. Feed(p, data) = h[len]
    BY DEF Feed, FedBy
<1> HIDE DEF h
<1>11. Follows(h, p, data)
    <2>1. \A n \in 0..len : h[n] = IF n = 0 THEN {p} ELSE {Step(q, data[n]) : q \in h[n - 1]}
        BY <1>9 DEF FedBy
    <2>2. 0 \in 0..len /\ \A n \in 1..len : n \in 0..len /\ n # 0
        BY <1>1
    <2> QED
        BY <2>1, <2>2 DEF Follows
<1>12. TakesAll(p, fed, SubSeq(data, 1, len))
    <2>1. len \in 0..len
        BY <1>1
    <2> QED
        BY <1>10, <1>11, <2>1, FollowsTakes
<1>13. SubSeq(data, 1, len) = data
    OBVIOUS
<1> QED
    BY <1>12, <1>13

-----------------------------------------------------------------------------
(* The reader. *)

LEMMA UnitsHaveRaws == HasRaws(Units)
BY ReaderAssumption DEF HasRaws

\* Units typed one after the other make sequences that are as well formed.
LEMMA WellFormedConcat ==
    ASSUME NEW a \in Seq(Bytes), NEW b \in Seq(Bytes), WellFormed(a), WellFormed(b)
    PROVE  WellFormed(a \o b)
<1> DEFINE B == Bytes
           W == a \o b
           k == Len(a)
           n == Len(b)
<1>1. a \in Seq(B) /\ b \in Seq(B) /\ k \in Nat /\ n \in Nat
    OBVIOUS
<1> HIDE DEF B
<1>2. /\ Len(W) = k + n
      /\ \A i \in 1..(k + n) : W[i] = IF i <= k THEN a[i] ELSE b[i - k]
    BY <1>1, ConcatProperties
<1> HIDE DEF W, k, n
<1> SUFFICES ASSUME NEW i \in 1..(k + n), W[i] = "200"
             PROVE  /\ i > 1 /\ W[i - 1] \notin Digits
                    /\ W[i - 1] = "[" => (i < k + n /\ W[i + 1] = "~")
    BY <1>2 DEF WellFormed, W
<1>3. CASE i <= k
    <2>1. i \in 1..k /\ a[i] = "200"
        BY <1>1, <1>2, <1>3
    <2>2. /\ i > 1 /\ a[i - 1] \notin Digits
          /\ a[i - 1] = "[" => (i < k /\ a[i + 1] = "~")
        BY <2>1 DEF WellFormed, k
    <2>3. W[i - 1] = a[i - 1] /\ (i < k => W[i + 1] = a[i + 1] /\ i < k + n)
        BY <1>1, <1>2, <2>1, <2>2
    <2> QED
        BY <2>2, <2>3
<1>4. CASE ~(i <= k)
    <2> DEFINE j == i - k
    <2>1. j \in 1..n /\ b[j] = "200"
        BY <1>1, <1>2, <1>4
    <2>2. /\ j > 1 /\ b[j - 1] \notin Digits
          /\ b[j - 1] = "[" => (j < n /\ b[j + 1] = "~")
        BY <2>1 DEF WellFormed, n
    <2>3. /\ i > 1 /\ W[i - 1] = b[j - 1]
          /\ j < n => (W[i + 1] = b[j + 1] /\ i < k + n)
        <3>1. i > 1 /\ i - 1 \in 1..(k + n) /\ ~(i - 1 <= k) /\ (i - 1) - k = j - 1
            BY <1>1, <1>4, <2>1, <2>2
        <3>2. j < n => i + 1 \in 1..(k + n) /\ ~(i + 1 <= k) /\ (i + 1) - k = j + 1 /\ i < k + n
            BY <1>1, <1>4, <2>1
        <3> QED
            BY <1>2, <3>1, <3>2
    <2> QED
        BY <2>2, <2>3
<1> QED
    BY <1>3, <1>4

LEMMA WellFormedMarked ==
    ASSUME NEW W \in Seq(Bytes), WellFormed(W)
    PROVE  Marked(W)
<1>1. Len(W) \in Nat
    OBVIOUS
<1> SUFFICES ASSUME NEW i \in 2..Len(W), W[i] = "200"
             PROVE  /\ W[i - 1] \notin Digits
                    /\ W[i - 1] = "[" => (i < Len(W) => W[i + 1] = "~")
    BY DEF Marked
<1>2. i \in 1..Len(W)
    BY <1>1
<1> QED
    BY <1>2 DEF WellFormed

\* Flushing gives out what the parser holds, and drops nothing.
LEMMA FlushTakes ==
    ASSUME NEW p, ParserInv(p)
    PROVE  ParserInv(Flush(p)) /\ Given(Flush(p)) = Given(p)
<1>1. CASE p.state = "EscReceived"
    <2>1. Flush(p) = Emit(p, <<"esc">>, Kind("Escape"))
        BY <1>1 DEF Flush
    <2>2. p.buf = <<"esc">> /\ <<"esc">> \in Seq(Bytes) /\ Kind("Escape") \in KindType
        BY <1>1, LeftOf, KindsType DEF ParserInv, Keys
    <2>3. Held(p) = <<"esc">>
        BY <1>1, <2>2, HeldType
    <2> QED
        BY <2>1, <2>2, <2>3, EmitGives, ZenonT(60) DEF Given
<1>2. CASE p.state \in {"Ground", "PasteBuf"}
    BY <1>2 DEF Flush
<1>3. CASE p.state \notin {"EscReceived", "Ground", "PasteBuf"}
    <2>1. Flush(p) = Emit(p, p.buf, Unknown)
        BY <1>3 DEF Flush
    <2>2. p.buf \in Seq(Bytes) /\ Unknown \in KindType /\ Held(p) = p.buf
        BY <1>3, LeftOf, KindsType, HeldType
    <2> QED
        BY <2>1, <2>2, EmitGives, ZenonT(60) DEF Given
<1> QED
    BY <1>1, <1>2, <1>3

LEMMA DrainedFields ==
    ASSUME NEW p, ParserInv(p)
    PROVE  /\ ParserInv(Drained(p)) /\ Drained(p).out = <<>>
           /\ Drained(p).state = p.state /\ Held(Drained(p)) = Held(p)
<1> DEFINE q == Drained(p)
<1>1. p \in ParserType
    BY DEF ParserInv
<1>2. /\ q \in ParserType /\ q.out = <<>> /\ q.state = p.state
      /\ q.left = p.left /\ q.buf = p.buf
    <2>1. <<>> \in Seq(KeyEventType)
        OBVIOUS
    <2> QED
        BY <1>1, <2>1 DEF Drained, ParserType
<1> HIDE DEF q
<1>3. ParserInv(q)
    BY <1>2 DEF ParserInv
<1>4. Held(q) = Held(p)
    BY <1>2 DEF Held, IsInPaste
<1> QED
    BY <1>2, <1>3, <1>4 DEF q

\* What the reader has got out of the parser.
Got == delivered \o pending

ReaderType ==
    /\ line \in Seq(Bytes) /\ tty \in Seq(Bytes)
    /\ delivered \in Seq(KeyEventType) /\ pending \in Seq(KeyEventType)
    /\ entered \in Seq(Units)
    /\ torn \in BOOLEAN

ReadingMatches ==
    /\ reading \in Points
    /\ (reading = "paste") => IsInPaste(parser)
    /\ (reading = "esc") => HasPending(parser)

BytesMatch == ((Raws(Got) \o Held(parser)) \o tty) \o line = Raws(entered)

ReaderInv ==
    /\ ReaderType
    /\ ParserInv(parser) /\ parser.out = <<>>
    /\ ReadingMatches
    /\ BytesMatch
    /\ WellFormed(Raws(entered))

LEMMA ReaderFacts ==
    ASSUME ReaderInv
    PROVE  /\ line \in Seq(Bytes) /\ tty \in Seq(Bytes) /\ Held(parser) \in Seq(Bytes)
           /\ Got \in Seq(KeyEventType) /\ Raws(Got) \in Seq(Bytes)
           /\ Raws(entered) \in Seq(Bytes)
           /\ Given(parser) = Held(parser)
<1>1. Got \in Seq(KeyEventType)
    BY DEF ReaderInv, ReaderType, Got
<1>2. Raws(Got) \in Seq(Bytes) /\ Raws(entered) \in Seq(Bytes)
    BY <1>1, EventsHaveRaws, UnitsHaveRaws, RawsType DEF ReaderInv, ReaderType
<1>3. Held(parser) \in Seq(Bytes)
    BY HeldType DEF ReaderInv
<1>4. Given(parser) = Held(parser)
    <2>1. Given(parser) = <<>> \o Held(parser)
        BY RawsEmpty DEF ReaderInv, Given
    <2> QED
        BY <1>3, <2>1
<1> QED
    BY <1>1, <1>2, <1>3, <1>4 DEF ReaderInv, ReaderType

LEMMA ReaderStarts == ReaderInit => ReaderInv
<1> SUFFICES ASSUME ReaderInit PROVE ReaderInv
    OBVIOUS
<1> USE DEF ReaderInit
<1>1. ReaderType
    <2>1. <<>> \in Seq(Bytes) /\ <<>> \in Seq(KeyEventType) /\ <<>> \in Seq(Units)
        OBVIOUS
    <2>2. line = <<>> /\ tty = <<>> /\ delivered = <<>> /\ pending = <<>> /\ entered = <<>>
        OBVIOUS
    <2>3. torn \in BOOLEAN
        OBVIOUS
    <2> QED
        BY <2>1, <2>2, <2>3, Zenon DEF ReaderType
<1>2. ParserInv(parser) /\ parser.out = <<>>
    <2>1. parser = [state |-> "Ground", left |-> 0, buf |-> <<>>, out |-> <<>>]
        BY DEF NewParser
    <2>2. 0 \in 0..3 /\ ~(0 > 0) /\ <<>> \in Seq(Bytes) /\ <<>> \in Seq(KeyEventType)
        OBVIOUS
    <2>3. parser \in ParserType
        BY <2>1, <2>2 DEF ParserType, ParserStates
    <2> QED
        BY <2>1, <2>2, <2>3 DEF ParserInv
<1>3. ReadingMatches
    BY DEF ReadingMatches, Points
<1>4. BytesMatch
    <2>1. Got = <<>> /\ Held(parser) = <<>>
        BY DEF Got, Held, IsInPaste, NewParser
    <2>2. <<>> \o <<>> = <<>>
        OBVIOUS
    <2> QED
        BY <2>1, <2>2, RawsEmpty DEF BytesMatch
<1>5. WellFormed(Raws(entered))
    BY RawsEmpty DEF WellFormed
<1> QED
    BY <1>1, <1>2, <1>3, <1>4, <1>5 DEF ReaderInv

LEMMA TypeUnitKeeps ==
    ASSUME ReaderInv, NEW unit \in Units, TypeUnit(unit)
    PROVE  ReaderInv'
<1>1. /\ line = <<>> /\ line' = unit.raw /\ entered' = Append(entered, unit)
      /\ UNCHANGED <<tty, parser, pending, reading, delivered, torn>>
    BY DEF TypeUnit
<1>2. unit.raw \in Seq(Bytes) /\ WellFormed(unit.raw)
    BY ReaderAssumption
<1>3. ReaderType'
    BY <1>1, <1>2 DEF ReaderInv, ReaderType
<1>4. Raws(entered') = Raws(entered) \o unit.raw
    BY <1>1, UnitsHaveRaws, RawsAppend DEF ReaderInv, ReaderType
<1> DEFINE R == (Raws(Got) \o Held(parser)) \o tty
<1>5. R \in Seq(Bytes) /\ R = Raws(entered)
    <2>1. R \in Seq(Bytes)
        BY ReaderFacts
    <2>2. R \o <<>> = Raws(entered)
        BY <1>1 DEF ReaderInv, BytesMatch
    <2> QED
        BY <2>1, <2>2
<1>6. BytesMatch'
    <2>1. Got' = Got
        BY <1>1 DEF Got
    <2> QED
        BY <1>1, <1>4, <1>5, <2>1 DEF BytesMatch
<1>7. WellFormed(Raws(entered'))
    BY <1>2, <1>4, ReaderFacts, WellFormedConcat DEF ReaderInv
<1> QED
    BY <1>1, <1>3, <1>6, <1>7 DEF ReaderInv, ReadingMatches

LEMMA ArriveKeeps ==
    ASSUME ReaderInv, Arrive
    PROVE  ReaderInv'
<1>1. PICK n \in 1..Len(line) :
          /\ tty' = tty \o SubSeq(line, 1, n)
          /\ line' = SubSeq(line, n + 1, Len(line))
    BY DEF Arrive
<1>2. UNCHANGED <<parser, pending, reading, delivered, entered, torn>>
    BY DEF Arrive
<1> DEFINE a == SubSeq(line, 1, n)
           b == SubSeq(line, n + 1, Len(line))
           R == Raws(Got) \o Held(parser)
<1>3. a \in Seq(Bytes) /\ b \in Seq(Bytes) /\ a \o b = line
    <2>1. line \in Seq(Bytes) /\ n \in 0..Len(line)
        BY ReaderFacts
    <2> QED
        BY <2>1, SplitAt
<1>4. R \in Seq(Bytes) /\ tty \in Seq(Bytes) /\ (R \o tty) \o line = Raws(entered)
    BY ReaderFacts DEF ReaderInv, BytesMatch
<1>5. tty' = tty \o a /\ line' = b
    BY <1>1
<1> HIDE DEF a, b, R
<1>6. ReaderType'
    BY <1>2, <1>3, <1>4, <1>5 DEF ReaderInv, ReaderType
<1>7. R \o tty \in Seq(Bytes) /\ tty \o a \in Seq(Bytes)
    BY <1>3, <1>4
<1>8. (R \o (tty \o a)) \o b = (R \o tty) \o line
    <2>1. R \o (tty \o a) = (R \o tty) \o a
        BY <1>3, <1>4, BytesAssociate
    <2>2. ((R \o tty) \o a) \o b = (R \o tty) \o (a \o b)
        BY <1>3, <1>7, BytesAssociate, ZenonT(60)
    <2> QED
        BY <1>3, <2>1, <2>2
<1>9. BytesMatch'
    <2>1. Got' = Got
        BY <1>2 DEF Got
    <2> QED
        BY <1>2, <1>4, <1>5, <1>8, <2>1 DEF BytesMatch, R
<1> QED
    BY <1>2, <1>6, <1>9 DEF ReaderInv, ReadingMatches

\* read() returns the first of the events and keeps the rest.
LEMMA ReturnKeeps ==
    ASSUME NEW batch \in Seq(KeyEventType), delivered \in Seq(KeyEventType), Return(batch)
    PROVE  /\ Got' = delivered \o batch /\ reading' = "called"
           /\ delivered' \in Seq(KeyEventType) /\ pending' \in Seq(KeyEventType)
<1> DEFINE E == KeyEventType
           d == delivered
<1>1. batch \in Seq(E) /\ d \in Seq(E)
    OBVIOUS
<1> HIDE DEF E
<1>2. CASE batch = <<>>
    <2>1. delivered' = d /\ pending' = <<>> /\ reading' = "called"
        BY <1>2 DEF Return
    <2>2. <<>> \in Seq(E) /\ d \o <<>> = d
        BY <1>1
    <2> QED
        BY <1>1, <1>2, <2>1, <2>2 DEF Got, E
<1>3. CASE batch # <<>>
    <2> DEFINE x == Head(batch)
               t == Tail(batch)
    <2>1. delivered' = Append(d, x) /\ pending' = t /\ reading' = "called"
        BY <1>3 DEF Return
    <2>2. x \in E /\ t \in Seq(E) /\ Len(batch) \in Nat /\ Len(batch) >= 1
          /\ Len(t) = Len(batch) - 1 /\ x = batch[1]
          /\ \A i \in 1..(Len(batch) - 1) : t[i] = batch[i + 1]
        BY <1>1, <1>3
    <2> HIDE DEF x, t, d
    <2>3. Append(d, x) \in Seq(E) /\ Len(Append(d, x)) = Len(d) + 1 /\ Len(d) \in Nat
          /\ \A i \in 1..Len(d) : Append(d, x)[i] = d[i]
        BY <1>1, <2>2
    <2>4. Append(d, x)[Len(d) + 1] = x
        BY <1>1, <2>2
    <2> DEFINE a == Append(d, x)
               n == Len(d)
               m == Len(batch)
    <2> HIDE DEF a
    <2>5. a \in Seq(E) /\ Len(a) = n + 1 /\ n \in Nat /\ a[n + 1] = x
          /\ \A i \in 1..n : a[i] = d[i]
        BY <2>3, <2>4 DEF a
    <2> HIDE DEF n, m
    <2>6. /\ m \in Nat /\ m >= 1 /\ Len(t) = m - 1 /\ x = batch[1]
          /\ \A i \in 1..(m - 1) : t[i] = batch[i + 1]
        BY <2>2 DEF m
    <2>7. a \o t \in Seq(E) /\ Len(a \o t) = n + m
        <3>1. a \o t \in Seq(E) /\ Len(a \o t) = Len(a) + Len(t)
            BY <2>2, <2>5, ConcatProperties
        <3> QED
            BY <2>5, <2>6, <3>1
    <2>8. d \o batch \in Seq(E) /\ Len(d \o batch) = n + m
        BY <1>1, ConcatProperties DEF n, m
    <2>9. ASSUME NEW i \in 1..(n + m) PROVE (a \o t)[i] = (d \o batch)[i]
        <3>1. (a \o t)[i] = IF i <= n + 1 THEN a[i] ELSE t[i - (n + 1)]
            <4>1. i \in 1..(Len(a) + Len(t))
                BY <2>5, <2>6
            <4>2. (a \o t)[i] = IF i <= Len(a) THEN a[i] ELSE t[i - Len(a)]
                BY <2>2, <2>5, <4>1, ConcatProperties
            <4> QED
                BY <2>5, <4>2
        <3>2. (d \o batch)[i] = IF i <= n THEN d[i] ELSE batch[i - n]
            BY <1>1, ConcatProperties DEF n, m
        <3>3. CASE i <= n
            <4>1. i \in 1..n /\ i <= n + 1
                BY <2>5, <3>3
            <4> QED
                BY <2>5, <3>1, <3>2, <3>3, <4>1
        <3>4. CASE i = n + 1
            <4>1. i <= n + 1 /\ ~(i <= n) /\ i - n = 1
                BY <2>5, <3>4
            <4> QED
                BY <2>5, <2>6, <3>1, <3>2, <3>4, <4>1
        <3>5. CASE i > n + 1
            <4>1. /\ ~(i <= n + 1) /\ ~(i <= n)
                  /\ i - (n + 1) \in 1..(m - 1) /\ (i - (n + 1)) + 1 = i - n
                BY <2>5, <2>6, <3>5, SMTT(60)
            <4> QED
                BY <2>6, <3>1, <3>2, <4>1
        <3>6. i <= n \/ i = n + 1 \/ i > n + 1
            BY <2>5, <2>6
        <3> QED
            BY <3>3, <3>4, <3>5, <3>6
    <2>10. a \o t = d \o batch
        BY <2>5, <2>6, <2>7, <2>8, <2>9, SeqEqual
    <2> QED
        BY <2>1, <2>2, <2>3, <2>10 DEF Got, E, a, d
<1> QED
    BY <1>2, <1>3

\* A chunk of what has arrived is fed to the parser.
LEMMA ChunkTaken ==
    ASSUME ReaderInv, NEW fed \in Feed(parser, SubSeq(tty, 1, Chunk))
    PROVE  LET c == SubSeq(tty, 1, Chunk)
               t == SubSeq(tty, Chunk + 1, Len(tty))
           IN  /\ c \in Seq(Bytes) /\ t \in Seq(Bytes) /\ c \o t = tty
               /\ ParserInv(fed) /\ fed.out \in Seq(KeyEventType)
               /\ Given(fed) = Held(parser) \o c
<1> DEFINE c == SubSeq(tty, 1, Chunk)
           t == SubSeq(tty, Chunk + 1, Len(tty))
           R == Raws(Got)
           H == Held(parser)
<1>1. /\ R \in Seq(Bytes) /\ H \in Seq(Bytes) /\ tty \in Seq(Bytes) /\ line \in Seq(Bytes)
    BY ReaderFacts
<1>2. /\ Given(parser) = H
      /\ ((R \o H) \o tty) \o line = Raws(entered) /\ Raws(entered) \in Seq(Bytes)
    BY ReaderFacts DEF ReaderInv, BytesMatch
<1>3. c \in Seq(Bytes) /\ t \in Seq(Bytes) /\ c \o t = tty
    <2>1. Chunk \in 0..Len(tty)
        <3>1. Len(tty) \in Nat /\ BufSize \in Nat
            BY <1>1, ReaderAssumption
        <3> QED
            BY <3>1 DEF Chunk
    <2> QED
        BY <1>1, <2>1, SplitAt
<1>4. fed \in Feed(parser, c)
    OBVIOUS
<1> HIDE DEF c, t, R, H
<1>5. R \o H \in Seq(Bytes) /\ t \o line \in Seq(Bytes) /\ (R \o H) \o c \in Seq(Bytes)
    BY <1>1, <1>3
<1>6. ((R \o H) \o tty) \o line = (R \o (H \o c)) \o (t \o line)
    <2>1. (R \o H) \o (c \o t) = ((R \o H) \o c) \o t
        BY <1>3, <1>5, BytesAssociate, ZenonT(60)
    <2>2. (((R \o H) \o c) \o t) \o line = ((R \o H) \o c) \o (t \o line)
        <3>1. (R \o H) \o c \in Seq(Bytes) /\ t \in Seq(Bytes) /\ line \in Seq(Bytes)
            BY <1>1, <1>3, <1>5
        <3> QED
            BY <3>1, BytesAssociate
    <2>3. (R \o H) \o c = R \o (H \o c)
        <3>1. R \in Seq(Bytes) /\ H \in Seq(Bytes) /\ c \in Seq(Bytes)
            BY <1>1, <1>3
        <3> QED
            BY <3>1, BytesAssociate
    <2> QED
        BY <1>3, <2>1, <2>2, <2>3
<1>7. Marked(H \o c)
    <2>1. H \o c \in Seq(Bytes)
        BY <1>1, <1>3
    <2>2. Marked(Raws(entered))
        BY <1>2, WellFormedMarked DEF ReaderInv
    <2>3. Marked((R \o (H \o c)) \o (t \o line))
        BY <1>2, <1>6, <2>2
    <2> QED
        BY <1>1, <1>5, <2>1, <2>3, MarkedPart
<1>8. TakesAll(parser, fed, c)
    <2>1. Marked(Given(parser) \o c)
        BY <1>2, <1>7
    <2> QED
        BY <1>3, <1>4, <2>1, FeedTakes DEF ReaderInv
<1>9. ParserInv(fed) /\ Given(fed) = H \o c
    BY <1>2, <1>8 DEF TakesAll
<1>10. fed.out \in Seq(KeyEventType)
    BY <1>9 DEF ParserInv, ParserType
<1> QED
    BY <1>3, <1>9, <1>10 DEF c, t, H

\* The rest of the state once a chunk of what has arrived is read.
LEMMA FedKeeps ==
    ASSUME ReaderInv, NEW fed \in Feed(parser, SubSeq(tty, 1, Chunk)), ReadAndFeed(fed),
           delivered' \in Seq(KeyEventType), pending' \in Seq(KeyEventType),
           Got' = Got \o fed.out, ReadingMatches'
    PROVE  ReaderInv'
<1> DEFINE c == SubSeq(tty, 1, Chunk)
           t == SubSeq(tty, Chunk + 1, Len(tty))
           R == Raws(Got)
           H == Held(parser)
           o == Raws(fed.out)
           h == Held(fed)
<1>1. /\ R \in Seq(Bytes) /\ H \in Seq(Bytes) /\ line \in Seq(Bytes)
      /\ Got \in Seq(KeyEventType)
      /\ ((R \o H) \o tty) \o line = Raws(entered)
    BY ReaderFacts DEF ReaderInv, BytesMatch
<1>2. /\ c \in Seq(Bytes) /\ t \in Seq(Bytes) /\ c \o t = tty
      /\ ParserInv(fed) /\ fed.out \in Seq(KeyEventType)
      /\ Given(fed) = H \o c
    BY ChunkTaken
<1>3. tty' = t /\ parser' = Drained(fed) /\ UNCHANGED <<line, entered, torn>>
    BY DEF ReadAndFeed
<1>4. o \in Seq(Bytes) /\ h \in Seq(Bytes) /\ o \o h = H \o c
    BY <1>2, HeldType DEF Given
<1>5. Raws(Got \o fed.out) = R \o o
    BY <1>1, <1>2, EventsHaveRaws, RawsConcat
<1>6. ParserInv(parser') /\ parser'.out = <<>> /\ Held(parser') = h
    BY <1>2, <1>3, DrainedFields
<1> HIDE DEF c, t, R, H, o, h
<1>7. (R \o H) \o tty = ((R \o o) \o h) \o t
    <2>1. R \o H \in Seq(Bytes)
        BY <1>1
    <2>2. (R \o H) \o (c \o t) = ((R \o H) \o c) \o t
        BY <1>2, <2>1, BytesAssociate
    <2>3. (R \o H) \o c = R \o (H \o c)
        BY <1>1, <1>2, BytesAssociate
    <2>4. (R \o o) \o h = R \o (o \o h)
        BY <1>1, <1>4, BytesAssociate
    <2> QED
        BY <1>2, <1>4, <2>2, <2>3, <2>4
<1>8. BytesMatch'
    <2>1. (((R \o o) \o h) \o t) \o line = Raws(entered)
        BY <1>1, <1>7
    <2>2. Raws(Got') = R \o o
        BY <1>5
    <2> QED
        BY <1>3, <1>6, <2>1, <2>2 DEF BytesMatch
<1>9. ReaderType'
    BY <1>1, <1>2, <1>3 DEF ReaderInv, ReaderType
<1> QED
    BY <1>3, <1>6, <1>8, <1>9 DEF ReaderInv

\* Whatever comes behind pending comes behind what has been got.
PendingThen(out) ==
    LET batch == pending \o out
    IN  /\ pending \in Seq(KeyEventType) /\ delivered \in Seq(KeyEventType)
        /\ batch \in Seq(KeyEventType)
        /\ delivered \o batch = Got \o out

LEMMA PendingBehind ==
    ASSUME ReaderInv, NEW out \in Seq(KeyEventType)
    PROVE  PendingThen(out)
<1> DEFINE E == KeyEventType
<1>1. pending \in Seq(E) /\ delivered \in Seq(E) /\ out \in Seq(E)
    BY DEF ReaderInv, ReaderType
<1> HIDE DEF E
<1>2. /\ pending \o out \in Seq(E)
      /\ delivered \o (pending \o out) = (delivered \o pending) \o out
    BY <1>1, ConcatAssociative, SMTT(60)
<1> QED
    BY <1>1, <1>2 DEF Got, E, PendingThen

\* Lines 100 to 113, whichever way they take.
LEMMA GoesOnKeeps ==
    ASSUME ReaderInv, NEW fed \in Feed(parser, SubSeq(tty, 1, Chunk)), ReadAndFeed(fed),
           fed.out \in Seq(KeyEventType), GoOn(fed)
    PROVE  ReaderInv'
<1> DEFINE batch == pending \o fed.out
<1>1. /\ pending \in Seq(KeyEventType) /\ delivered \in Seq(KeyEventType)
      /\ batch \in Seq(KeyEventType)
      /\ delivered \o batch = Got \o fed.out
    BY PendingBehind DEF PendingThen
<1>2. parser' = Drained(fed) /\ parser'.state = fed.state
    BY DEF ReadAndFeed, Drained
<1> HIDE DEF batch
<1>3. CASE IsInPaste(fed)
    <2>1. reading' = "paste" /\ pending' = batch /\ delivered' = delivered
        <3>1. ~HasPending(fed)
            BY <1>3 DEF HasPending, IsInPaste
        <3> QED
            BY <1>3, <3>1 DEF GoOn, batch
    <2>2. ReadingMatches'
        BY <1>2, <1>3, <2>1 DEF ReadingMatches, Points, IsInPaste
    <2>3. Got' = Got \o fed.out
        BY <1>1, <2>1 DEF Got
    <2> QED
        BY <1>1, <2>1, <2>2, <2>3, FedKeeps
<1>4. CASE HasPending(fed)
    <2>1. ~IsInPaste(fed)
        BY <1>4 DEF HasPending, IsInPaste
    <2>2. reading' = "esc" /\ pending' = batch /\ delivered' = delivered
        BY <1>4, <2>1 DEF GoOn, batch
    <2>3. ReadingMatches'
        BY <1>2, <1>4, <2>2 DEF ReadingMatches, Points, HasPending
    <2>4. Got' = Got \o fed.out
        BY <1>1, <2>2 DEF Got
    <2> QED
        BY <1>1, <2>2, <2>3, <2>4, FedKeeps
<1>5. CASE ~IsInPaste(fed) /\ ~HasPending(fed)
    <2>1. Return(batch)
        BY <1>5 DEF GoOn, batch
    <2>2. /\ Got' = delivered \o batch /\ reading' = "called"
          /\ delivered' \in Seq(KeyEventType) /\ pending' \in Seq(KeyEventType)
        BY <1>1, <2>1, ReturnKeeps
    <2>3. ReadingMatches'
        BY <2>2 DEF ReadingMatches, Points
    <2> QED
        BY <1>1, <2>2, <2>3, FedKeeps
<1> QED
    BY <1>3, <1>4, <1>5

LEMMA UnchangedKeeps == ReaderInv /\ UNCHANGED readerVars => ReaderInv'
BY DEF readerVars, ReaderInv, ReaderType, ReadingMatches, BytesMatch, Got

LEMMA ReturnPendingKeeps ==
    ASSUME ReaderInv, ReturnPending
    PROVE  ReaderInv'
<1>1. Return(pending) /\ UNCHANGED <<line, tty, parser, entered, torn>>
    BY DEF ReturnPending
<1>2. /\ Got' = Got /\ reading' = "called"
      /\ delivered' \in Seq(KeyEventType) /\ pending' \in Seq(KeyEventType)
    BY <1>1, ReturnKeeps DEF ReaderInv, ReaderType, Got
<1>3. ReaderType' /\ BytesMatch'
    BY <1>1, <1>2 DEF ReaderInv, ReaderType, BytesMatch
<1>4. ReadingMatches'
    BY <1>2 DEF ReadingMatches, Points
<1> QED
    BY <1>1, <1>3, <1>4 DEF ReaderInv

LEMMA ReadRestKeeps ==
    ASSUME ReaderInv, NEW fed \in Feed(parser, SubSeq(tty, 1, Chunk)), ReadRest(fed)
    PROVE  ReaderInv'
<1> DEFINE batch == pending \o fed.out
<1>1. fed.out \in Seq(KeyEventType)
    BY ChunkTaken
<1>2. ReadAndFeed(fed) /\ Return(batch)
    BY DEF ReadRest
<1>3. PendingThen(fed.out)
    BY <1>1, PendingBehind
<1>4. /\ Got' = Got \o fed.out /\ reading' = "called"
      /\ delivered' \in Seq(KeyEventType) /\ pending' \in Seq(KeyEventType)
    BY <1>2, <1>3, ReturnKeeps DEF PendingThen
<1>5. ReadingMatches'
    BY <1>4 DEF ReadingMatches, Points
<1> QED
    BY <1>2, <1>4, <1>5, FedKeeps

\* What the parser holds when a timeout strikes leaves as an event.
LEMMA FlushKeeps ==
    ASSUME ReaderInv, FlushAndReturn
    PROVE  ReaderInv'
<1> DEFINE f == Flush(parser)
           batch == pending \o f.out
           R == Raws(Got)
           o == Raws(f.out)
           h == Held(f)
<1>1. ParserInv(f) /\ Given(f) = Given(parser)
    BY FlushTakes DEF ReaderInv
<1>2. f.out \in Seq(KeyEventType) /\ o \in Seq(Bytes) /\ h \in Seq(Bytes)
    BY <1>1, HeldType DEF ParserInv, ParserType
<1>3. /\ parser' = Drained(f) /\ Return(batch) /\ UNCHANGED <<line, tty, entered>>
      /\ torn' \in BOOLEAN
    <2>1. torn' = (torn \/ (line # <<>> /\ line # Last(entered).raw))
        BY DEF FlushAndReturn
    <2>2. torn' \in BOOLEAN
        BY <2>1, Zenon DEF ReaderInv, ReaderType
    <2> QED
        BY <2>2 DEF FlushAndReturn
<1>4. PendingThen(f.out)
    BY <1>2, PendingBehind
<1>5. /\ Got' = Got \o f.out /\ reading' = "called"
      /\ delivered' \in Seq(KeyEventType) /\ pending' \in Seq(KeyEventType)
    BY <1>3, <1>4, ReturnKeeps DEF PendingThen
<1>6. ParserInv(parser') /\ parser'.out = <<>> /\ Held(parser') = h
    BY <1>1, <1>3, DrainedFields
<1>7. /\ R \in Seq(Bytes) /\ Got \in Seq(KeyEventType)
      /\ o \o h = Held(parser)
    BY <1>1, ReaderFacts DEF Given
<1>8. R \in Seq(Bytes) /\ o \in Seq(Bytes) /\ h \in Seq(Bytes)
    BY <1>2, <1>7
<1>9. BytesMatch'
    <2>1. Raws(Got') = R \o o
        BY <1>2, <1>5, <1>7, EventsHaveRaws, RawsConcat
    <2> HIDE DEF R, o, h
    <2>2. (R \o o) \o h = R \o (o \o h)
        BY <1>8, BytesAssociate
    <2> QED
        BY <1>3, <1>6, <1>7, <2>1, <2>2 DEF ReaderInv, BytesMatch, R
<1>10. ReaderType'
    BY <1>3, <1>5 DEF ReaderInv, ReaderType
<1>11. ReadingMatches'
    BY <1>5 DEF ReadingMatches, Points
<1> QED
    BY <1>3, <1>6, <1>9, <1>10, <1>11 DEF ReaderInv

LEMMA ReadKeeps ==
    ASSUME ReaderInv, Read
    PROVE  ReaderInv'
<1>1. CASE ReturnPending
    BY <1>1, ReturnPendingKeeps
<1>2. ASSUME NEW fed \in Feed(parser, SubSeq(tty, 1, Chunk)),
             ReadData(fed) \/ ReadPaste(fed)
      PROVE  ReaderInv'
    <2>1. ReadAndFeed(fed) /\ GoOn(fed)
        BY <1>2 DEF ReadData, ReadPaste
    <2> QED
        BY <2>1, ChunkTaken, GoesOnKeeps
<1>3. ASSUME NEW fed \in Feed(parser, SubSeq(tty, 1, Chunk)), ReadRest(fed)
      PROVE  ReaderInv'
    BY <1>3, ReadRestKeeps
<1>4. CASE EscTimeout
    BY <1>4, FlushKeeps DEF EscTimeout
<1>5. CASE IdleTimeout
    <2>1. CASE HasPending(parser)
        BY <1>5, <2>1, FlushKeeps DEF IdleTimeout
    <2>2. CASE ~HasPending(parser)
        <3>1. UNCHANGED readerVars
            BY <1>5, <2>2 DEF IdleTimeout
        <3> QED
            BY <3>1, UnchangedKeeps
    <2> QED
        BY <2>1, <2>2
<1> QED
    BY <1>1, <1>2, <1>3, <1>4, <1>5 DEF Read

LEMMA ReaderKeeps == ReaderInv /\ [ReaderNext]_readerVars => ReaderInv'
<1> SUFFICES ASSUME ReaderInv, [ReaderNext]_readerVars PROVE ReaderInv'
    OBVIOUS
<1>1. ASSUME NEW unit \in Units, TypeUnit(unit) PROVE ReaderInv'
    BY <1>1, TypeUnitKeeps
<1>2. CASE Arrive
    BY <1>2, ArriveKeeps
<1>3. CASE Read
    BY <1>3, ReadKeeps
<1>4. CASE UNCHANGED readerVars
    BY <1>4, UnchangedKeeps
<1> QED
    BY <1>1, <1>2, <1>3, <1>4 DEF ReaderNext

LEMMA ReaderKept == ReaderInv => EveryByteKept
<1> SUFFICES ASSUME ReaderInv PROVE EveryByteKept
    OBVIOUS
<1>1. ReaderTypeOK
    BY DEF ReaderInv, ReaderType, ReadingMatches, ParserInv, ParserType, ReaderTypeOK
<1>2. Raws(delivered \o pending) \o Held(parser) \o tty \o line = Raws(entered)
    BY DEF ReaderInv, BytesMatch, Got
<1> QED
    BY <1>1, <1>2 DEF EveryByteKept

(* EveryByteKept for any units, buffer and timeouts: whatever is typed,    *)
(* however it is cut into reads and whichever timeout strikes within it,   *)
(* TtyReader::read loses no byte, gives none twice and none before one     *)
(* that was typed earlier (reader.rs:71 to 126, parser.rs:40 to 369).      *)
THEOREM BytesAlwaysKept == ReaderSpec => []EveryByteKept
<1>1. ReaderInv /\ [ReaderNext]_readerVars => ReaderInv'
    BY ReaderKeeps
<1>2. ReaderSpec => []ReaderInv
    BY ReaderStarts, <1>1, PTL DEF ReaderSpec
<1> QED
    BY <1>2, ReaderKept, PTL

-----------------------------------------------------------------------------
(* One byte makes one parser, and does not look at what was given out.      *)

\* q with o given out before.
Before(o, q) == [q EXCEPT !.out = o \o @]

LEMMA BeforeFields ==
    ASSUME NEW p \in ParserType, NEW o \in Seq(KeyEventType)
    PROVE  /\ Before(o, p) \in ParserType
           /\ Before(o, p).state = p.state /\ Before(o, p).left = p.left
           /\ Before(o, p).buf = p.buf /\ Before(o, p).out = o \o p.out
<1>1. p.out \in Seq(KeyEventType)
    BY DEF ParserType
<1> DEFINE out == o \o p.out
<1>2. out \in Seq(KeyEventType)
    BY <1>1, ConcatProperties
<1>3. Before(o, p) = [p EXCEPT !.out = out]
    BY DEF Before, ParserType
<1> HIDE DEF out
<1>4. /\ [p EXCEPT !.out = out] \in ParserType
      /\ [p EXCEPT !.out = out].state = p.state /\ [p EXCEPT !.out = out].left = p.left
      /\ [p EXCEPT !.out = out].buf = p.buf /\ [p EXCEPT !.out = out].out = out
    BY <1>2 DEF ParserType
<1> QED
    BY <1>3, <1>4 DEF out

\* Two parsers that agree in every field are one.
LEMMA SameParser ==
    ASSUME NEW p \in ParserType, NEW q \in ParserType, p.state = q.state,
           p.left = q.left, p.buf = q.buf, p.out = q.out
    PROVE  p = q
BY DEF ParserType

LEMMA EmitType ==
    ASSUME NEW p \in ParserType, NEW raw \in Seq(Bytes), NEW kind \in KindType
    PROVE  /\ Emit(p, raw, kind) \in ParserType
           /\ Emit(p, raw, kind).state = "Ground" /\ Emit(p, raw, kind).left = 0
           /\ Emit(p, raw, kind).buf = <<>>
           /\ Emit(p, raw, kind).out = Append(p.out, [raw |-> raw, kind |-> kind])
           /\ [raw |-> raw, kind |-> kind] \in KeyEventType
<1> DEFINE event == [raw |-> raw, kind |-> kind]
           out == Append(p.out, event)
<1>1. event \in KeyEventType
    BY DEF KeyEventType
<1>2. out \in Seq(KeyEventType) /\ <<>> \in Seq(Bytes) /\ 0 \in 0..3
    BY <1>1 DEF ParserType
<1>3. Emit(p, raw, kind) = [state |-> "Ground", left |-> 0, buf |-> <<>>, out |-> out]
    BY DEF Emit
<1> HIDE DEF event, out
<1> QED
    BY <1>1, <1>2, <1>3 DEF ParserType, ParserStates, event, out

LEMMA EventsAppend ==
    ASSUME NEW a \in Seq(KeyEventType), NEW b \in Seq(KeyEventType), NEW e \in KeyEventType
    PROVE  Append(a \o b, e) = a \o Append(b, e)
OBVIOUS

LEMMA EmitBehind ==
    ASSUME NEW p \in ParserType, NEW o \in Seq(KeyEventType), NEW raw \in Seq(Bytes),
           NEW kind \in KindType
    PROVE  Emit(Before(o, p), raw, kind) = Before(o, Emit(p, raw, kind))
<1> DEFINE b == Before(o, p)
           e == Emit(p, raw, kind)
           event == [raw |-> raw, kind |-> kind]
<1>1. b \in ParserType /\ b.out = o \o p.out /\ p.out \in Seq(KeyEventType)
    BY BeforeFields DEF ParserType
<1>2. /\ e \in ParserType /\ e.state = "Ground" /\ e.left = 0 /\ e.buf = <<>>
      /\ e.out = Append(p.out, event) /\ event \in KeyEventType
    BY EmitType
<1>3. /\ Emit(b, raw, kind) \in ParserType /\ Emit(b, raw, kind).state = "Ground"
      /\ Emit(b, raw, kind).left = 0 /\ Emit(b, raw, kind).buf = <<>>
      /\ Emit(b, raw, kind).out = Append(b.out, event)
    BY <1>1, EmitType
<1>4. /\ Before(o, e) \in ParserType /\ Before(o, e).state = e.state
      /\ Before(o, e).left = e.left /\ Before(o, e).buf = e.buf
      /\ Before(o, e).out = o \o e.out
    BY <1>2, BeforeFields
<1> HIDE DEF b, e, event
<1>5. Append(o \o p.out, event) = o \o Append(p.out, event)
    BY <1>1, <1>2, EventsAppend
<1>6. Emit(b, raw, kind) = Before(o, e)
    <2> DEFINE x == Emit(b, raw, kind)
               y == Before(o, e)
    <2>1. /\ x \in ParserType /\ y \in ParserType /\ x.state = y.state /\ x.left = y.left
          /\ x.buf = y.buf
        BY <1>2, <1>3, <1>4
    <2>2. x.out = y.out
        BY <1>1, <1>2, <1>3, <1>4, <1>5
    <2> HIDE DEF x, y
    <2>3. x = y
        BY <2>1, <2>2, SameParser
    <2> QED
        BY <2>3 DEF x, y
<1> QED
    BY <1>6 DEF b, e

\* A step from p goes to a parser, and the same way whatever was given out.
Plain(p, q, b, o) == q \in ParserType /\ b = Before(o, q)

LEMMA EmitPlain ==
    ASSUME NEW p \in ParserType, NEW o \in Seq(KeyEventType), NEW raw \in Seq(Bytes),
           NEW kind \in KindType
    PROVE  Plain(p, Emit(p, raw, kind), Emit(Before(o, p), raw, kind), o)
BY EmitType, EmitBehind DEF Plain

LEMMA EmitWithPlain ==
    ASSUME NEW p \in ParserType, NEW o \in Seq(KeyEventType), NEW byte \in Bytes,
           NEW kind \in KindType
    PROVE  Plain(p, EmitWith(p, byte, kind), EmitWith(Before(o, p), byte, kind), o)
<1> DEFINE raw == Append(p.buf, byte)
<1>1. raw \in Seq(Bytes) /\ Before(o, p).buf = p.buf
    BY BeforeFields DEF ParserType
<1>2. /\ EmitWith(p, byte, kind) = Emit(p, raw, kind)
      /\ EmitWith(Before(o, p), byte, kind) = Emit(Before(o, p), raw, kind)
    BY <1>1 DEF EmitWith
<1> HIDE DEF raw
<1> QED
    BY <1>1, <1>2, EmitPlain

\* A step that gives out nothing.
Moved(p, s, n, buf) == [p EXCEPT !.state = s, !.left = n, !.buf = buf]

LEMMA MovedPlain ==
    ASSUME NEW p \in ParserType, NEW o \in Seq(KeyEventType),
           NEW s \in ParserStates, NEW n \in 0..3, NEW buf \in Seq(Bytes)
    PROVE  Plain(p, Moved(p, s, n, buf), Moved(Before(o, p), s, n, buf), o)
<1> DEFINE q == Moved(p, s, n, buf)
           c == Before(o, p)
           b == Moved(c, s, n, buf)
<1>1. /\ q \in ParserType /\ q.state = s /\ q.left = n /\ q.buf = buf /\ q.out = p.out
    BY DEF ParserType, Moved
<1>2. /\ Before(o, q) \in ParserType /\ Before(o, q).state = s /\ Before(o, q).left = n
      /\ Before(o, q).buf = buf /\ Before(o, q).out = o \o p.out
    <2> HIDE DEF q
    <2> QED
        BY <1>1, BeforeFields
<1>3. c \in ParserType /\ c.out = o \o p.out
    BY BeforeFields
<1>4. b = [c EXCEPT !.state = s, !.left = n, !.buf = buf]
    BY DEF Moved
<1> HIDE DEF b, c, q
<1>5. b \in ParserType /\ b.state = s /\ b.left = n /\ b.buf = buf /\ b.out = o \o p.out
    BY <1>3, <1>4 DEF ParserType
<1>6. b = Before(o, q)
    BY <1>2, <1>5, SameParser
<1> QED
    BY <1>1, <1>6 DEF Plain, b, c, q

\* What the ways to hold a byte come to.
Holding(p, byte, s, n) ==
    LET buf == Append(p.buf, byte)
    IN  /\ buf \in Seq(Bytes) /\ p.state \in ParserStates /\ p.left \in 0..3
        /\ Push(p, byte) = Moved(p, p.state, p.left, buf)
        /\ PushTo(p, byte, s) = Moved(p, s, p.left, buf)
        /\ [PushTo(p, byte, s) EXCEPT !.left = n] = Moved(p, s, n, buf)
        /\ [Push(p, byte) EXCEPT !.left = n] = Moved(p, p.state, n, buf)

LEMMA HoldingMoves ==
    ASSUME NEW p \in ParserType, NEW byte \in Bytes, NEW s \in ParserStates, NEW n \in 0..3
    PROVE  Holding(p, byte, s, n)
<1> DEFINE buf == Append(p.buf, byte)
<1>1. buf \in Seq(Bytes) /\ p.state \in ParserStates /\ p.left \in 0..3
    BY DEF ParserType
<1>2. Push(p, byte) = [p EXCEPT !.buf = buf]
    BY DEF Push, ParserType
<1>3. PushTo(p, byte, s) = [Push(p, byte) EXCEPT !.state = s]
    BY DEF PushTo
<1> HIDE DEF buf
<1> USE DEF Moved
<1>4. /\ Push(p, byte) = Moved(p, p.state, p.left, buf)
      /\ PushTo(p, byte, s) = Moved(p, s, p.left, buf)
    BY <1>1, <1>2, <1>3 DEF ParserType
<1>5. [PushTo(p, byte, s) EXCEPT !.left = n] = Moved(p, s, n, buf)
    BY <1>1, <1>4 DEF ParserType
<1>6. [Push(p, byte) EXCEPT !.left = n] = Moved(p, p.state, n, buf)
    BY <1>1, <1>4 DEF ParserType
<1> QED
    BY <1>1, <1>4, <1>5, <1>6 DEF buf, Holding

LEMMA PushPlain ==
    ASSUME NEW p \in ParserType, NEW o \in Seq(KeyEventType), NEW byte \in Bytes,
           NEW s \in ParserStates, NEW n \in 0..3
    PROVE  /\ Plain(p, Push(p, byte), Push(Before(o, p), byte), o)
           /\ Plain(p, PushTo(p, byte, s), PushTo(Before(o, p), byte, s), o)
           /\ Plain(p, [PushTo(p, byte, s) EXCEPT !.left = n],
                       [PushTo(Before(o, p), byte, s) EXCEPT !.left = n], o)
           /\ Plain(p, [Push(p, byte) EXCEPT !.left = n],
                       [Push(Before(o, p), byte) EXCEPT !.left = n], o)
<1> DEFINE buf == Append(p.buf, byte)
           b == Before(o, p)
<1>1. /\ b \in ParserType /\ b.state = p.state /\ b.left = p.left /\ b.buf = p.buf
    BY BeforeFields
<1> HIDE DEF b
<1>2. Holding(p, byte, s, n) /\ Holding(b, byte, s, n)
    BY <1>1, HoldingMoves
<1>3. buf \in Seq(Bytes) /\ p.state \in ParserStates /\ p.left \in 0..3
    BY <1>2 DEF Holding
<1>4. /\ Push(p, byte) = Moved(p, p.state, p.left, buf)
      /\ PushTo(p, byte, s) = Moved(p, s, p.left, buf)
      /\ [PushTo(p, byte, s) EXCEPT !.left = n] = Moved(p, s, n, buf)
      /\ [Push(p, byte) EXCEPT !.left = n] = Moved(p, p.state, n, buf)
    BY <1>2 DEF Holding
<1>5. /\ Push(b, byte) = Moved(b, p.state, p.left, buf)
      /\ PushTo(b, byte, s) = Moved(b, s, p.left, buf)
      /\ [PushTo(b, byte, s) EXCEPT !.left = n] = Moved(b, s, n, buf)
      /\ [Push(b, byte) EXCEPT !.left = n] = Moved(b, p.state, n, buf)
    BY <1>1, <1>2 DEF Holding
<1> HIDE DEF buf
<1>6. /\ Plain(p, Moved(p, p.state, p.left, buf), Moved(b, p.state, p.left, buf), o)
      /\ Plain(p, Moved(p, s, p.left, buf), Moved(b, s, p.left, buf), o)
      /\ Plain(p, Moved(p, s, n, buf), Moved(b, s, n, buf), o)
      /\ Plain(p, Moved(p, p.state, n, buf), Moved(b, p.state, n, buf), o)
    BY <1>3, MovedPlain DEF b
<1>7. /\ Plain(p, Push(p, byte), Push(b, byte), o)
      /\ Plain(p, PushTo(p, byte, s), PushTo(b, byte, s), o)
      /\ Plain(p, [PushTo(p, byte, s) EXCEPT !.left = n],
                  [PushTo(b, byte, s) EXCEPT !.left = n], o)
      /\ Plain(p, [Push(p, byte) EXCEPT !.left = n], [Push(b, byte) EXCEPT !.left = n], o)
    BY <1>4, <1>5, <1>6, Zenon
<1> QED
    BY <1>7 DEF b

LEMMA LeftKept ==
    ASSUME NEW p \in ParserType, NEW s \in ParserStates, NEW buf \in Seq(Bytes)
    PROVE  [p EXCEPT !.state = s, !.buf = buf] = Moved(p, s, p.left, buf)
<1> DEFINE q == [p EXCEPT !.state = s, !.buf = buf]
           r == Moved(p, s, p.left, buf)
<1>1. q \in ParserType /\ q.state = s /\ q.left = p.left /\ q.buf = buf /\ q.out = p.out
    BY DEF ParserType
<1>2. r \in ParserType /\ r.state = s /\ r.left = p.left /\ r.buf = buf /\ r.out = p.out
    BY DEF ParserType, Moved
<1> HIDE DEF q, r
<1>3. q = r
    BY <1>1, <1>2, SameParser
<1> QED
    BY <1>3 DEF q, r

LEMMA GroundPlain ==
    ASSUME NEW p \in ParserType, NEW o \in Seq(KeyEventType), NEW byte \in Bytes
    PROVE  Plain(p, Ground(p, byte), Ground(Before(o, p), byte), o)
<1> DEFINE b == Before(o, p)
           one == <<byte>>
<1>1. b \in ParserType /\ b.left = p.left /\ p.left \in 0..3 /\ one \in Seq(Bytes)
    BY BeforeFields DEF ParserType
<1>2. {"EscReceived", "Utf8"} \subseteq ParserStates
    BY DEF ParserStates
<1>3. CASE byte = "esc"
    <2>1. /\ Ground(p, byte) = [p EXCEPT !.state = "EscReceived", !.buf = one]
          /\ Ground(b, byte) = [b EXCEPT !.state = "EscReceived", !.buf = one]
        BY <1>3, LeadBytes DEF Ground
    <2> HIDE DEF b, one
    <2>0. /\ p \in ParserType /\ b \in ParserType /\ b.left = p.left
          /\ "EscReceived" \in ParserStates
        BY <1>1, <1>2
    <2>2. /\ Ground(p, byte) = Moved(p, "EscReceived", p.left, one)
          /\ Ground(b, byte) = Moved(b, "EscReceived", p.left, one)
        <3>1. [p EXCEPT !.state = "EscReceived", !.buf = one] = Moved(p, "EscReceived", p.left, one)
            BY <1>1, <2>0, LeftKept
        <3>2. [b EXCEPT !.state = "EscReceived", !.buf = one] = Moved(b, "EscReceived", b.left, one)
            BY <1>1, <2>0, LeftKept
        <3> QED
            BY <2>0, <2>1, <3>1, <3>2, Zenon
    <2> QED
        BY <1>1, <1>2, <2>2, MovedPlain DEF b
<1>4. CASE byte \in DOMAIN Lead
    <2> DEFINE n == Lead[byte]
    <2>1. n \in 0..3 /\ byte # "esc"
        BY <1>4, LeadBytes
    <2>2. /\ Ground(p, byte) = Moved(p, "Utf8", n, one)
          /\ Ground(b, byte) = Moved(b, "Utf8", n, one)
        BY <1>4, <2>1 DEF Ground, StartUtf8, Moved
    <2> HIDE DEF n, one
    <2> QED
        BY <1>1, <1>2, <2>1, <2>2, MovedPlain
<1>5. CASE byte # "esc" /\ byte \notin DOMAIN Lead
    <2>1. /\ Ground(p, byte) = Emit(p, one, KeyOf(byte))
          /\ Ground(b, byte) = Emit(b, one, KeyOf(byte))
        BY <1>5 DEF Ground
    <2> HIDE DEF one
    <2> QED
        BY <1>1, <2>1, KindsType, EmitPlain
<1> QED
    BY <1>3, <1>4, <1>5

\* A byte ends a sequence with Unknown and is taken again, or moves p after it.
LEMMA AgainPlain ==
    ASSUME NEW p \in ParserType, NEW o \in Seq(KeyEventType), NEW byte \in Bytes,
           NEW raw \in Seq(Bytes), NEW kind \in KindType
    PROVE  Plain(p, Ground(Emit(p, raw, kind), byte),
                    Ground(Emit(Before(o, p), raw, kind), byte), o)
<1> DEFINE e == Emit(p, raw, kind)
<1>1. e \in ParserType /\ Emit(Before(o, p), raw, kind) = Before(o, e)
    BY EmitType, EmitBehind
<1> HIDE DEF e
<1>2. Plain(e, Ground(e, byte), Ground(Before(o, e), byte), o)
    BY <1>1, GroundPlain
<1> QED
    BY <1>1, <1>2 DEF Plain, e

LEMMA EscReceivedArms ==
    ASSUME NEW p, NEW byte \in Bytes
    PROVE  /\ byte = "[" => EscReceived(p, byte) = PushTo(p, byte, "CsiEntry")
           /\ byte = "O" => EscReceived(p, byte) = PushTo(p, byte, "Ss3Pending")
           /\ byte = "esc" => EscReceived(p, byte)
                                  = [Emit(p, <<"esc">>, Kind("Escape"))
                                        EXCEPT !.state = "EscReceived", !.buf = <<"esc">>]
           /\ byte \notin {"[", "O", "esc"} =>
                  \E kind \in KindType :
                      \A q : EscReceived(q, byte) = EmitWith(q, byte, kind)
<1> DEFINE plain == (Printable \ {"[", "O"}) \cup Controls \cup {"cr", "tab", "del"}
           kind == Alt(IF byte \in {"cr", "tab"} THEN Kind("Control") ELSE KeyOf(byte))
<1>1. "[" \notin plain /\ "O" \notin plain /\ "esc" \notin plain
    BY DEF Printable, Finals, Letters, Digits, Controls
<1>2. kind \in KindType /\ Unknown \in KindType
    BY KindsType DEF Keys
<1>3. \A q : /\ byte = "[" => EscReceived(q, byte) = PushTo(q, byte, "CsiEntry")
             /\ byte = "O" => EscReceived(q, byte) = PushTo(q, byte, "Ss3Pending")
             /\ byte = "esc" => EscReceived(q, byte)
                                  = [Emit(q, <<"esc">>, Kind("Escape"))
                                        EXCEPT !.state = "EscReceived", !.buf = <<"esc">>]
             /\ byte \notin {"[", "O", "esc"} /\ byte \in plain =>
                    EscReceived(q, byte) = EmitWith(q, byte, kind)
             /\ byte \notin {"[", "O", "esc"} /\ byte \notin plain =>
                    EscReceived(q, byte) = EmitWith(q, byte, Unknown)
    <2> TAKE q
    <2>1. EscReceived(q, byte)
            = CASE byte = "["   -> PushTo(q, byte, "CsiEntry")
                [] byte = "O"   -> PushTo(q, byte, "Ss3Pending")
                [] byte = "esc" -> [Emit(q, <<"esc">>, Kind("Escape"))
                                        EXCEPT !.state = "EscReceived", !.buf = <<"esc">>]
                [] byte \in plain -> EmitWith(q, byte, kind)
                [] OTHER        -> EmitWith(q, byte, Unknown)
        BY DEF EscReceived
    <2> DEFINE r == EscReceived(q, byte)
    <2>2. r = CASE byte = "["   -> PushTo(q, byte, "CsiEntry")
                [] byte = "O"   -> PushTo(q, byte, "Ss3Pending")
                [] byte = "esc" -> [Emit(q, <<"esc">>, Kind("Escape"))
                                        EXCEPT !.state = "EscReceived", !.buf = <<"esc">>]
                [] byte \in plain -> EmitWith(q, byte, kind)
                [] OTHER        -> EmitWith(q, byte, Unknown)
        BY <2>1
    <2> HIDE DEF plain, kind, r
    <2>3. byte = "[" => r = PushTo(q, byte, "CsiEntry")
        BY <1>1, <2>2
    <2>4. byte = "O" => r = PushTo(q, byte, "Ss3Pending")
        BY <1>1, <2>2
    <2>5. byte = "esc" => r = [Emit(q, <<"esc">>, Kind("Escape"))
                                        EXCEPT !.state = "EscReceived", !.buf = <<"esc">>]
        BY <1>1, <2>2
    <2>6. byte \notin {"[", "O", "esc"} /\ byte \in plain => r = EmitWith(q, byte, kind)
        BY <1>1, <2>2
    <2>7. byte \notin {"[", "O", "esc"} /\ byte \notin plain => r = EmitWith(q, byte, Unknown)
        BY <1>1, <2>2
    <2> QED
        BY <2>3, <2>4, <2>5, <2>6, <2>7 DEF r
<1> HIDE DEF plain, kind
<1> QED
    BY <1>2, <1>3

LEMMA EscReceivedPlain ==
    ASSUME NEW p \in ParserType, NEW o \in Seq(KeyEventType), NEW byte \in Bytes
    PROVE  Plain(p, EscReceived(p, byte), EscReceived(Before(o, p), byte), o)
<1> DEFINE b == Before(o, p)
<1>1. /\ {"CsiEntry", "Ss3Pending", "EscReceived"} \subseteq ParserStates /\ 0 \in 0..3
      /\ b \in ParserType
    BY BeforeFields DEF ParserStates
<1>2. CASE byte = "["
    <2>1. /\ EscReceived(p, byte) = PushTo(p, byte, "CsiEntry")
          /\ EscReceived(b, byte) = PushTo(b, byte, "CsiEntry")
        BY <1>2, EscReceivedArms
    <2> QED
        BY <1>1, <2>1, PushPlain
<1>3. CASE byte = "O"
    <2>1. /\ EscReceived(p, byte) = PushTo(p, byte, "Ss3Pending")
          /\ EscReceived(b, byte) = PushTo(b, byte, "Ss3Pending")
        BY <1>3, EscReceivedArms
    <2> QED
        BY <1>1, <2>1, PushPlain
<1>4. CASE byte = "esc"
    <2> DEFINE one == <<"esc">>
               kind == Kind("Escape")
               e == Emit(p, one, kind)
               f == Before(o, e)
    <2>1. one \in Seq(Bytes) /\ kind \in KindType
        BY <1>4, KindsType DEF Keys
    <2>2. /\ EscReceived(p, byte) = [e EXCEPT !.state = "EscReceived", !.buf = one]
          /\ EscReceived(b, byte) = [Emit(b, one, kind) EXCEPT !.state = "EscReceived", !.buf = one]
        BY <1>4, EscReceivedArms
    <2> HIDE DEF one, kind
    <2>3. e \in ParserType /\ e.left = 0 /\ Emit(b, one, kind) = f
        BY <2>1, EmitType, EmitBehind
    <2> HIDE DEF e
    <2>5. f \in ParserType /\ f.left = 0
        BY <2>3, BeforeFields
    <2> HIDE DEF b, f
    <2>6. EscReceived(p, byte) = Moved(e, "EscReceived", 0, one)
        BY <2>2, <2>3 DEF Moved, ParserType
    <2>7. EscReceived(b, byte) = Moved(f, "EscReceived", 0, one)
        BY <2>2, <2>3, <2>5 DEF Moved, ParserType
    <2>8. Plain(e, EscReceived(p, byte), EscReceived(b, byte), o)
        BY <1>1, <2>1, <2>3, <2>6, <2>7, MovedPlain DEF f
    <2> QED
        BY <2>8 DEF Plain, b
<1>5. CASE byte \notin {"[", "O", "esc"}
    <2>1. PICK kind \in KindType : \A q : EscReceived(q, byte) = EmitWith(q, byte, kind)
        BY <1>5, EscReceivedArms
    <2> QED
        BY <2>1, EmitWithPlain
<1> QED
    BY <1>2, <1>3, <1>4, <1>5
LEMMA CsiEntryPlain ==
    ASSUME NEW p \in ParserType, NEW o \in Seq(KeyEventType), NEW byte \in Bytes
    PROVE  Plain(p, CsiEntry(p, byte), CsiEntry(Before(o, p), byte), o)
<1> DEFINE b == Before(o, p)
<1>1. {"MouseX10", "SgrMouse", "CsiParam"} \subseteq ParserStates /\ 3 \in 0..3 /\ 0 \in 0..3
    BY DEF ParserStates
<1>2. CASE byte = "M"
    <2>1. \A q : CsiEntry(q, byte) = [PushTo(q, byte, "MouseX10") EXCEPT !.left = 3]
        BY <1>2, Zenon DEF CsiEntry, Digits
    <2>2. /\ CsiEntry(p, byte) = [PushTo(p, byte, "MouseX10") EXCEPT !.left = 3]
          /\ CsiEntry(b, byte) = [PushTo(b, byte, "MouseX10") EXCEPT !.left = 3]
        BY <2>1
    <2>3. Plain(p, [PushTo(p, byte, "MouseX10") EXCEPT !.left = 3],
                   [PushTo(b, byte, "MouseX10") EXCEPT !.left = 3], o)
        BY <1>1, PushPlain
    <2> HIDE DEF b
    <2>4. Plain(p, CsiEntry(p, byte), CsiEntry(b, byte), o)
        BY <2>2, <2>3, Zenon
    <2> QED
        BY <2>4 DEF b
<1>3. CASE byte = "<"
    <2>1. \A q : CsiEntry(q, byte) = PushTo(q, byte, "SgrMouse")
        BY <1>3, Zenon DEF CsiEntry, Digits
    <2>2. /\ CsiEntry(p, byte) = PushTo(p, byte, "SgrMouse")
          /\ CsiEntry(b, byte) = PushTo(b, byte, "SgrMouse")
        BY <2>1
    <2> QED
        BY <1>1, <2>2, PushPlain
<1>4. CASE byte \in ParamBytes
    <2>1. \A q : CsiEntry(q, byte) = PushTo(q, byte, "CsiParam")
        <3>1. byte \notin {"M", "<"}
            BY <1>4, Zenon DEF ParamBytes, Digits
        <3> QED
            BY <1>4, <3>1, Zenon DEF CsiEntry, ParamBytes
    <2>2. /\ CsiEntry(p, byte) = PushTo(p, byte, "CsiParam")
          /\ CsiEntry(b, byte) = PushTo(b, byte, "CsiParam")
        BY <2>1
    <2> QED
        BY <1>1, <2>2, PushPlain
<1>5. CASE byte \notin {"M", "<"} \cup ParamBytes
    <2> DEFINE kind == ClassifyCsiFinal(byte, <<>>)
    <2>1. \A q : CsiEntry(q, byte) = EmitWith(q, byte, kind)
        BY <1>5, Zenon DEF CsiEntry, ParamBytes
    <2>2. kind \in KindType
        BY ClassifiedType
    <2> HIDE DEF kind
    <2>3. /\ CsiEntry(p, byte) = EmitWith(p, byte, kind)
          /\ CsiEntry(b, byte) = EmitWith(b, byte, kind)
        BY <2>1
    <2> QED
        BY <2>2, <2>3, EmitWithPlain
<1> QED
    BY <1>2, <1>3, <1>4, <1>5

LEMMA CsiParamPlain ==
    ASSUME NEW p \in ParserType, NEW o \in Seq(KeyEventType), NEW byte \in Bytes
    PROVE  Plain(p, CsiParam(p, byte), CsiParam(Before(o, p), byte), o)
<1> DEFINE b == Before(o, p)
           first == CsiParams(p)[1]
           empty == <<>>
<1>1. /\ "PasteBuf" \in ParserStates /\ 0 \in 0..3 /\ empty \in Seq(Bytes)
      /\ b \in ParserType /\ b.buf = p.buf /\ b.left = p.left /\ b.state = p.state
      /\ p.left \in 0..3 /\ p.state \in ParserStates
    BY BeforeFields DEF ParserStates, ParserType
<1>2. CsiParams(b) = CsiParams(p)
    BY <1>1 DEF CsiParams
<1>3. CASE byte \in ParamBytes
    <2>0. byte # "~" /\ byte \notin Finals \ {"~"}
        BY <1>3, Zenon DEF ParamBytes, Digits, Finals, Letters
    <2>1. \A q : CsiParam(q, byte) = Push(q, byte)
        BY <1>3, <2>0, Zenon DEF CsiParam, ParamBytes
    <2>2. CsiParam(p, byte) = Push(p, byte) /\ CsiParam(b, byte) = Push(b, byte)
        BY <2>1
    <2> QED
        BY <1>1, <2>2, PushPlain
<1>4. CASE byte = "~"
    <2>0. byte \notin ParamBytes /\ byte \notin Finals \ {"~"}
        BY <1>4, Zenon DEF ParamBytes, Digits
    <2>1. CASE first = "200"
        <3>1. \A q : CsiParams(q)[1] = "200" =>
                        CsiParam(q, byte) = [q EXCEPT !.state = "PasteBuf", !.buf = <<>>]
            BY <1>4, <2>0, Zenon DEF CsiParam, ParamBytes
        <3>2. /\ CsiParam(p, byte) = [p EXCEPT !.state = "PasteBuf", !.buf = empty]
              /\ CsiParam(b, byte) = [b EXCEPT !.state = "PasteBuf", !.buf = empty]
            BY <1>2, <2>1, <3>1
        <3> HIDE DEF b, empty, first
        <3>3. /\ CsiParam(p, byte) = Moved(p, "PasteBuf", p.left, empty)
              /\ CsiParam(b, byte) = Moved(b, "PasteBuf", p.left, empty)
            <4>1. [p EXCEPT !.state = "PasteBuf", !.buf = empty] = Moved(p, "PasteBuf", p.left, empty)
                BY <1>1, LeftKept
            <4>2. [b EXCEPT !.state = "PasteBuf", !.buf = empty] = Moved(b, "PasteBuf", b.left, empty)
                BY <1>1, LeftKept
            <4> QED
                BY <1>1, <3>2, <4>1, <4>2, Zenon
        <3> QED
            BY <1>1, <3>3, MovedPlain DEF b
    <2>2. CASE first # "200"
        <3> DEFINE kind == ClassifyTildeKey(CsiParams(p))
        <3>1. \A q : CsiParams(q)[1] # "200" =>
                        CsiParam(q, byte) = EmitWith(q, byte, ClassifyTildeKey(CsiParams(q)))
            BY <1>4, <2>0, Zenon DEF CsiParam, ParamBytes
        <3>2. /\ CsiParam(p, byte) = EmitWith(p, byte, kind)
              /\ CsiParam(b, byte) = EmitWith(b, byte, kind)
            BY <1>2, <2>2, <3>1
        <3>3. kind \in KindType
            BY ClassifiedType
        <3> HIDE DEF kind
        <3> QED
            BY <3>2, <3>3, EmitWithPlain
    <2> QED
        BY <2>1, <2>2
<1>5. CASE byte \in Finals \ {"~"} /\ byte \notin ParamBytes
    <2> DEFINE kind == ClassifyCsiFinal(byte, CsiParams(p))
    <2>1. \A q : CsiParam(q, byte) = EmitWith(q, byte, ClassifyCsiFinal(byte, CsiParams(q)))
        BY <1>5, Zenon DEF CsiParam, ParamBytes
    <2>2. /\ CsiParam(p, byte) = EmitWith(p, byte, kind)
          /\ CsiParam(b, byte) = EmitWith(b, byte, kind)
        BY <1>2, <2>1
    <2>3. kind \in KindType
        BY ClassifiedType
    <2> HIDE DEF kind
    <2> QED
        BY <2>2, <2>3, EmitWithPlain
<1>6. CASE byte \notin Finals /\ byte \notin ParamBytes
    <2>0. byte # "~"
        BY <1>6 DEF Finals
    <2>1. \A q : CsiParam(q, byte) = EmitWith(q, byte, Unknown)
        BY <1>6, <2>0, Zenon DEF CsiParam, ParamBytes
    <2> QED
        BY <2>1, KindsType, EmitWithPlain
<1> QED
    BY <1>3, <1>4, <1>5, <1>6

LEMMA Ss3Plain ==
    ASSUME NEW p \in ParserType, NEW o \in Seq(KeyEventType), NEW byte \in Bytes
    PROVE  Plain(p, Ss3Pending(p, byte), Ss3Pending(Before(o, p), byte), o)
<1> DEFINE kind == IF byte \in DOMAIN Ss3Keys THEN Kind(Ss3Keys[byte]) ELSE Unknown
<1>1. kind \in KindType
    <2>1. /\ DOMAIN Ss3Keys = {"A", "H", "P"} /\ Ss3Keys["A"] = "Arrow"
          /\ Ss3Keys["H"] = "Nav" /\ Ss3Keys["P"] = "Function"
        BY DEF Ss3Keys
    <2> QED
        BY <2>1, KindsType DEF Keys
<1>2. /\ Ss3Pending(p, byte) = EmitWith(p, byte, kind)
      /\ Ss3Pending(Before(o, p), byte) = EmitWith(Before(o, p), byte, kind)
    BY DEF Ss3Pending
<1> HIDE DEF kind
<1> QED
    BY <1>1, <1>2, EmitWithPlain

\* The byte the report or the character still waits for.
LEMMA CountedPlain ==
    ASSUME NEW p \in ParserType, NEW o \in Seq(KeyEventType), NEW byte \in Bytes,
           p.left > 1
    PROVE  Plain(p, [Push(p, byte) EXCEPT !.left = @ - 1],
                    [Push(Before(o, p), byte) EXCEPT !.left = @ - 1], o)
<1> DEFINE b == Before(o, p)
           n == p.left - 1
<1>1. b \in ParserType /\ b.left = p.left /\ n \in 0..3 /\ p.state \in ParserStates
    BY BeforeFields DEF ParserType
<1>2. Push(p, byte).left = p.left /\ Push(b, byte).left = p.left
    BY <1>1 DEF Push, ParserType
<1>3. /\ [Push(p, byte) EXCEPT !.left = @ - 1] = [Push(p, byte) EXCEPT !.left = n]
      /\ [Push(b, byte) EXCEPT !.left = @ - 1] = [Push(b, byte) EXCEPT !.left = n]
    BY <1>2
<1> HIDE DEF n
<1> QED
    BY <1>1, <1>3, PushPlain

LEMMA CountingPlain ==
    ASSUME NEW p \in ParserType, NEW o \in Seq(KeyEventType), NEW byte \in Bytes
    PROVE  /\ Plain(p, MouseX10(p, byte), MouseX10(Before(o, p), byte), o)
           /\ Plain(p, Utf8Cont(p, byte), Utf8Cont(Before(o, p), byte), o)
<1> DEFINE b == Before(o, p)
<1>1. /\ b.left = p.left /\ b.buf = p.buf /\ p.buf \in Seq(Bytes)
      /\ Kind("Mouse") \in KindType /\ Kind("Char") \in KindType /\ Unknown \in KindType
    BY BeforeFields, KindsType DEF ParserType, Keys
<1>2. Plain(p, MouseX10(p, byte), MouseX10(b, byte), o)
    <2>1. CASE p.left > 1
        <3>1. /\ MouseX10(p, byte) = [Push(p, byte) EXCEPT !.left = @ - 1]
              /\ MouseX10(b, byte) = [Push(b, byte) EXCEPT !.left = @ - 1]
            BY <1>1, <2>1 DEF MouseX10
        <3> QED
            BY <2>1, <3>1, CountedPlain
    <2>2. CASE ~(p.left > 1)
        <3>1. /\ MouseX10(p, byte) = EmitWith(p, byte, Kind("Mouse"))
              /\ MouseX10(b, byte) = EmitWith(b, byte, Kind("Mouse"))
            BY <1>1, <2>2 DEF MouseX10
        <3> QED
            BY <1>1, <3>1, EmitWithPlain
    <2> QED
        BY <2>1, <2>2
<1>3. Plain(p, Utf8Cont(p, byte), Utf8Cont(b, byte), o)
    <2>1. CASE byte = "cont" /\ p.left > 1
        <3>1. /\ Utf8Cont(p, byte) = [Push(p, byte) EXCEPT !.left = @ - 1]
              /\ Utf8Cont(b, byte) = [Push(b, byte) EXCEPT !.left = @ - 1]
            BY <1>1, <2>1 DEF Utf8Cont
        <3> QED
            BY <2>1, <3>1, CountedPlain
    <2>2. CASE byte = "cont" /\ ~(p.left > 1)
        <3>1. /\ Utf8Cont(p, byte) = EmitWith(p, byte, Kind("Char"))
              /\ Utf8Cont(b, byte) = EmitWith(b, byte, Kind("Char"))
            BY <1>1, <2>2 DEF Utf8Cont
        <3> QED
            BY <1>1, <3>1, EmitWithPlain
    <2>3. CASE byte # "cont"
        <3>1. /\ Utf8Cont(p, byte) = Ground(Emit(p, p.buf, Unknown), byte)
              /\ Utf8Cont(b, byte) = Ground(Emit(b, p.buf, Unknown), byte)
            BY <1>1, <2>3 DEF Utf8Cont
        <3> QED
            BY <1>1, <3>1, AgainPlain
    <2> QED
        BY <2>1, <2>2, <2>3
<1> QED
    BY <1>2, <1>3

LEMMA SgrMousePlain ==
    ASSUME NEW p \in ParserType, NEW o \in Seq(KeyEventType), NEW byte \in Bytes
    PROVE  Plain(p, SgrMouse(p, byte), SgrMouse(Before(o, p), byte), o)
<1> DEFINE b == Before(o, p)
           kind == IF Len(Params(SubSeq(p.buf, 4, Len(p.buf)))) < 3
                   THEN Unknown ELSE Kind("Mouse")
<1>1. b.buf = p.buf /\ 0 \in 0..3 /\ "Ground" \in ParserStates
    BY BeforeFields DEF ParserStates
<1>2. CASE byte \in ParamBytes
    <2>0. byte \notin {"M", "m"}
        BY <1>2, Zenon DEF ParamBytes, Digits
    <2>1. \A q : SgrMouse(q, byte) = Push(q, byte)
        BY <1>2, <2>0, Zenon DEF SgrMouse, ParamBytes
    <2>2. SgrMouse(p, byte) = Push(p, byte) /\ SgrMouse(b, byte) = Push(b, byte)
        BY <2>1
    <2> QED
        BY <1>1, <2>2, PushPlain
<1>3. CASE byte \in {"M", "m"} /\ byte \notin ParamBytes
    <2>1. \A q : SgrMouse(q, byte)
                   = EmitWith(q, byte, IF Len(Params(SubSeq(q.buf, 4, Len(q.buf)))) < 3
                                       THEN Unknown ELSE Kind("Mouse"))
        BY <1>3, Zenon DEF SgrMouse, ParamBytes
    <2>2. SgrMouse(p, byte) = EmitWith(p, byte, kind) /\ SgrMouse(b, byte) = EmitWith(b, byte, kind)
        BY <1>1, <2>1
    <2>3. kind \in KindType
        BY KindsType DEF Keys
    <2> HIDE DEF kind
    <2> QED
        BY <2>2, <2>3, EmitWithPlain
<1>4. CASE byte \notin {"M", "m"} /\ byte \notin ParamBytes
    <2>1. \A q : SgrMouse(q, byte) = EmitWith(q, byte, Unknown)
        BY <1>4, Zenon DEF SgrMouse, ParamBytes
    <2> QED
        BY <2>1, KindsType, EmitWithPlain
<1> QED
    BY <1>2, <1>3, <1>4

LEMMA InPastePlain ==
    ASSUME NEW p \in ParserType, NEW o \in Seq(KeyEventType), NEW byte \in Bytes
    PROVE  Plain(p, InPaste(p, byte), InPaste(Before(o, p), byte), o)
<1> DEFINE b == Before(o, p)
           next == Append(p.buf, byte)
           raw == PasteStart \o next
<1>1. b.buf = p.buf /\ 0 \in 0..3 /\ "Ground" \in ParserStates /\ Kind("Paste") \in KindType
    BY BeforeFields, KindsType DEF ParserStates, Keys
<1>2. next \in Seq(Bytes)
    BY DEF ParserType
<1>3. CASE IsSuffix(PasteEnd, next)
    <2>1. /\ InPaste(p, byte) = Emit(p, raw, Kind("Paste"))
          /\ InPaste(b, byte) = Emit(b, raw, Kind("Paste"))
        BY <1>1, <1>3 DEF InPaste
    <2> HIDE DEF next
    <2>2. raw \in Seq(Bytes)
        BY <1>2, PasteStartType
    <2> HIDE DEF raw
    <2> QED
        BY <1>1, <2>1, <2>2, EmitPlain
<1>4. CASE ~IsSuffix(PasteEnd, next)
    <2>1. InPaste(p, byte) = Push(p, byte) /\ InPaste(b, byte) = Push(b, byte)
        BY <1>1, <1>4 DEF InPaste
    <2> QED
        BY <1>1, <2>1, PushPlain
<1> QED
    BY <1>3, <1>4

LEMMA StepPlain ==
    ASSUME NEW p \in ParserType, NEW o \in Seq(KeyEventType), NEW byte \in Bytes
    PROVE  Plain(p, Step(p, byte), Step(Before(o, p), byte), o)
<1> DEFINE b == Before(o, p)
<1>1. b.state = p.state /\ p.state \in ParserStates
    BY BeforeFields DEF ParserType
<1>2. CASE p.state = "Ground"
    <2>1. Step(p, byte) = Ground(p, byte) /\ Step(b, byte) = Ground(b, byte)
        BY <1>1, <1>2 DEF Step
    <2> QED
        BY <2>1, GroundPlain
<1>3. CASE p.state = "EscReceived"
    <2>1. Step(p, byte) = EscReceived(p, byte) /\ Step(b, byte) = EscReceived(b, byte)
        BY <1>1, <1>3 DEF Step
    <2> QED
        BY <2>1, EscReceivedPlain
<1>4. CASE p.state = "CsiEntry"
    <2>1. Step(p, byte) = CsiEntry(p, byte) /\ Step(b, byte) = CsiEntry(b, byte)
        BY <1>1, <1>4 DEF Step
    <2> QED
        BY <2>1, CsiEntryPlain
<1>5. CASE p.state = "CsiParam"
    <2>1. Step(p, byte) = CsiParam(p, byte) /\ Step(b, byte) = CsiParam(b, byte)
        BY <1>1, <1>5 DEF Step
    <2> QED
        BY <2>1, CsiParamPlain
<1>6. CASE p.state = "Ss3Pending"
    <2>1. Step(p, byte) = Ss3Pending(p, byte) /\ Step(b, byte) = Ss3Pending(b, byte)
        BY <1>1, <1>6 DEF Step
    <2> QED
        BY <2>1, Ss3Plain
<1>7. CASE p.state = "MouseX10"
    <2>1. Step(p, byte) = MouseX10(p, byte) /\ Step(b, byte) = MouseX10(b, byte)
        BY <1>1, <1>7 DEF Step
    <2> QED
        BY <2>1, CountingPlain
<1>8. CASE p.state = "SgrMouse"
    <2>1. Step(p, byte) = SgrMouse(p, byte) /\ Step(b, byte) = SgrMouse(b, byte)
        BY <1>1, <1>8 DEF Step
    <2> QED
        BY <2>1, SgrMousePlain
<1>9. CASE p.state = "PasteBuf"
    <2>1. Step(p, byte) = InPaste(p, byte) /\ Step(b, byte) = InPaste(b, byte)
        BY <1>1, <1>9 DEF Step
    <2> QED
        BY <2>1, InPastePlain
<1>10. CASE p.state = "Utf8"
    <2>1. Step(p, byte) = Utf8Cont(p, byte) /\ Step(b, byte) = Utf8Cont(b, byte)
        BY <1>1, <1>10 DEF Step
    <2> QED
        BY <2>1, CountingPlain
<1> QED
    BY <1>1, <1>2, <1>3, <1>4, <1>5, <1>6, <1>7, <1>8, <1>9, <1>10 DEF ParserStates

LEMMA FlushPlain ==
    ASSUME NEW p \in ParserType, NEW o \in Seq(KeyEventType)
    PROVE  Plain(p, Flush(p), Flush(Before(o, p)), o)
<1> DEFINE b == Before(o, p)
           one == <<"esc">>
<1>1. /\ b.state = p.state /\ b.buf = p.buf /\ p.buf \in Seq(Bytes) /\ p.state \in ParserStates
      /\ Kind("Escape") \in KindType /\ Unknown \in KindType
    BY BeforeFields, KindsType DEF ParserType, Keys
<1>2. CASE p.state = "EscReceived"
    <2>1. Flush(p) = Emit(p, one, Kind("Escape")) /\ Flush(b) = Emit(b, one, Kind("Escape"))
        BY <1>1, <1>2 DEF Flush
    <2>2. one \in Seq(Bytes)
        BY DEF Bytes
    <2> HIDE DEF one
    <2> QED
        BY <1>1, <2>1, <2>2, EmitPlain
<1>3. CASE p.state \in {"Ground", "PasteBuf"}
    <2>1. Flush(p) = p /\ Flush(b) = b
        BY <1>1, <1>3 DEF Flush
    <2> QED
        BY <2>1 DEF Plain
<1>4. CASE p.state \notin {"EscReceived", "Ground", "PasteBuf"}
    <2>1. Flush(p) = Emit(p, p.buf, Unknown) /\ Flush(b) = Emit(b, p.buf, Unknown)
        BY <1>1, <1>4 DEF Flush
    <2> QED
        BY <1>1, <2>1, EmitPlain
<1> QED
    BY <1>2, <1>3, <1>4

-----------------------------------------------------------------------------
(* Many bytes make one parser.                                             *)

\* r goes byte by byte from p through data.
Runs(r, p, data) ==
    /\ r \in [0..Len(data) -> ParserType]
    /\ r[0] = p
    /\ \A n \in 1..Len(data) : r[n] = Step(r[n - 1], data[n])

LEMMA StepType ==
    ASSUME NEW p \in ParserType, NEW byte \in Bytes
    PROVE  Step(p, byte) \in ParserType
<1> DEFINE o == <<>>
<1>1. o \in Seq(KeyEventType)
    OBVIOUS
<1> HIDE DEF o
<1> QED
    BY <1>1, StepPlain DEF Plain

LEMMA RunExists ==
    ASSUME NEW p \in ParserType, NEW data \in Seq(Bytes)
    PROVE  \E r : Runs(r, p, data)
<1> DEFINE n == Len(data)
           V == ParserType
           G == [i \in 1..n |-> [x \in V |-> Step(x, data[i])]]
<1>1. n \in Nat /\ \A i \in 1..n : data[i] \in Bytes
    OBVIOUS
<1>2. G \in [1..n -> [V -> V]]
    BY <1>1, StepType
<1>3. \A i \in 1..n : \A x \in V : G[i][x] = Step(x, data[i])
    OBVIOUS
<1> HIDE DEF G, n
<1>4. PICK r \in [0..n -> V] : Iterates(r, n, p, G)
    <2> HIDE DEF V
    <2>1. p \in V
        BY DEF V
    <2> QED
        BY <1>1, <1>2, <2>1, Iterated
<1>5. ASSUME NEW i \in 1..n PROVE r[i] = Step(r[i - 1], data[i])
    <2>1. i - 1 \in 0..n
        BY <1>1
    <2>2. r[i - 1] \in V
        BY <1>4, <2>1
    <2> QED
        BY <1>3, <1>4, <2>2 DEF Iterates
<1> QED
    BY <1>4, <1>5 DEF Iterates, Runs, n

\* Feed has the parser at the end of a run, and only that.
LEMMA FeedIsRun ==
    ASSUME NEW p \in ParserType, NEW data \in Seq(Bytes), NEW r, Runs(r, p, data)
    PROVE  Feed(p, data) = {r[Len(data)]}
<1> DEFINE len == Len(data)
           f == [n \in 0..len |-> {r[n]}]
           h == CHOOSE x : FedBy(x, p, data)
<1>1. len \in Nat
    OBVIOUS
<1>2. FedBy(f, p, data)
    <2>1. \A n \in 0..len : f[n] = {r[n]}
        OBVIOUS
    <2>2. f = [n \in 0..len |-> f[n]]
        OBVIOUS
    <2> HIDE DEF f
    <2>3. ASSUME NEW n \in 0..len
          PROVE  f[n] = IF n = 0 THEN {p} ELSE {Step(q, data[n]) : q \in f[n - 1]}
        <3>1. CASE n = 0
            BY <2>1, <3>1 DEF Runs
        <3>2. CASE n # 0
            <4>1. n \in 1..len /\ n - 1 \in 0..len
                BY <1>1, <3>2
            <4>2. f[n] = {Step(r[n - 1], data[n])} /\ f[n - 1] = {r[n - 1]}
                BY <2>1, <4>1 DEF Runs
            <4> QED
                BY <3>2, <4>2
        <3> QED
            BY <3>1, <3>2
    <2> QED
        BY <2>2, <2>3 DEF FedBy
<1>3. FedBy(h, p, data)
    BY <1>2
<1>4. Feed(p, data) = h[len]
    BY DEF Feed, FedBy
<1> HIDE DEF h, f
<1>5. \A n \in 0..len : h[n] = IF n = 0 THEN {p} ELSE {Step(q, data[n]) : q \in h[n - 1]}
    BY <1>3 DEF FedBy
<1> DEFINE S == {n \in Nat : n <= len => h[n] = {r[n]}}
<1>6. 0 \in S
    <2>1. 0 \in 0..len
        BY <1>1
    <2>2. h[0] = {p}
        BY <1>5, <2>1
    <2>3. r[0] = p
        BY DEF Runs
    <2> QED
        BY <2>2, <2>3
<1>7. ASSUME NEW n \in Nat, n \in S PROVE n + 1 \in S
    <2> SUFFICES ASSUME n + 1 <= len PROVE h[n + 1] = {r[n + 1]}
        OBVIOUS
    <2>1. n + 1 \in 0..len /\ n + 1 \in 1..len /\ n + 1 # 0 /\ (n + 1) - 1 = n
        BY <1>1
    <2>2. h[n] = {r[n]} /\ r[n + 1] = Step(r[n], data[n + 1])
        BY <1>1, <1>7, <2>1 DEF Runs
    <2>3. h[n + 1] = {Step(q, data[n + 1]) : q \in h[n]}
        BY <1>5, <2>1
    <2> QED
        BY <2>2, <2>3
<1>8. len \in S
    <2> HIDE DEF S
    <2> QED
        BY <1>1, <1>6, <1>7, NatSetInduction
<1> QED
    BY <1>4, <1>8

\* What the parser is after data.
After(p, data) == CHOOSE q : q \in Feed(p, data)

LEMMA FeedAfter ==
    ASSUME NEW p \in ParserType, NEW data \in Seq(Bytes)
    PROVE  Feed(p, data) = {After(p, data)} /\ After(p, data) \in ParserType
<1>1. PICK r : Runs(r, p, data)
    BY RunExists
<1>2. Feed(p, data) = {r[Len(data)]}
    BY <1>1, FeedIsRun
<1>3. r[Len(data)] \in ParserType
    <2>1. Len(data) \in 0..Len(data)
        OBVIOUS
    <2> QED
        BY <1>1, <2>1 DEF Runs
<1> DEFINE q == r[Len(data)]
<1> HIDE DEF q
<1>4. After(p, data) = q
    BY <1>2 DEF After, q
<1> QED
    BY <1>2, <1>3, <1>4 DEF q

LEMMA AfterNone ==
    ASSUME NEW p \in ParserType
    PROVE  After(p, <<>>) = p
<1> DEFINE none == <<>>
<1>1. none \in Seq(Bytes) /\ Len(none) = 0
    OBVIOUS
<1> HIDE DEF none
<1>2. PICK r : Runs(r, p, none)
    BY <1>1, RunExists
<1>3. Feed(p, none) = {r[0]} /\ r[0] = p
    BY <1>1, <1>2, FeedIsRun DEF Runs
<1>4. Feed(p, none) = {After(p, none)}
    BY <1>1, FeedAfter
<1>5. After(p, none) = p
    BY <1>3, <1>4
<1> QED
    BY <1>5 DEF none

LEMMA AfterAppend ==
    ASSUME NEW p \in ParserType, NEW data \in Seq(Bytes), NEW byte \in Bytes
    PROVE  After(p, Append(data, byte)) = Step(After(p, data), byte)
<1> DEFINE len == Len(data)
           more == Append(data, byte)
<1>1. /\ len \in Nat /\ more \in Seq(Bytes) /\ Len(more) = len + 1 /\ more[len + 1] = byte
      /\ \A n \in 1..len : more[n] = data[n]
    <2> DEFINE B == Bytes
    <2>1. data \in Seq(B) /\ byte \in B
        OBVIOUS
    <2> HIDE DEF B
    <2>2. /\ Len(data) \in Nat /\ Append(data, byte) \in Seq(B)
          /\ Len(Append(data, byte)) = Len(data) + 1 /\ Append(data, byte)[Len(data) + 1] = byte
          /\ \A n \in 1..Len(data) : Append(data, byte)[n] = data[n]
        BY <2>1
    <2> QED
        BY <2>2 DEF B
<1> HIDE DEF more
<1>2. PICK r : Runs(r, p, more)
    BY <1>1, RunExists
<1> DEFINE s == [n \in 0..len |-> r[n]]
<1>3. Runs(s, p, data)
    <2>1. \A n \in 0..len : s[n] = r[n] /\ r[n] \in ParserType
        BY <1>1, <1>2 DEF Runs
    <2>2. s \in [0..len -> ParserType]
        BY <2>1
    <2> HIDE DEF s
    <2>3. ASSUME NEW n \in 1..len PROVE s[n] = Step(s[n - 1], data[n])
        <3>1. n \in 1..(len + 1) /\ n - 1 \in 0..len /\ n \in 0..len
            BY <1>1
        <3>2. r[n] = Step(r[n - 1], more[n])
            BY <1>1, <1>2, <3>1 DEF Runs
        <3> QED
            BY <1>1, <2>1, <3>1, <3>2
    <2>4. s[0] = p
        <3>1. 0 \in 0..len
            BY <1>1
        <3> QED
            BY <1>2, <2>1, <3>1 DEF Runs
    <2> QED
        BY <2>2, <2>3, <2>4 DEF Runs
<1>4. s[len] = r[len]
    BY <1>1
<1> HIDE DEF s
<1>5. After(p, data) = r[len]
    <2>1. Feed(p, data) = {s[len]} /\ Feed(p, data) = {After(p, data)}
        BY <1>3, FeedIsRun, FeedAfter
    <2> QED
        BY <1>4, <2>1
<1>6. After(p, more) = r[len + 1]
    <2>1. Feed(p, more) = {r[len + 1]} /\ Feed(p, more) = {After(p, more)}
        BY <1>1, <1>2, FeedIsRun, FeedAfter
    <2> QED
        BY <2>1
<1>7. r[len + 1] = Step(r[len], byte)
    <2>1. len + 1 \in 1..(len + 1) /\ (len + 1) - 1 = len
        BY <1>1
    <2> QED
        BY <1>1, <1>2, <2>1 DEF Runs
<1> QED
    BY <1>5, <1>6, <1>7 DEF more

\* What holds of nothing, and of one byte more, holds of a sequence.
LEMMA BytesInduction ==
    ASSUME NEW S, <<>> \in S,
           \A d \in Seq(Bytes) : \A byte \in Bytes : d \in S => Append(d, byte) \in S
    PROVE  Seq(Bytes) \subseteq S
<1> SUFFICES ASSUME NEW t \in Seq(Bytes) PROVE t \in S
    OBVIOUS
<1> DEFINE B == Bytes
           T(n) == SubSeq(t, 1, n)
           N == {n \in Nat : n <= Len(t) => T(n) \in S}
<1>1. Len(t) \in Nat /\ t \in Seq(B)
    OBVIOUS
<1>2. 0 \in N
    <2>1. T(0) = <<>>
        OBVIOUS
    <2> QED
        BY <2>1
<1>3. ASSUME NEW n \in Nat, n \in N PROVE n + 1 \in N
    <2> SUFFICES ASSUME n + 1 <= Len(t) PROVE T(n + 1) \in S
        OBVIOUS
    <2>1. T(n) \in S
        BY <1>1, <1>3
    <2> HIDE DEF B
    <2>2. T(n) \in Seq(B) /\ T(n + 1) = Append(T(n), t[n + 1]) /\ t[n + 1] \in B
        BY <1>1
    <2> HIDE DEF T
    <2> QED
        BY <2>1, <2>2 DEF B
<1>4. Len(t) \in N
    <2> HIDE DEF N
    <2> QED
        BY <1>1, <1>2, <1>3, NatSetInduction
<1>5. T(Len(t)) = t
    <2> HIDE DEF B
    <2> QED
        BY <1>1
<1>6. T(Len(t)) \in S
    BY <1>4, <1>1
<1> HIDE DEF T
<1> QED
    BY <1>5, <1>6

LEMMA AfterConcat ==
    ASSUME NEW p \in ParserType, NEW a \in Seq(Bytes), NEW b \in Seq(Bytes)
    PROVE  After(p, a \o b) = After(After(p, a), b)
<1> DEFINE q == After(p, a)
           S == {d \in Seq(Bytes) : After(p, a \o d) = After(q, d)}
<1>1. q \in ParserType
    BY FeedAfter
<1> HIDE DEF q
<1>2. <<>> \in S
    <2>1. a \o <<>> = a /\ <<>> \in Seq(Bytes)
        OBVIOUS
    <2> QED
        BY <1>1, <2>1, AfterNone DEF q
<1>3. ASSUME NEW d \in Seq(Bytes), NEW byte \in Bytes, d \in S PROVE Append(d, byte) \in S
    <2>1. a \o d \in Seq(Bytes) /\ Append(d, byte) \in Seq(Bytes)
        OBVIOUS
    <2>2. a \o Append(d, byte) = Append(a \o d, byte)
        BY AppendAssociates
    <2>3. After(p, a \o d) = After(q, d)
        BY <1>3
    <2>4. After(p, Append(a \o d, byte)) = Step(After(p, a \o d), byte)
        BY <2>1, AfterAppend
    <2>5. After(q, Append(d, byte)) = Step(After(q, d), byte)
        BY <1>1, AfterAppend
    <2> QED
        BY <2>1, <2>2, <2>3, <2>4, <2>5
<1>4. Seq(Bytes) \subseteq S
    <2> HIDE DEF S
    <2> QED
        BY <1>2, <1>3, BytesInduction
<1>5. After(p, a \o b) = After(q, b)
    BY <1>4
<1> QED
    BY <1>5 DEF q

\* What was given out before stays in front.
LEMMA AfterBefore ==
    ASSUME NEW p \in ParserType, NEW o \in Seq(KeyEventType), NEW b \in Seq(Bytes)
    PROVE  After(Before(o, p), b) = Before(o, After(p, b))
<1> DEFINE c == Before(o, p)
           S == {d \in Seq(Bytes) : After(c, d) = Before(o, After(p, d))}
<1>1. c \in ParserType
    BY BeforeFields
<1> HIDE DEF c
<1>2. <<>> \in S
    <2>1. <<>> \in Seq(Bytes)
        OBVIOUS
    <2> QED
        BY <1>1, <2>1, AfterNone DEF c
<1>3. ASSUME NEW d \in Seq(Bytes), NEW byte \in Bytes, d \in S PROVE Append(d, byte) \in S
    <2> DEFINE q == After(p, d)
    <2>1. q \in ParserType /\ Append(d, byte) \in Seq(Bytes)
        BY FeedAfter
    <2>2. After(c, d) = Before(o, q)
        BY <1>3
    <2>3. After(p, Append(d, byte)) = Step(q, byte)
        BY AfterAppend
    <2>4. After(c, Append(d, byte)) = Step(Before(o, q), byte)
        BY <1>1, <2>2, AfterAppend
    <2> HIDE DEF q, S
    <2>5. Step(Before(o, q), byte) = Before(o, Step(q, byte))
        BY <2>1, StepPlain DEF Plain
    <2> QED
        BY <2>1, <2>3, <2>4, <2>5 DEF S
<1>4. Seq(Bytes) \subseteq S
    <2> HIDE DEF S
    <2> QED
        BY <1>2, <1>3, BytesInduction
<1>5. After(c, b) = Before(o, After(p, b))
    BY <1>4
<1> QED
    BY <1>5 DEF c

\* What the parser has once its out is taken, and what it had.
LEMMA DrainedBefore ==
    ASSUME NEW p \in ParserType
    PROVE  /\ Drained(p) \in ParserType /\ Drained(p).state = p.state
           /\ Drained(p).left = p.left /\ Drained(p).buf = p.buf /\ Drained(p).out = <<>>
           /\ p.out \in Seq(KeyEventType) /\ p = Before(p.out, Drained(p))
<1> DEFINE d == Drained(p)
           none == <<>>
<1>1. none \in Seq(KeyEventType) /\ p.out \in Seq(KeyEventType)
    BY DEF ParserType
<1>2. d = [p EXCEPT !.out = none]
    BY DEF Drained
<1>3. p.out \o none = p.out
    BY <1>1
<1> HIDE DEF d, none
<1>4. /\ d \in ParserType /\ d.state = p.state /\ d.left = p.left /\ d.buf = p.buf
      /\ d.out = none
    BY <1>1, <1>2 DEF ParserType
<1>5. /\ Before(p.out, d) \in ParserType /\ Before(p.out, d).state = p.state
      /\ Before(p.out, d).left = p.left /\ Before(p.out, d).buf = p.buf
      /\ Before(p.out, d).out = p.out
    BY <1>1, <1>3, <1>4, BeforeFields
<1>6. p = Before(p.out, d)
    BY <1>5, SameParser
<1> QED
    BY <1>1, <1>4, <1>6 DEF d, none

-----------------------------------------------------------------------------
(* The kinds of a sequence of events.                                      *)

LEMMA KindsOfEvents ==
    ASSUME NEW s \in Seq(KeyEventType)
    PROVE  /\ Kinds(s) \in Seq(KindType) /\ Len(Kinds(s)) = Len(s)
           /\ \A i \in 1..Len(s) : Kinds(s)[i] = s[i].kind
<1>0. \A e \in KeyEventType : e.kind \in KindType
    BY DEF KeyEventType
<1>1. /\ Len(s) \in Nat /\ DOMAIN s = 1..Len(s)
      /\ \A i \in 1..Len(s) : s[i].kind \in KindType
    BY <1>0
<1>2. Kinds(s) = [i \in 1..Len(s) |-> s[i].kind]
    BY <1>1 DEF Kinds
<1>3. Kinds(s) \in [1..Len(s) -> KindType]
    BY <1>1, <1>2
<1> QED
    BY <1>1, <1>2, <1>3

LEMMA KindsConcat ==
    ASSUME NEW s \in Seq(KeyEventType), NEW t \in Seq(KeyEventType)
    PROVE  Kinds(s \o t) = Kinds(s) \o Kinds(t)
<1> DEFINE E == KeyEventType
           K == KindType
           m == Len(s)
           n == Len(t)
           u == s \o t
           ks == Kinds(s)
           kt == Kinds(t)
           ku == Kinds(u)
<1>1. s \in Seq(E) /\ t \in Seq(E) /\ m \in Nat /\ n \in Nat
    OBVIOUS
<1>2. u \in Seq(E) /\ Len(u) = m + n
      /\ \A i \in 1..(m + n) : u[i] = IF i <= m THEN s[i] ELSE t[i - m]
    <2> HIDE DEF E
    <2> QED
        BY <1>1, ConcatProperties
<1> HIDE DEF u
<1>3. /\ ks \in Seq(K) /\ Len(ks) = m /\ \A i \in 1..m : ks[i] = s[i].kind
      /\ kt \in Seq(K) /\ Len(kt) = n /\ \A i \in 1..n : kt[i] = t[i].kind
      /\ ku \in Seq(K) /\ Len(ku) = m + n /\ \A i \in 1..(m + n) : ku[i] = u[i].kind
    BY <1>2, KindsOfEvents
<1> HIDE DEF E, K, ks, kt, ku, m, n
<1>4. /\ ks \o kt \in Seq(K) /\ Len(ks \o kt) = m + n
      /\ \A i \in 1..(m + n) : (ks \o kt)[i] = IF i <= m THEN ks[i] ELSE kt[i - m]
    BY <1>3, ConcatProperties
<1>5. ASSUME NEW i \in 1..(m + n) PROVE ku[i] = (ks \o kt)[i]
    <2>1. CASE i <= m
        <3>1. i \in 1..m
            BY <1>1, <2>1
        <3> QED
            BY ZenonT(60), <1>2, <1>3, <1>4, <2>1, <3>1
    <2>2. CASE ~(i <= m)
        <3>1. i - m \in 1..n
            BY <1>1, <2>2
        <3> QED
            BY ZenonT(60), <1>2, <1>3, <1>4, <2>2, <3>1
    <2> QED
        BY <2>1, <2>2
<1>6. ku = ks \o kt
    BY <1>1, <1>3, <1>4, <1>5, SeqEqual
<1> QED
    BY <1>6 DEF ku, ks, kt, u

LEMMA KindsFew ==
    /\ Kinds(<<>>) = <<>>
    /\ \A e \in KeyEventType : Kinds(<<e>>) = <<e.kind>>
<1>1. Kinds(<<>>) = <<>>
    <2>1. [i \in DOMAIN <<>> |-> <<>>[i].kind] = <<>>
        OBVIOUS
    <2> QED
        BY <2>1 DEF Kinds
<1>2. ASSUME NEW e \in KeyEventType PROVE Kinds(<<e>>) = <<e.kind>>
    <2> DEFINE s == <<e>>
               K == KindType
    <2>1. s \in Seq(KeyEventType) /\ Len(s) = 1 /\ s[1] = e /\ e.kind \in K
        BY DEF KeyEventType
    <2> HIDE DEF s
    <2>2. Kinds(s) \in Seq(K) /\ Len(Kinds(s)) = 1 /\ Kinds(s)[1] = e.kind
        BY <2>1, KindsOfEvents
    <2> HIDE DEF K
    <2>3. Kinds(s) = <<e.kind>>
        BY <2>1, <2>2
    <2> QED
        BY <2>3 DEF s
<1> QED
    BY <1>1, <1>2

LEMMA KindsAssociate ==
    ASSUME NEW a \in Seq(KindType), NEW b \in Seq(KindType), NEW c \in Seq(KindType)
    PROVE  (a \o b) \o c = a \o (b \o c)
<1> DEFINE B == KindType
<1> HIDE DEF B
<1>1. a \in Seq(B) /\ b \in Seq(B) /\ c \in Seq(B)
    BY DEF B
<1> QED
    BY <1>1, ConcatAssociative

-----------------------------------------------------------------------------
(* What a unit gives when nothing else is typed.                           *)

Alone(raw) == Kinds(Flush(After(NewParser, raw)).out)

UnitsRecognised == \A u \in Units : u.kinds = Alone(u.raw)

LEMMA NewParserType ==
    /\ NewParser \in ParserType /\ NewParser.state = "Ground" /\ NewParser.left = 0
    /\ NewParser.buf = <<>> /\ NewParser.out = <<>> /\ ParserInv(NewParser)
<1>1. <<>> \in Seq(Bytes) /\ <<>> \in Seq(KeyEventType) /\ 0 \in 0..3 /\ ~(0 > 0)
    OBVIOUS
<1>2. NewParser = [state |-> "Ground", left |-> 0, buf |-> <<>>, out |-> <<>>]
    BY DEF NewParser
<1> QED
    BY <1>1, <1>2 DEF ParserType, ParserStates, ParserInv

\* What a flush gives out is a sequence of events.
LEMMA FlushType ==
    ASSUME NEW p \in ParserType
    PROVE  Flush(p) \in ParserType /\ Flush(p).out \in Seq(KeyEventType)
<1> DEFINE o == <<>>
<1>1. o \in Seq(KeyEventType)
    OBVIOUS
<1> HIDE DEF o
<1>2. Flush(p) \in ParserType
    BY <1>1, FlushPlain DEF Plain
<1> QED
    BY <1>2 DEF ParserType

LEMMA FlushedBefore ==
    ASSUME NEW p \in ParserType, NEW o \in Seq(KeyEventType)
    PROVE  Flush(Before(o, p)).out = o \o Flush(p).out
<1> DEFINE f == Flush(p)
<1>1. f \in ParserType /\ Flush(Before(o, p)) = Before(o, f)
    BY FlushPlain DEF Plain
<1> HIDE DEF f
<1>2. Before(o, f).out = o \o f.out
    BY <1>1, BeforeFields
<1> QED
    BY <1>1, <1>2 DEF f

LEMMA AloneType ==
    ASSUME NEW raw \in Seq(Bytes)
    PROVE  Alone(raw) \in Seq(KindType)
<1>1. After(NewParser, raw) \in ParserType
    BY NewParserType, FeedAfter
<1>2. Flush(After(NewParser, raw)).out \in Seq(KeyEventType)
    BY <1>1, FlushType
<1> QED
    BY <1>2, KindsOfEvents DEF Alone

LEMMA KindsTypedAppend ==
    ASSUME UnitsRecognised, entered \in Seq(Units), NEW unit \in Units,
           entered' = Append(entered, unit)
    PROVE  /\ KindsTyped' = KindsTyped \o unit.kinds
           /\ KindsTyped \in Seq(KindType) /\ unit.kinds \in Seq(KindType)
<1> DEFINE K == KindType
           U == Units
           s == entered
           ss == [i \in DOMAIN s |-> s[i].kinds]
           tt == [i \in DOMAIN Append(s, unit) |-> Append(s, unit)[i].kinds]
<1>1. \A u \in U : u.kinds \in Seq(K)
    BY ReaderAssumption, AloneType DEF UnitsRecognised
<1>2. /\ Len(s) \in Nat /\ DOMAIN s = 1..Len(s) /\ s \in Seq(U) /\ unit \in U
      /\ \A i \in 1..Len(s) : s[i] \in U
    OBVIOUS
<1> HIDE DEF K, U
<1>3. /\ DOMAIN Append(s, unit) = 1..(Len(s) + 1)
      /\ Append(s, unit)[Len(s) + 1] = unit
      /\ \A i \in 1..Len(s) : Append(s, unit)[i] = s[i]
    BY <1>2
<1>4. ss \in Seq(Seq(K)) /\ Len(ss) = Len(s)
    <2>1. ss \in [1..Len(s) -> Seq(K)]
        BY <1>1, <1>2
    <2> HIDE DEF ss
    <2> QED
        BY <1>2, <2>1
<1>5. tt = Append(ss, unit.kinds)
    <2>1. DOMAIN tt = 1..(Len(s) + 1) /\ DOMAIN Append(ss, unit.kinds) = 1..(Len(s) + 1)
        BY <1>2, <1>3, <1>4
    <2>2. ASSUME NEW i \in 1..(Len(s) + 1) PROVE tt[i] = Append(ss, unit.kinds)[i]
        <3>1. tt[i] = Append(s, unit)[i].kinds
            BY <1>3
        <3>2. CASE i = Len(s) + 1
            BY <1>2, <1>3, <1>4, <3>1, <3>2
        <3>3. CASE i \in 1..Len(s)
            <4>1. Append(s, unit)[i] = s[i] /\ ss[i] = s[i].kinds
                BY <1>2, <1>3, <3>3
            <4>2. Append(ss, unit.kinds)[i] = ss[i]
                BY <1>4, <3>3
            <4> QED
                BY <3>1, <4>1, <4>2
        <3> QED
            BY <1>2, <3>2, <3>3
    <2>3. tt = [i \in 1..(Len(s) + 1) |-> tt[i]]
        BY <1>3
    <2>4. Append(ss, unit.kinds) = [i \in 1..(Len(s) + 1) |-> Append(ss, unit.kinds)[i]]
        BY <1>4
    <2> HIDE DEF ss, tt
    <2> QED
        BY <2>1, <2>2, <2>3, <2>4
<1>6. KindsTyped = FlattenSeq(ss) /\ KindsTyped' = FlattenSeq(tt)
    BY DEF KindsTyped
<1>7. unit.kinds \in Seq(K)
    BY <1>1, <1>2
<1> HIDE DEF ss, tt
<1>8. /\ FlattenSeq(Append(ss, unit.kinds)) = FlattenSeq(ss) \o unit.kinds
      /\ FlattenSeq(ss) \in Seq(K)
    BY <1>4, <1>7, FlattenAppend
<1> QED
    BY <1>5, <1>6, <1>7, <1>8 DEF K

-----------------------------------------------------------------------------
(* The invariant.                                                          *)

\* The parser once all that was typed has been read.
Coming == After(parser, tty \o line)

Alike(p, q) == p.state = q.state /\ p.left = q.left /\ p.buf = q.buf

\* What was got and what is still to come are the keys typed.
KindsMatch == Kinds(Got) \o Kinds(Flush(Coming).out) = KindsTyped

\* In the end the parser is in Ground, or where the last unit alone leaves it.
EndsOpen ==
    \/ Coming.state = "Ground"
    \/ entered # <<>> /\ Alike(Coming, After(NewParser, Last(entered).raw))

\* Before the first byte of a unit the parser is in Ground, or in the first of
\* two Escapes.
BeginsFresh ==
    line # <<>> =>
        /\ entered # <<>> /\ Len(line) <= Len(Last(entered).raw)
        /\ line = Last(entered).raw =>
               \/ After(parser, tty).state = "Ground"
               \/ After(parser, tty).state = "EscReceived" /\ line = <<"esc">>

KeysInv == ReaderInv /\ (~torn => KindsMatch /\ EndsOpen /\ BeginsFresh)

\* Where the parser gets to is a state it can be in.
LEMMA ComingInv ==
    ASSUME ReaderInv
    PROVE  /\ parser \in ParserType /\ tty \in Seq(Bytes) /\ line \in Seq(Bytes)
           /\ ParserInv(After(parser, tty)) /\ ParserInv(Coming)
<1> DEFINE R == Raws(Got)
           H == Held(parser)
<1>1. /\ R \in Seq(Bytes) /\ H \in Seq(Bytes) /\ tty \in Seq(Bytes) /\ line \in Seq(Bytes)
      /\ Given(parser) = H /\ ((R \o H) \o tty) \o line = Raws(entered)
      /\ parser \in ParserType /\ ParserInv(parser) /\ Raws(entered) \in Seq(Bytes)
    BY ReaderFacts DEF ReaderInv, BytesMatch, ParserInv
<1>2. Marked(Raws(entered))
    BY <1>1, WellFormedMarked DEF ReaderInv
<1> HIDE DEF R, H
<1>3. H \o tty \in Seq(Bytes) /\ tty \o line \in Seq(Bytes) /\ R \o H \in Seq(Bytes)
      /\ H \o (tty \o line) \in Seq(Bytes)
    BY <1>1
<1>4. Marked(H \o tty)
    <2>1. (R \o H) \o tty = R \o (H \o tty)
        BY ZenonT(60), <1>1, BytesAssociate
    <2>2. Marked((R \o (H \o tty)) \o line)
        BY <1>1, <1>2, <2>1
    <2> QED
        BY <1>1, <1>3, <2>2, MarkedPart
<1>5. Marked(H \o (tty \o line))
    <2> DEFINE none == <<>>
               W == H \o (tty \o line)
    <2>1. ((R \o H) \o tty) \o line = (R \o H) \o (tty \o line)
        <3>1. R \o H \in Seq(Bytes) /\ tty \in Seq(Bytes) /\ line \in Seq(Bytes)
            BY <1>1, <1>3
        <3> QED
            BY <3>1, BytesAssociate
    <2>2. (R \o H) \o (tty \o line) = R \o W
        <3>1. R \in Seq(Bytes) /\ H \in Seq(Bytes) /\ tty \o line \in Seq(Bytes)
            BY <1>1, <1>3
        <3> QED
            BY <3>1, BytesAssociate
    <2>3. W \in Seq(Bytes)
        BY <1>3
    <2> HIDE DEF W
    <2>4. R \o W \in Seq(Bytes) /\ none \in Seq(Bytes) /\ (R \o W) \o none = R \o W
        BY <1>1, <2>3
    <2>5. Marked((R \o W) \o none)
        BY <1>1, <1>2, <2>1, <2>2, <2>4
    <2> HIDE DEF none
    <2>6. Marked(W)
        BY <1>1, <2>3, <2>4, <2>5, MarkedPart
    <2> QED
        BY <2>6 DEF W
<1>6. ASSUME NEW d \in Seq(Bytes), Marked(H \o d)
      PROVE  ParserInv(After(parser, d))
    <2>1. Feed(parser, d) = {After(parser, d)}
        BY <1>1, FeedAfter
    <2>2. Marked(Given(parser) \o d)
        BY <1>1, <1>6
    <2>3. \A fed \in Feed(parser, d) : TakesAll(parser, fed, d)
        BY <1>1, <2>2, FeedTakes
    <2> QED
        BY <2>1, <2>3 DEF TakesAll
<1> QED
    BY <1>1, <1>3, <1>4, <1>5, <1>6 DEF Coming

\* In Ground nothing is held.
LEMMA FreshIsNew ==
    ASSUME NEW p, ParserInv(p), p.state = "Ground"
    PROVE  /\ p \in ParserType /\ p.out \in Seq(KeyEventType)
           /\ p = Before(p.out, NewParser) /\ Flush(p) = p
<1>1. p \in ParserType /\ p.left = 0 /\ p.buf = <<>> /\ p.out \in Seq(KeyEventType)
    BY LeftOf DEF ParserInv, ParserType
<1>2. /\ Before(p.out, NewParser) \in ParserType /\ Before(p.out, NewParser).state = "Ground"
      /\ Before(p.out, NewParser).left = 0 /\ Before(p.out, NewParser).buf = <<>>
      /\ Before(p.out, NewParser).out = p.out \o <<>>
    BY ZenonT(60), <1>1, NewParserType, BeforeFields
<1>3. p.out \o <<>> = p.out
    BY <1>1
<1>4. p = Before(p.out, NewParser)
    BY <1>1, <1>2, <1>3, SameParser
<1> QED
    BY <1>1, <1>4 DEF Flush

\* A chunk read moves what is to come into what was got.
LEMMA ReadMovesOn ==
    ASSUME ReaderInv, NEW fed \in Feed(parser, SubSeq(tty, 1, Chunk)), ReadAndFeed(fed)
    PROVE  /\ fed.out \in Seq(KeyEventType)
           /\ Coming' \in ParserType /\ Coming = Before(fed.out, Coming')
           /\ LET q == After(parser', tty')
              IN  q \in ParserType /\ After(parser, tty) = Before(fed.out, q)
<1> DEFINE c == SubSeq(tty, 1, Chunk)
           t == SubSeq(tty, Chunk + 1, Len(tty))
           d == Drained(fed)
           o == fed.out
<1>1. /\ c \in Seq(Bytes) /\ t \in Seq(Bytes) /\ c \o t = tty /\ line \in Seq(Bytes)
      /\ parser \in ParserType
    BY ChunkTaken, ComingInv
<1>2. fed = After(parser, c) /\ fed \in ParserType
    <2>1. fed \in Feed(parser, c)
        OBVIOUS
    <2> HIDE DEF c
    <2> QED
        BY <1>1, <2>1, FeedAfter
<1>3. tty' = t /\ parser' = d /\ line' = line
    BY DEF ReadAndFeed
<1>4. d \in ParserType /\ o \in Seq(KeyEventType) /\ fed = Before(o, d)
    BY <1>2, DrainedBefore
<1> HIDE DEF c, t, d, o
<1>5. ASSUME NEW b \in Seq(Bytes)
      PROVE  After(d, b) \in ParserType /\ After(parser, c \o b) = Before(o, After(d, b))
    <2>1. After(parser, c \o b) = After(fed, b)
        BY <1>1, <1>2, AfterConcat
    <2>2. After(Before(o, d), b) = Before(o, After(d, b))
        BY <1>4, AfterBefore
    <2> QED
        BY <1>4, <2>1, <2>2, FeedAfter
<1>6. c \o (t \o line) = tty \o line /\ t \o line \in Seq(Bytes)
    <2>1. (c \o t) \o line = c \o (t \o line)
        BY <1>1, BytesAssociate
    <2>2. t \o line \in Seq(Bytes)
        BY <1>1
    <2> QED
        BY <1>1, <2>1, <2>2
<1>7. Coming' = After(d, t \o line)
    BY <1>3 DEF Coming
<1>8. Coming' \in ParserType /\ Coming = Before(o, Coming')
    BY <1>5, <1>6, <1>7 DEF Coming
<1>9. After(parser', tty') \in ParserType /\ After(parser, tty) = Before(o, After(parser', tty'))
    BY <1>1, <1>3, <1>5
<1> QED
    BY <1>4, <1>8, <1>9 DEF o

LEMMA ReadKeepsKeys ==
    ASSUME KeysInv, NEW fed \in Feed(parser, SubSeq(tty, 1, Chunk)), ReadAndFeed(fed),
           ReaderInv', Got' = Got \o fed.out
    PROVE  KeysInv'
<1> DEFINE o == fed.out
           q == After(parser', tty')
           C == Coming'
<1>1. /\ o \in Seq(KeyEventType) /\ C \in ParserType /\ Coming = Before(o, C)
      /\ q \in ParserType /\ After(parser, tty) = Before(o, q)
    BY ReadMovesOn DEF KeysInv
<1>2. UNCHANGED <<line, entered, torn>> /\ KindsTyped' = KindsTyped
    BY DEF ReadAndFeed, KindsTyped
<1>3. Got \in Seq(KeyEventType)
    BY ReaderFacts DEF KeysInv
<1> SUFFICES ASSUME ~torn PROVE KindsMatch' /\ EndsOpen' /\ BeginsFresh'
    BY <1>2 DEF KeysInv
<1>4. KindsMatch /\ EndsOpen /\ BeginsFresh
    BY DEF KeysInv
<1> HIDE DEF o, q, C
<1>5. KindsMatch'
    <2> DEFINE f == Flush(C).out
    <2>1. f \in Seq(KeyEventType) /\ Flush(Coming).out = o \o f
        BY <1>1, FlushType, FlushedBefore
    <2> DEFINE g == Got
    <2> HIDE DEF f, g
    <2>2. Kinds(g \o o) = Kinds(g) \o Kinds(o) /\ Kinds(o \o f) = Kinds(o) \o Kinds(f)
        BY <1>1, <1>3, <2>1, KindsConcat DEF g
    <2>3. Kinds(g) \in Seq(KindType) /\ Kinds(o) \in Seq(KindType) /\ Kinds(f) \in Seq(KindType)
        BY <1>1, <1>3, <2>1, KindsOfEvents DEF g
    <2>4. (Kinds(g) \o Kinds(o)) \o Kinds(f) = Kinds(g) \o (Kinds(o) \o Kinds(f))
        BY <2>3, KindsAssociate
    <2>5. Kinds(g) \o Kinds(o \o f) = KindsTyped
        BY <1>4, <2>1 DEF KindsMatch, g
    <2>6. Kinds(g \o o) \o Kinds(f) = KindsTyped
        BY <2>2, <2>4, <2>5
    <2> QED
        BY <1>2, <2>6 DEF KindsMatch, f, g, o, C
<1>6. EndsOpen'
    <2>1. Coming.state = C.state /\ Coming.left = C.left /\ Coming.buf = C.buf
        BY <1>1, BeforeFields
    <2>2. C.state = "Ground" \/ (entered # <<>> /\ Alike(C, After(NewParser, Last(entered).raw)))
        BY <1>4, <2>1 DEF EndsOpen, Alike
    <2> QED
        BY <1>2, <2>2 DEF EndsOpen, C
<1>7. BeginsFresh'
    <2>1. After(parser, tty).state = q.state
        BY <1>1, BeforeFields
    <2> QED
        BY <1>2, <1>4, <2>1 DEF BeginsFresh, q
<1> QED
    BY <1>5, <1>6, <1>7

LEMMA ArriveKeepsKeys ==
    ASSUME KeysInv, Arrive
    PROVE  KeysInv'
<1>1. ReaderInv'
    BY ArriveKeeps DEF KeysInv
<1>2. PICK n \in 1..Len(line) :
          /\ tty' = tty \o SubSeq(line, 1, n)
          /\ line' = SubSeq(line, n + 1, Len(line))
    BY DEF Arrive
<1>3. UNCHANGED <<parser, pending, delivered, entered, torn>>
    BY DEF Arrive
<1> SUFFICES ASSUME ~torn PROVE KindsMatch' /\ EndsOpen' /\ BeginsFresh'
    BY <1>1, <1>3 DEF KeysInv
<1>4. KindsMatch /\ EndsOpen /\ BeginsFresh
    BY DEF KeysInv
<1>5. line \in Seq(Bytes) /\ tty \in Seq(Bytes)
    BY ReaderFacts DEF KeysInv
<1>6. tty' \o line' = tty \o line
    <2> DEFINE a == SubSeq(line, 1, n)
               b == SubSeq(line, n + 1, Len(line))
    <2>1. a \in Seq(Bytes) /\ b \in Seq(Bytes) /\ a \o b = line
        <3>1. n \in 0..Len(line)
            BY <1>5
        <3> QED
            BY <1>5, <3>1, SplitAt
    <2>2. tty' = tty \o a /\ line' = b
        BY <1>2
    <2> HIDE DEF a, b
    <2>3. (tty \o a) \o b = tty \o (a \o b)
        BY <1>5, <2>1, BytesAssociate
    <2> QED
        BY <2>1, <2>2, <2>3
<1>7. Coming' = Coming /\ Got' = Got /\ KindsTyped' = KindsTyped
    BY <1>3, <1>6 DEF Coming, Got, KindsTyped
<1>8. KindsMatch' /\ EndsOpen'
    BY <1>3, <1>4, <1>7 DEF KindsMatch, EndsOpen
<1>9. BeginsFresh'
    <2>1. Len(line') < Len(line) /\ Len(line) \in Nat /\ line # <<>>
        BY <1>2, <1>5
    <2>2. entered # <<>> /\ Len(line) <= Len(Last(entered).raw)
        BY <1>4, <2>1 DEF BeginsFresh
    <2>3. entered \in Seq(Units)
        BY DEF KeysInv, ReaderInv, ReaderType
    <2>4. Last(entered) \in Units
        BY <2>2, <2>3 DEF Last
    <2>5. Len(Last(entered).raw) \in Nat
        BY <2>4, UnitsHaveRaws DEF HasRaws
    <2>6. Len(line') \in Nat
        BY <1>1, ReaderFacts
    <2>7. Len(line') <= Len(Last(entered).raw) /\ line' # Last(entered).raw
        BY <2>1, <2>2, <2>5, <2>6
    <2> QED
        BY <1>3, <2>2, <2>7 DEF BeginsFresh
<1> QED
    BY <1>8, <1>9
-----------------------------------------------------------------------------
(* Two Escapes, and a unit behind another.                                 *)

Esc == <<"esc">>

EscapeEvent == [raw |-> Esc, kind |-> Kind("Escape")]

LEMMA EscType ==
    /\ Esc \in Seq(Bytes) /\ Kind("Escape") \in KindType /\ EscapeEvent \in KeyEventType
    /\ EscapeEvent.kind = Kind("Escape")
<1>1. Esc \in Seq(Bytes)
    BY DEF Esc, Bytes
<1>2. Kind("Escape") \in KindType
    BY KindsType DEF Keys
<1> QED
    BY <1>1, <1>2 DEF EscapeEvent, KeyEventType

\* A parser in the first of two Escapes: flushed, and given the second.
LEMMA EscapeTwice ==
    ASSUME NEW p, ParserInv(p), p.state = "EscReceived"
    PROVE  /\ p \in ParserType /\ p.buf = Esc /\ p.left = 0 /\ p.out \in Seq(KeyEventType)
           /\ Flush(p).out = Append(p.out, EscapeEvent)
           /\ After(p, Esc) \in ParserType
           /\ After(p, Esc).state = "EscReceived" /\ After(p, Esc).left = 0
           /\ After(p, Esc).buf = Esc
           /\ After(p, Esc).out = Append(p.out, EscapeEvent)
           /\ Flush(After(p, Esc)).out = Append(Append(p.out, EscapeEvent), EscapeEvent)
<1> DEFINE e == Emit(p, Esc, Kind("Escape"))
           q == [e EXCEPT !.state = "EscReceived", !.buf = Esc]
           none == <<>>
<1>1. p \in ParserType /\ p.buf = Esc /\ p.left = 0 /\ p.out \in Seq(KeyEventType)
    BY LeftOf DEF ParserInv, ParserType, Esc
<1>2. /\ e \in ParserType /\ e.left = 0 /\ e.out = Append(p.out, EscapeEvent)
    BY <1>1, EscType, EmitType DEF EscapeEvent
<1>3. Flush(p) = e
    BY DEF Flush, Esc
<1>4. After(p, Esc) = q
    <2>1. none \in Seq(Bytes) /\ Append(none, "esc") = Esc /\ "esc" \in Bytes
        BY DEF Esc, Bytes
    <2> HIDE DEF none
    <2>2. After(p, Append(none, "esc")) = Step(After(p, none), "esc")
        BY <1>1, <2>1, AfterAppend
    <2>3. After(p, none) = p
        BY <1>1, AfterNone DEF none
    <2>4. Step(p, "esc") = EscReceived(p, "esc")
        BY DEF Step
    <2>5. EscReceived(p, "esc") = q
        BY <2>1, EscReceivedArms DEF Esc
    <2> QED
        BY <2>1, <2>2, <2>3, <2>4, <2>5
<1>5. /\ q \in ParserType /\ q.state = "EscReceived" /\ q.left = 0 /\ q.buf = Esc
      /\ q.out = e.out
    <2>1. "EscReceived" \in ParserStates /\ Esc \in Seq(Bytes)
        BY EscType DEF ParserStates
    <2> HIDE DEF e
    <2> QED
        BY <1>2, <2>1 DEF ParserType
<1> HIDE DEF q, e
<1>6. Flush(q).out = Append(q.out, EscapeEvent)
    <2>1. Flush(q) = Emit(q, Esc, Kind("Escape"))
        BY <1>5 DEF Flush, Esc
    <2> QED
        BY <1>5, <2>1, EscType, EmitType DEF EscapeEvent
<1> QED
    BY <1>1, <1>2, <1>3, <1>4, <1>5, <1>6

\* What a lone Escape leaves and gives.
LEMMA EscapeAlone ==
    /\ Alone(Esc) = <<Kind("Escape")>>
    /\ After(NewParser, Esc) \in ParserType
    /\ After(NewParser, Esc).state = "EscReceived" /\ After(NewParser, Esc).left = 0
    /\ After(NewParser, Esc).buf = Esc /\ After(NewParser, Esc).out = <<>>
<1> DEFINE none == <<>>
           q == [NewParser EXCEPT !.state = "EscReceived", !.buf = Esc]
<1>1. After(NewParser, Esc) = q
    <2>1. none \in Seq(Bytes) /\ Append(none, "esc") = Esc /\ "esc" \in Bytes
        BY DEF Esc, Bytes
    <2> HIDE DEF none
    <2>2. After(NewParser, Append(none, "esc")) = Step(After(NewParser, none), "esc")
        BY <2>1, NewParserType, AfterAppend
    <2>3. After(NewParser, none) = NewParser
        BY NewParserType, AfterNone DEF none
    <2>4. Step(NewParser, "esc") = Ground(NewParser, "esc")
        BY NewParserType DEF Step
    <2>5. Ground(NewParser, "esc") = q
        BY LeadBytes DEF Ground, Esc
    <2> QED
        BY <2>1, <2>2, <2>3, <2>4, <2>5
<1>2. /\ q \in ParserType /\ q.state = "EscReceived" /\ q.left = 0 /\ q.buf = Esc
      /\ q.out = none
    <2>1. "EscReceived" \in ParserStates /\ Esc \in Seq(Bytes)
        BY EscType DEF ParserStates
    <2> QED
        BY <2>1, NewParserType DEF ParserType
<1> HIDE DEF q
<1>3. Flush(q).out = <<EscapeEvent>>
    <2>1. Flush(q) = Emit(q, Esc, Kind("Escape"))
        BY <1>2 DEF Flush, Esc
    <2>2. Emit(q, Esc, Kind("Escape")).out = Append(q.out, EscapeEvent)
        BY <1>2, EscType, EmitType DEF EscapeEvent
    <2> QED
        BY <1>2, <2>1, <2>2
<1>4. Kinds(<<EscapeEvent>>) = <<Kind("Escape")>>
    BY EscType, KindsFew
<1> QED
    BY <1>1, <1>2, <1>3, <1>4 DEF Alone

LEMMA KindsAppend ==
    ASSUME NEW s \in Seq(KeyEventType), NEW e \in KeyEventType
    PROVE  Kinds(Append(s, e)) = Kinds(s) \o <<e.kind>> /\ e.kind \in KindType
<1> DEFINE E == KeyEventType
           t == <<e>>
<1>1. t \in Seq(KeyEventType) /\ e.kind \in KindType
    BY DEF KeyEventType
<1>2. Append(s, e) = s \o t
    <2> HIDE DEF E
    <2>1. s \in Seq(E) /\ e \in E
        BY DEF E
    <2> QED
        BY <2>1
<1> HIDE DEF t
<1>3. Kinds(s \o t) = Kinds(s) \o Kinds(t)
    BY <1>1, KindsConcat
<1>4. Kinds(t) = <<e.kind>>
    BY KindsFew DEF t
<1> QED
    BY <1>1, <1>2, <1>3, <1>4

-----------------------------------------------------------------------------
(* Every step keeps the invariant of the keys.                            *)

LEMMA TypeUnitKeepsKeys ==
    ASSUME UnitsRecognised, KeysInv, NEW unit \in Units, TypeUnit(unit)
    PROVE  KeysInv'
<1> DEFINE raw == unit.raw
           q == After(parser, tty)
           r == After(q, raw)
           z == After(NewParser, raw)
           g == Kinds(Got)
<1>1. /\ line = <<>> /\ line' = raw /\ entered' = Append(entered, unit)
      /\ UNCHANGED <<tty, parser, pending, reading, delivered, torn>>
      /\ TypedApart(unit)
    BY DEF TypeUnit
<1>2. ReaderInv' /\ ReaderInv
    BY TypeUnitKeeps DEF KeysInv
<1>3. raw \in Seq(Bytes) /\ raw # <<>> /\ Len(raw) \in Nat
    BY ReaderAssumption
<1>4. tty \in Seq(Bytes) /\ parser \in ParserType /\ ParserInv(q) /\ ParserInv(Coming)
    BY <1>2, ComingInv
<1>5. Coming = q /\ Coming' = r /\ q \in ParserType
    <2>1. tty \o <<>> = tty
        BY <1>4
    <2>2. Coming = q
        BY <1>1, <2>1 DEF Coming
    <2>3. Coming' = After(parser, tty \o raw)
        BY <1>1 DEF Coming
    <2>4. After(parser, tty \o raw) = r
        BY <1>3, <1>4, AfterConcat
    <2> QED
        BY <1>4, <2>2, <2>3, <2>4 DEF ParserInv
<1>6. Got' = Got /\ g \in Seq(KindType)
    BY <1>1, <1>2, ReaderFacts, KindsOfEvents DEF Got
<1>7. entered' \in Seq(Units) /\ entered' # <<>> /\ Last(entered') = unit
      /\ entered \in Seq(Units)
    <2>1. entered \in Seq(Units)
        BY <1>2 DEF ReaderInv, ReaderType
    <2>2. Len(entered') = Len(entered) + 1 /\ entered'[Len(entered) + 1] = unit
          /\ entered' \in Seq(Units)
        BY <1>1, <2>1
    <2> QED
        BY <2>1, <2>2 DEF Last
<1>8. /\ KindsTyped' = KindsTyped \o unit.kinds
      /\ KindsTyped \in Seq(KindType) /\ unit.kinds \in Seq(KindType)
      /\ unit.kinds = Alone(raw)
    BY <1>1, <1>7, KindsTypedAppend DEF UnitsRecognised
<1> SUFFICES ASSUME ~torn PROVE KindsMatch' /\ EndsOpen' /\ BeginsFresh'
    BY <1>1, <1>2 DEF KeysInv
<1>9. g \o Kinds(Flush(q).out) = KindsTyped /\ EndsOpen
    BY <1>5 DEF KeysInv, KindsMatch
<1> HIDE DEF q, r, z, g
<1>10. CASE q.state = "Ground"
    <2> DEFINE o == q.out
               f == Flush(z).out
    <2>1. o \in Seq(KeyEventType) /\ q = Before(o, NewParser) /\ Flush(q) = q
        BY <1>4, <1>10, FreshIsNew
    <2>2. z \in ParserType /\ f \in Seq(KeyEventType)
        BY <1>3, NewParserType, FeedAfter, FlushType DEF z
    <2> HIDE DEF o
    <2>3. r = Before(o, z)
        BY <1>3, <2>1, NewParserType, AfterBefore DEF r, z
    <2>4. Flush(r).out = o \o f
        BY <2>1, <2>2, <2>3, FlushedBefore
    <2>5. Kinds(f) = unit.kinds
        BY <1>8 DEF Alone, z
    <2> HIDE DEF f
    <2>6. g \o Kinds(o \o f) = KindsTyped'
        <3>1. Kinds(o \o f) = Kinds(o) \o Kinds(f) /\ Kinds(o) \in Seq(KindType)
              /\ Kinds(f) \in Seq(KindType)
            BY <2>1, <2>2, KindsConcat, KindsOfEvents
        <3>2. (g \o Kinds(o)) \o Kinds(f) = g \o (Kinds(o) \o Kinds(f))
            BY <1>6, <3>1, KindsAssociate
        <3>3. g \o Kinds(o) = KindsTyped
            BY <1>9, <2>1 DEF o
        <3> QED
            BY <1>8, <2>5, <3>1, <3>2, <3>3
    <2>7. KindsMatch'
        BY <1>5, <1>6, <2>4, <2>6 DEF KindsMatch, g
    <2>8. EndsOpen'
        <3>1. r.state = z.state /\ r.left = z.left /\ r.buf = z.buf
            BY <2>1, <2>2, <2>3, BeforeFields
        <3> QED
            BY <1>5, <1>7, <3>1 DEF EndsOpen, Alike, z
    <2>9. BeginsFresh'
        BY <1>1, <1>3, <1>7, <1>10 DEF BeginsFresh, q
    <2> QED
        BY <2>7, <2>8, <2>9
<1>11. CASE q.state # "Ground"
    <2> DEFINE last == Last(entered)
               y == After(NewParser, last.raw)
    <2>1. entered # <<>> /\ Alike(q, y) /\ last \in Units
        <3>1. entered # <<>> /\ Alike(q, y)
            BY <1>5, <1>9, <1>11 DEF EndsOpen
        <3> QED
            BY <1>7, <3>1 DEF Last
    <2>2. LeftOpen(last)
        <3>1. last.raw \in Seq(Bytes)
            BY <2>1, ReaderAssumption
        <3>2. Feed(NewParser, last.raw) = {y}
            BY <3>1, NewParserType, FeedAfter
        <3>3. y.state # "Ground"
            BY <1>11, <2>1 DEF Alike
        <3> QED
            BY <3>2, <3>3 DEF LeftOpen
    <2>3. ~(tty = <<>> /\ parser.state = "Ground")
        <3> SUFFICES ASSUME tty = <<>>, parser.state = "Ground" PROVE FALSE
            OBVIOUS
        <3>1. q = parser
            BY <1>4, AfterNone DEF q
        <3> QED
            BY <1>11, <3>1
    <2>4. {last.raw, unit.raw} = {Esc}
        BY <1>1, <2>1, <2>2, <2>3 DEF TypedApart, Esc
    <2>5. last.raw = Esc /\ raw = Esc
        BY <2>4
    <2>6. q.state = "EscReceived"
        BY <2>1, <2>5, EscapeAlone DEF Alike
    <2> DEFINE o == q.out
               e == EscapeEvent
    <2>7. /\ o \in Seq(KeyEventType)
          /\ Flush(q).out = Append(o, e)
          /\ r \in ParserType /\ r.state = "EscReceived" /\ r.left = 0 /\ r.buf = Esc
          /\ Flush(r).out = Append(Append(o, e), e)
        BY <1>4, <2>5, <2>6, EscapeTwice DEF r
    <2>8. unit.kinds = <<e.kind>> /\ e \in KeyEventType
        BY <1>8, <2>5, EscapeAlone, EscType
    <2> HIDE DEF o, e
    <2>9. KindsMatch'
        <3> DEFINE a == Append(o, e)
                   k == <<e.kind>>
        <3>1. a \in Seq(KeyEventType)
            BY <2>7, <2>8
        <3> HIDE DEF a
        <3>2. Kinds(Append(a, e)) = Kinds(a) \o k
            BY <2>8, <3>1, KindsAppend
        <3>3. Kinds(a) \in Seq(KindType) /\ k \in Seq(KindType)
            BY <1>8, <2>8, <3>1, KindsOfEvents
        <3> HIDE DEF k
        <3>4. (g \o Kinds(a)) \o k = g \o (Kinds(a) \o k)
            BY <1>6, <3>3, KindsAssociate
        <3>5. g \o Kinds(a) = KindsTyped
            BY <1>9, <2>7 DEF a
        <3>6. g \o Kinds(Flush(r).out) = KindsTyped'
            BY <1>8, <2>7, <2>8, <3>2, <3>4, <3>5 DEF a, k
        <3> QED
            BY <1>5, <1>6, <3>6 DEF KindsMatch, g
    <2>10. EndsOpen'
        <3>1. Alike(r, After(NewParser, Esc))
            BY <2>7, EscapeAlone DEF Alike
        <3> QED
            BY <1>5, <1>7, <2>5, <3>1 DEF EndsOpen
    <2>11. BeginsFresh'
        <3>1. After(parser', tty') = q
            BY <1>1 DEF q
        <3> QED
            BY <1>1, <1>3, <1>7, <2>5, <2>6, <3>1 DEF BeginsFresh, Esc
    <2> QED
        BY <2>9, <2>10, <2>11
<1> QED
    BY <1>10, <1>11

\* A flush of a parser that holds something short of a paste.
LEMMA FlushedFresh ==
    ASSUME NEW p, ParserInv(p), HasPending(p), p.out = <<>>
    PROVE  /\ Drained(Flush(p)) = NewParser
           /\ Flush(p) = Before(Flush(p).out, NewParser)
           /\ Flush(p).out \in Seq(KeyEventType)
<1> DEFINE f == Flush(p)
<1>1. ParserInv(f) /\ f \in ParserType
    BY FlushTakes DEF ParserInv
<1>2. f.state = "Ground"
    <2>1. p.state \notin {"Ground", "PasteBuf"}
        BY DEF HasPending
    <2> QED
        BY <2>1 DEF Flush, Emit
<1> HIDE DEF f
<1>3. f = Before(f.out, NewParser) /\ f.out \in Seq(KeyEventType)
      /\ f.left = 0 /\ f.buf = <<>>
    BY <1>1, <1>2, FreshIsNew, LeftOf DEF ParserInv
<1>4. Drained(f) = NewParser
    <2>1. /\ Drained(f) \in ParserType /\ Drained(f).state = "Ground" /\ Drained(f).left = 0
          /\ Drained(f).buf = <<>> /\ Drained(f).out = <<>>
        BY <1>1, <1>2, <1>3, DrainedBefore
    <2> QED
        BY <2>1, NewParserType, SameParser
<1> QED
    BY <1>3, <1>4 DEF f

LEMMA FlushKeepsKeys ==
    ASSUME KeysInv, tty = <<>>, HasPending(parser), FlushAndReturn
    PROVE  KeysInv'
<1> DEFINE f == Flush(parser)
           o == f.out
           g == Kinds(Got)
           batch == pending \o o
<1>1. ReaderInv' /\ ReaderInv
    BY FlushKeeps DEF KeysInv
<1>2. /\ parser' = Drained(f) /\ Return(batch) /\ UNCHANGED <<line, tty, entered>>
      /\ torn' = (torn \/ (line # <<>> /\ line # Last(entered).raw))
    BY DEF FlushAndReturn
<1>3. ParserInv(parser) /\ parser \in ParserType /\ parser.out = <<>> /\ line \in Seq(Bytes)
    BY <1>1, ReaderFacts DEF ReaderInv, ParserInv
<1>4. Drained(f) = NewParser /\ f = Before(o, NewParser) /\ o \in Seq(KeyEventType)
    BY <1>3, FlushedFresh
<1>5. Got' = Got \o o /\ Got \in Seq(KeyEventType)
    <2>1. PendingThen(o)
        BY <1>1, <1>4, PendingBehind
    <2> QED
        BY <1>1, <1>2, <2>1, ReturnKeeps, ReaderFacts DEF PendingThen
<1>6. Kinds(Got') = g \o Kinds(o) /\ g \in Seq(KindType) /\ Kinds(o) \in Seq(KindType)
    BY <1>4, <1>5, KindsConcat, KindsOfEvents
<1>7. After(parser, tty) = parser /\ After(parser', tty') = NewParser /\ parser' = NewParser
    BY <1>2, <1>3, <1>4, AfterNone, NewParserType
<1>8. tty \o line = line
    BY <1>3
<1>9. KindsTyped' = KindsTyped
    BY <1>2 DEF KindsTyped
<1> SUFFICES ASSUME ~torn' PROVE KindsMatch' /\ EndsOpen' /\ BeginsFresh'
    BY <1>1 DEF KeysInv
<1>10. ~torn /\ (line = <<>> \/ line = Last(entered).raw)
    BY <1>2
<1>11. KindsMatch /\ EndsOpen /\ BeginsFresh
    BY <1>10 DEF KeysInv
<1>12. BeginsFresh'
    BY <1>2, <1>7, <1>11, NewParserType DEF BeginsFresh
<1> HIDE DEF f, o, g, batch
<1>13. CASE line = <<>>
    <2>1. Coming = parser /\ Coming' = NewParser
        BY <1>2, <1>7, <1>8, <1>13 DEF Coming
    <2>2. Flush(NewParser).out = <<>>
        BY NewParserType DEF Flush
    <2>3. g \o Kinds(o) = KindsTyped
        BY <1>11, <2>1 DEF KindsMatch, g, o, f
    <2>4. (g \o Kinds(o)) \o <<>> = g \o Kinds(o)
        BY <1>6
    <2>5. KindsMatch'
        BY <1>6, <1>9, <2>1, <2>2, <2>3, <2>4, KindsFew DEF KindsMatch
    <2>6. EndsOpen'
        BY <2>1, NewParserType DEF EndsOpen
    <2> QED
        BY <1>12, <2>5, <2>6
<1>14. CASE line # <<>>
    <2>1. line = Last(entered).raw /\ entered # <<>>
        BY <1>10, <1>11, <1>14 DEF BeginsFresh
    <2>2. parser.state = "EscReceived" /\ line = Esc
        BY <1>7, <1>11, <1>14, <2>1 DEF BeginsFresh, HasPending, Esc
    <2>3. Coming = After(parser, Esc) /\ Coming' = After(NewParser, Esc)
        BY <1>2, <1>7, <1>8, <2>2 DEF Coming
    <2> DEFINE e == EscapeEvent
               one == Append(<<>>, e)
               k == <<Kind("Escape")>>
    <2>4. /\ o = one /\ Flush(Coming).out = Append(one, e)
        BY <1>3, <2>2, <2>3, EscapeTwice DEF o, f
    <2>5. Kinds(Flush(Coming').out) = k
        BY <2>3, EscapeAlone DEF Alone
    <2>6. one \in Seq(KeyEventType) /\ e \in KeyEventType /\ e.kind = Kind("Escape")
        BY EscType
    <2> HIDE DEF e, one
    <2>7. Kinds(Append(one, e)) = Kinds(one) \o k
        BY <2>6, KindsAppend
    <2>8. k \in Seq(KindType)
        BY EscType
    <2> HIDE DEF k
    <2>9. (g \o Kinds(o)) \o k = g \o (Kinds(o) \o k)
        BY <1>6, <2>8, KindsAssociate
    <2>10. KindsMatch'
        BY <1>6, <1>9, <1>11, <2>4, <2>5, <2>7, <2>9 DEF KindsMatch, g
    <2>11. EndsOpen'
        BY <1>2, <2>1, <2>2, <2>3 DEF EndsOpen, Alike
    <2> QED
        BY <1>12, <2>10, <2>11
<1> QED
    BY <1>13, <1>14

\* Whichever way lines 100 to 113 take, what was fed comes behind.
LEMMA GotGrows ==
    ASSUME ReaderInv, NEW fed, fed.out \in Seq(KeyEventType),
           GoOn(fed) \/ Return(pending \o fed.out)
    PROVE  Got' = Got \o fed.out
<1> DEFINE batch == pending \o fed.out
<1>1. /\ pending \in Seq(KeyEventType) /\ delivered \in Seq(KeyEventType)
      /\ batch \in Seq(KeyEventType)
      /\ delivered \o batch = Got \o fed.out
    BY PendingBehind DEF PendingThen
<1> HIDE DEF batch
<1>2. CASE Return(batch)
    BY <1>1, <1>2, ReturnKeeps
<1>3. CASE pending' = batch /\ delivered' = delivered
    BY <1>1, <1>3 DEF Got
<1>4. GoOn(fed) => Return(batch) \/ (pending' = batch /\ delivered' = delivered)
    BY DEF GoOn, batch, IsInPaste, HasPending
<1> QED
    BY <1>2, <1>3, <1>4 DEF batch

LEMMA KeysStart == ReaderInit => KeysInv
<1> SUFFICES ASSUME ReaderInit PROVE KeysInv
    OBVIOUS
<1>1. ReaderInv
    BY ReaderStarts
<1>2. /\ parser = NewParser /\ line = <<>> /\ tty = <<>> /\ entered = <<>>
      /\ delivered = <<>> /\ pending = <<>>
    BY DEF ReaderInit
<1>3. Coming = NewParser
    <2>1. tty \o line = <<>>
        BY <1>2
    <2> QED
        BY <1>2, <2>1, NewParserType, AfterNone DEF Coming
<1>4. Flush(NewParser).out = <<>>
    BY NewParserType DEF Flush
<1>5. Got = <<>>
    BY <1>2 DEF Got
<1>6. KindsTyped = <<>>
    <2> DEFINE ss == [i \in DOMAIN entered |-> entered[i].kinds]
    <2>1. ss = <<>>
        BY <1>2
    <2>2. FlattenSeq(<<>>) = <<>>
        BY DEF FlattenSeq
    <2> QED
        BY <2>1, <2>2 DEF KindsTyped
<1>7. KindsMatch
    <2>1. <<>> \o <<>> = <<>>
        OBVIOUS
    <2> QED
        BY <1>3, <1>4, <1>5, <1>6, <2>1, KindsFew DEF KindsMatch
<1>8. EndsOpen /\ BeginsFresh
    BY <1>2, <1>3, NewParserType DEF EndsOpen, BeginsFresh
<1> QED
    BY <1>1, <1>7, <1>8 DEF KeysInv

LEMMA SameKeepsKeys ==
    ASSUME KeysInv, UNCHANGED <<line, tty, parser, entered, torn>>, Got' = Got, ReaderInv'
    PROVE  KeysInv'
<1>1. Coming' = Coming /\ KindsTyped' = KindsTyped
    BY DEF Coming, KindsTyped
<1>2. ~torn => KindsMatch' /\ EndsOpen' /\ BeginsFresh'
    BY <1>1 DEF KeysInv, KindsMatch, EndsOpen, BeginsFresh
<1> QED
    BY <1>2 DEF KeysInv

LEMMA KeysKept == UnitsRecognised /\ KeysInv /\ [ReaderNext]_readerVars => KeysInv'
<1> SUFFICES ASSUME UnitsRecognised, KeysInv, [ReaderNext]_readerVars PROVE KeysInv'
    OBVIOUS
<1>1. ReaderInv /\ ReaderInv'
    BY ReaderKeeps DEF KeysInv
<1>2. ASSUME NEW unit \in Units, TypeUnit(unit) PROVE KeysInv'
    BY <1>2, TypeUnitKeepsKeys
<1>3. CASE Arrive
    BY <1>3, ArriveKeepsKeys
<1>4. CASE ReturnPending
    <2>1. Return(pending) /\ UNCHANGED <<line, tty, parser, entered, torn>>
        BY <1>4 DEF ReturnPending
    <2>2. Got' = Got
        BY <1>1, <2>1, ReturnKeeps DEF ReaderInv, ReaderType, Got
    <2> QED
        BY <1>1, <2>1, <2>2, SameKeepsKeys
<1>5. ASSUME NEW fed \in Feed(parser, SubSeq(tty, 1, Chunk)),
             ReadData(fed) \/ ReadPaste(fed) \/ ReadRest(fed)
      PROVE  KeysInv'
    <2>1. ReadAndFeed(fed) /\ (GoOn(fed) \/ Return(pending \o fed.out))
        BY <1>5 DEF ReadData, ReadPaste, ReadRest
    <2>2. fed.out \in Seq(KeyEventType)
        BY <1>1, ChunkTaken
    <2>3. Got' = Got \o fed.out
        BY <1>1, <2>1, <2>2, GotGrows
    <2> QED
        BY <1>1, <2>1, <2>3, ReadKeepsKeys
<1>6. CASE EscTimeout
    <2>1. HasPending(parser) /\ tty = <<>> /\ FlushAndReturn
        BY <1>1, <1>6 DEF EscTimeout, ReaderInv, ReadingMatches
    <2> QED
        BY <2>1, FlushKeepsKeys
<1>7. CASE IdleTimeout /\ HasPending(parser)
    BY <1>7, FlushKeepsKeys DEF IdleTimeout
<1>8. CASE UNCHANGED readerVars
    <2>1. UNCHANGED <<line, tty, parser, entered, torn>> /\ Got' = Got
        BY <1>8 DEF readerVars, Got
    <2> QED
        BY <1>1, <2>1, SameKeepsKeys
<1>9. CASE IdleTimeout /\ ~HasPending(parser)
    BY <1>8, <1>9 DEF IdleTimeout
<1> QED
    BY <1>2, <1>3, <1>4, <1>5, <1>6, <1>7, <1>8, <1>9 DEF ReaderNext, Read

LEMMA KeysInvRecognises == KeysInv => KeysRecognised
<1> SUFFICES ASSUME KeysInv, ~torn PROVE IsPrefix(Kinds(Got), KindsTyped)
    BY DEF KeysRecognised, Got
<1> DEFINE a == Kinds(Got)
           b == Kinds(Flush(Coming).out)
           K == KindType
<1>1. a \in Seq(K) /\ b \in Seq(K) /\ a \o b = KindsTyped
    <2>1. Got \in Seq(KeyEventType) /\ Coming \in ParserType
        BY ReaderFacts, ComingInv DEF KeysInv, ParserInv
    <2> QED
        BY <2>1, FlushType, KindsOfEvents DEF KeysInv, KindsMatch
<1> HIDE DEF a, b, K
<1>2. /\ Len(a) \in Nat /\ Len(b) \in Nat /\ a \o b \in Seq(K)
      /\ Len(a \o b) = Len(a) + Len(b) /\ \A i \in 1..Len(a) : (a \o b)[i] = a[i]
    <2>1. Len(a) \in Nat /\ Len(b) \in Nat
        BY <1>1
    <2>2. a \o b \in Seq(K) /\ Len(a \o b) = Len(a) + Len(b)
        BY <1>1, ConcatProperties
    <2>3. ASSUME NEW i \in 1..Len(a) PROVE (a \o b)[i] = a[i]
        <3>1. i \in 1..(Len(a) + Len(b)) /\ i <= Len(a)
            BY <2>1
        <3> QED
            BY <1>1, <3>1, ConcatProperties
    <2> QED
        BY <2>1, <2>2, <2>3
<1>3. SubSeq(a, 1, Len(a)) = SubSeq(a \o b, 1, Len(a))
    <2> DEFINE n == Len(a)
               c == a \o b
    <2> HIDE DEF c
    <2>1. /\ n \in Nat /\ Len(c) >= n /\ a \in Seq(K) /\ c \in Seq(K)
          /\ \A i \in 1..n : c[i] = a[i]
        BY <1>1, <1>2 DEF c
    <2>2. /\ SubSeq(a, 1, n) \in Seq(K) /\ SubSeq(c, 1, n) \in Seq(K)
          /\ Len(SubSeq(a, 1, n)) = n /\ Len(SubSeq(c, 1, n)) = n
          /\ \A i \in 1..n : SubSeq(a, 1, n)[i] = a[i] /\ SubSeq(c, 1, n)[i] = c[i]
        BY <2>1
    <2>3. SubSeq(a, 1, n) = SubSeq(c, 1, n)
        <3> DEFINE x == SubSeq(a, 1, n)
                   y == SubSeq(c, 1, n)
        <3> HIDE DEF x, y
        <3>1. x \in Seq(K) /\ y \in Seq(K) /\ Len(x) = n /\ Len(y) = n
              /\ \A i \in 1..n : x[i] = y[i]
            BY <2>1, <2>2 DEF x, y
        <3>2. x = y
            BY <2>1, <3>1, SeqEqual
        <3> QED
            BY <3>2 DEF x, y
    <2> QED
        BY <2>3 DEF c
<1>4. Len(a) <= Len(a \o b)
    BY <1>2
<1> QED
    BY <1>1, <1>3, <1>4 DEF IsPrefix, a

-----------------------------------------------------------------------------
(* Each form of a key gives its kind.                                      *)

Fed(d) == After(NewParser, d)

\* p is in s with n bytes to come and b held, and has given nothing out.
At(p, s, n, b) ==
    p \in ParserType /\ p.state = s /\ p.left = n /\ p.buf = b /\ p.out = <<>>

LEMMA FedStart == At(Fed(<<>>), "Ground", 0, <<>>)
<1>1. Fed(<<>>) = NewParser
    BY NewParserType, AfterNone DEF Fed
<1> QED
    BY <1>1, NewParserType DEF At

LEMMA FedOne ==
    ASSUME NEW d \in Seq(Bytes), NEW byte \in Bytes
    PROVE  /\ Append(d, byte) \in Seq(Bytes) /\ Fed(d) \in ParserType
           /\ Fed(Append(d, byte)) = Step(Fed(d), byte)
<1>1. Append(d, byte) \in Seq(Bytes)
    OBVIOUS
<1>2. Fed(d) \in ParserType
    BY NewParserType, FeedAfter DEF Fed
<1>3. After(NewParser, Append(d, byte)) = Step(After(NewParser, d), byte)
    BY NewParserType, AfterAppend
<1> QED
    BY <1>1, <1>2, <1>3 DEF Fed

LEMMA MovedAt ==
    ASSUME NEW p, NEW s0, NEW n0, NEW b0, At(p, s0, n0, b0),
           NEW s \in ParserStates, NEW n \in 0..3, NEW b \in Seq(Bytes)
    PROVE  At(Moved(p, s, n, b), s, n, b)
BY DEF At, Moved, ParserType

LEMMA PushAt ==
    ASSUME NEW p, NEW s0, NEW n0, NEW b0, At(p, s0, n0, b0), NEW byte \in Bytes,
           NEW s \in ParserStates, NEW n \in 0..3
    PROVE  /\ At(Push(p, byte), s0, n0, Append(b0, byte))
           /\ At(PushTo(p, byte, s), s, n0, Append(b0, byte))
           /\ At([PushTo(p, byte, s) EXCEPT !.left = n], s, n, Append(b0, byte))
           /\ At([Push(p, byte) EXCEPT !.left = n], s0, n, Append(b0, byte))
<1> DEFINE b == Append(b0, byte)
<1>1. p \in ParserType /\ p.state = s0 /\ p.left = n0 /\ p.buf = b0
    BY DEF At
<1>2. Holding(p, byte, s, n)
    BY <1>1, HoldingMoves
<1>3. b \in Seq(Bytes) /\ s0 \in ParserStates /\ n0 \in 0..3
    BY <1>1, <1>2 DEF Holding
<1>4. /\ Push(p, byte) = Moved(p, s0, n0, b)
      /\ PushTo(p, byte, s) = Moved(p, s, n0, b)
      /\ [PushTo(p, byte, s) EXCEPT !.left = n] = Moved(p, s, n, b)
      /\ [Push(p, byte) EXCEPT !.left = n] = Moved(p, s0, n, b)
    BY <1>1, <1>2 DEF Holding
<1> HIDE DEF b
<1>5. /\ At(Moved(p, s0, n0, b), s0, n0, b)
      /\ At(Moved(p, s, n0, b), s, n0, b)
      /\ At(Moved(p, s, n, b), s, n, b)
      /\ At(Moved(p, s0, n, b), s0, n, b)
    BY <1>3, MovedAt
<1>6. /\ At(Push(p, byte), s0, n0, b)
      /\ At(PushTo(p, byte, s), s, n0, b)
      /\ At([PushTo(p, byte, s) EXCEPT !.left = n], s, n, b)
      /\ At([Push(p, byte) EXCEPT !.left = n], s0, n, b)
    BY <1>4, <1>5, Zenon
<1> QED
    BY <1>6 DEF b

\* A parser back in Ground with one event.
LEMMA OneKind ==
    ASSUME NEW d \in Seq(Bytes), NEW raw \in Seq(Bytes), NEW kind \in KindType,
           NEW p, NEW s, NEW n, NEW b, At(p, s, n, b),
           Flush(Fed(d)) = Emit(p, raw, kind)
    PROVE  Alone(d) = <<kind>>
<1> DEFINE e == [raw |-> raw, kind |-> kind]
           none == <<>>
<1>1. Emit(p, raw, kind).out = Append(p.out, e) /\ e \in KeyEventType /\ e.kind = kind
    BY EmitType DEF At
<1>2. p.out = none /\ none \in Seq(KeyEventType)
    BY DEF At
<1> HIDE DEF e
<1>3. Append(none, e) = <<e>>
    OBVIOUS
<1>4. Kinds(<<e>>) = <<e.kind>>
    BY <1>1, KindsFew
<1> QED
    BY <1>1, <1>2, <1>3, <1>4 DEF Alone, Fed

LEMMA EndsKey ==
    ASSUME NEW d \in Seq(Bytes), NEW byte \in Bytes, NEW raw \in Seq(Bytes),
           NEW kind \in KindType, NEW s, NEW n, NEW b, At(Fed(d), s, n, b),
           Step(Fed(d), byte) = Emit(Fed(d), raw, kind)
    PROVE  Alone(Append(d, byte)) = <<kind>>
<1> DEFINE p == Fed(d)
           q == Emit(p, raw, kind)
<1>1. Append(d, byte) \in Seq(Bytes) /\ Fed(Append(d, byte)) = q /\ p \in ParserType
    BY FedOne
<1>2. q.state = "Ground"
    BY <1>1, EmitType
<1>3. Flush(q) = q
    BY <1>2 DEF Flush
<1> HIDE DEF p, q
<1>4. Flush(Fed(Append(d, byte))) = q
    BY <1>1, <1>3
<1> DEFINE x == Append(d, byte)
<1>5. x \in Seq(Bytes) /\ Flush(Fed(x)) = Emit(p, raw, kind) /\ At(p, s, n, b)
    BY <1>1, <1>4 DEF p, q
<1> HIDE DEF x
<1>6. Alone(x) = <<kind>>
    BY <1>5, OneKind
<1> QED
    BY <1>6 DEF x

LEMMA EndsWith ==
    ASSUME NEW d \in Seq(Bytes), NEW byte \in Bytes,
           NEW kind \in KindType, NEW s, NEW n, NEW b, At(Fed(d), s, n, b),
           Step(Fed(d), byte) = EmitWith(Fed(d), byte, kind)
    PROVE  Alone(Append(d, byte)) = <<kind>>
<1> DEFINE raw == Append(b, byte)
<1>1. b \in Seq(Bytes) /\ Fed(d).buf = b
    BY DEF At, ParserType
<1>2. raw \in Seq(Bytes) /\ EmitWith(Fed(d), byte, kind) = Emit(Fed(d), raw, kind)
    BY <1>1 DEF EmitWith
<1> HIDE DEF raw
<1> QED
    BY <1>2, EndsKey

\* What ends within a sequence.
LEMMA EndsWithin ==
    ASSUME NEW d \in Seq(Bytes), NEW s, NEW n, NEW b, At(Fed(d), s, n, b),
           s \notin {"Ground", "EscReceived", "PasteBuf"}
    PROVE  Alone(d) = <<Unknown>>
<1>1. b \in Seq(Bytes) /\ Fed(d).buf = b /\ Fed(d).state = s
    BY DEF At, ParserType
<1>2. Flush(Fed(d)) = Emit(Fed(d), b, Unknown)
    BY <1>1 DEF Flush
<1>3. Unknown \in KindType
    BY KindsType
<1> QED
    BY <1>1, <1>2, <1>3, OneKind

LEMMA BytesOfKeys ==
    /\ {"esc", "[", "O", "M", "m", "<", "~", "200", "cont"} \subseteq Bytes
    /\ ParamBytes \subseteq Bytes /\ Finals \subseteq Bytes /\ AltBytes \subseteq Bytes
    /\ DOMAIN Lead \subseteq Bytes
    /\ \A b \in ParamBytes : b \notin Finals
    /\ \A b \in Finals : b \notin ParamBytes
    /\ \A b \in AltBytes : b \notin {"[", "O", "esc"}
    /\ Introducer \in Seq(Bytes) /\ SgrIntroducer \in Seq(Bytes)
<1>1. {"esc", "[", "O", "M", "m", "<", "~", "200", "cont"} \subseteq Bytes
    BY Zenon DEF Bytes, Printable, Finals, Letters, Digits, Others
<1>2. ParamBytes \subseteq Bytes /\ Finals \subseteq Bytes /\ AltBytes \subseteq Bytes
    BY Zenon DEF Bytes, Printable, ParamBytes, AltBytes
<1>3. DOMAIN Lead \subseteq Bytes
    BY Zenon DEF Bytes
<1>4. \A b \in ParamBytes : b \notin Finals
    BY Zenon DEF ParamBytes, Finals, Letters, Digits
<1>5. "esc" \notin AltBytes
    BY Zenon DEF AltBytes, Printable, Finals, Letters, Digits, Controls
<1>6. "[" \notin AltBytes
    BY Zenon DEF AltBytes, Controls
<1>7. "O" \notin AltBytes
    BY Zenon DEF AltBytes, Controls
<1>8. Introducer \in Seq(Bytes) /\ SgrIntroducer \in Seq(Bytes)
    BY <1>1 DEF Introducer, SgrIntroducer
<1> QED
    BY <1>1, <1>2, <1>3, <1>4, <1>5, <1>6, <1>7, <1>8

\* Where the introducers lead.
LEMMA AfterEscape == At(Fed(<<"esc">>), "EscReceived", 0, <<"esc">>)
BY EscapeAlone DEF At, Fed, Esc

LEMMA AfterEscapeByte ==
    /\ At(Fed(Introducer), "CsiEntry", 0, Introducer)
    /\ At(Fed(<<"esc", "O">>), "Ss3Pending", 0, <<"esc", "O">>)
<1> DEFINE d == <<"esc">>
<1>1. At(Fed(d), "EscReceived", 0, d) /\ d \in Seq(Bytes) /\ "[" \in Bytes /\ "O" \in Bytes
    BY AfterEscape, BytesOfKeys
<1>2. Append(d, "[") = Introducer /\ Append(d, "O") = <<"esc", "O">>
    BY AppendToOne DEF Introducer
<1>3. {"CsiEntry", "Ss3Pending"} \subseteq ParserStates /\ 0 \in 0..3
    BY DEF ParserStates
<1> HIDE DEF d
<1>4. ASSUME NEW byte \in {"[", "O"}, NEW s \in {"CsiEntry", "Ss3Pending"},
             byte = "[" <=> s = "CsiEntry"
      PROVE  At(Fed(Append(d, byte)), s, 0, Append(d, byte))
    <2> DEFINE p == Fed(d)
    <2>1. p.state = "EscReceived" /\ At(p, "EscReceived", 0, d)
        BY <1>1 DEF At
    <2>2. Fed(Append(d, byte)) = Step(p, byte)
        BY <1>1, FedOne
    <2> HIDE DEF p
    <2>3. Step(p, byte) = EscReceived(p, byte)
        BY <2>1 DEF Step
    <2>4. EscReceived(p, byte) = PushTo(p, byte, s)
        BY <1>1, <1>4, EscReceivedArms
    <2>5. At(PushTo(p, byte, s), s, 0, Append(d, byte))
        BY <1>1, <1>3, <2>1, PushAt
    <2> QED
        BY <2>2, <2>3, <2>4, <2>5
<1>5. At(Fed(Append(d, "[")), "CsiEntry", 0, Append(d, "["))
    BY <1>4
<1>6. At(Fed(Append(d, "O")), "Ss3Pending", 0, Append(d, "O"))
    BY <1>4
<1> QED
    BY <1>2, <1>5, <1>6

X10Introducer == <<"esc", "[", "M">>

LEMMA AfterIntroducer ==
    /\ At(Fed(SgrIntroducer), "SgrMouse", 0, SgrIntroducer)
    /\ At(Fed(X10Introducer), "MouseX10", 3, X10Introducer)
<1> DEFINE d == Introducer
           p == Fed(d)
<1>1. At(p, "CsiEntry", 0, d) /\ d \in Seq(Bytes) /\ "<" \in Bytes /\ "M" \in Bytes
    BY AfterEscapeByte, BytesOfKeys
<1>2. Append(d, "<") = SgrIntroducer /\ Append(d, "M") = X10Introducer
    BY AppendToTwo DEF Introducer, SgrIntroducer, X10Introducer
<1>3. "SgrMouse" \in ParserStates /\ "MouseX10" \in ParserStates /\ 3 \in 0..3
    BY DEF ParserStates
<1>4. p.state = "CsiEntry" /\ \A byte \in Bytes : Fed(Append(d, byte)) = Step(p, byte)
    BY <1>1, FedOne DEF At
<1> HIDE DEF d, p
<1>5. \A byte : Step(p, byte) = CsiEntry(p, byte)
    BY <1>4 DEF Step
<1>6. CsiEntry(p, "<") = PushTo(p, "<", "SgrMouse")
    BY Zenon DEF CsiEntry, Digits
<1>7. CsiEntry(p, "M") = [PushTo(p, "M", "MouseX10") EXCEPT !.left = 3]
    BY Zenon DEF CsiEntry, Digits
<1>8. At(PushTo(p, "<", "SgrMouse"), "SgrMouse", 0, Append(d, "<"))
    BY <1>1, <1>3, PushAt
<1>9. At([PushTo(p, "M", "MouseX10") EXCEPT !.left = 3], "MouseX10", 3, Append(d, "M"))
    BY <1>1, <1>3, PushAt
<1>10. Fed(SgrIntroducer) = PushTo(p, "<", "SgrMouse")
    BY <1>1, <1>2, <1>4, <1>5, <1>6
<1>11. Fed(X10Introducer) = [PushTo(p, "M", "MouseX10") EXCEPT !.left = 3]
    BY <1>1, <1>2, <1>4, <1>5, <1>7
<1> QED
    BY <1>2, <1>8, <1>9, <1>10, <1>11, Zenon

\* A number or its separator is kept in every state that reads parameters.
LEMMA NumberArms ==
    ASSUME NEW p, NEW byte \in ParamBytes
    PROVE  /\ CsiEntry(p, byte) = PushTo(p, byte, "CsiParam")
           /\ CsiParam(p, byte) = Push(p, byte)
           /\ SgrMouse(p, byte) = Push(p, byte)
<1>1. byte \notin {"M", "<", "m", "~"} /\ byte \notin Finals
    BY Zenon DEF ParamBytes, Digits, Finals, Letters
<1>2. byte \notin Finals \ {"~"}
    BY <1>1
<1>3. CsiEntry(p, byte) = PushTo(p, byte, "CsiParam")
    BY <1>1, Zenon DEF CsiEntry, ParamBytes
<1>4. CsiParam(p, byte) = Push(p, byte)
    BY <1>1, <1>2, Zenon DEF CsiParam, ParamBytes
<1>5. SgrMouse(p, byte) = Push(p, byte)
    BY <1>1, Zenon DEF SgrMouse, ParamBytes
<1> QED
    BY <1>3, <1>4, <1>5

LEMMA AfterNumbers ==
    ASSUME NEW m \in Seq(ParamBytes)
    PROVE  /\ m \in Seq(Bytes)
           /\ m # <<>> => At(Fed(Introducer \o m), "CsiParam", 0, Introducer \o m)
           /\ At(Fed(SgrIntroducer \o m), "SgrMouse", 0, SgrIntroducer \o m)
<1> DEFINE I == Introducer
           G == SgrIntroducer
           Good(d) == /\ At(Fed(I \o d), IF d = <<>> THEN "CsiEntry" ELSE "CsiParam", 0, I \o d)
                      /\ At(Fed(G \o d), "SgrMouse", 0, G \o d)
           S == {d \in Seq(Bytes) : d \in Seq(ParamBytes) => Good(d)}
           none == <<>>
<1>1. /\ I \in Seq(Bytes) /\ G \in Seq(Bytes) /\ ParamBytes \subseteq Bytes
      /\ "CsiParam" \in ParserStates /\ 0 \in 0..3
    BY BytesOfKeys DEF ParserStates
<1>2. none \in S
    <2>1. none \in Seq(Bytes) /\ I \o none = I /\ G \o none = G
        BY <1>1
    <2>2. Good(none)
        BY <2>1, AfterEscapeByte, AfterIntroducer
    <2> QED
        BY <2>1, <2>2
<1>3. ASSUME NEW d \in Seq(Bytes), NEW byte \in Bytes, d \in S PROVE Append(d, byte) \in S
    <2> DEFINE dd == Append(d, byte)
               a == I \o d
               g == G \o d
               p == Fed(a)
               q == Fed(g)
    <2>1. dd \in Seq(Bytes) /\ a \in Seq(Bytes) /\ g \in Seq(Bytes)
          /\ Len(d) \in Nat /\ dd # none
        BY <1>1
    <2> SUFFICES ASSUME dd \in Seq(ParamBytes) PROVE Good(dd)
        BY <2>1
    <2>2. d \in Seq(ParamBytes) /\ byte \in ParamBytes
        <3>1. Len(dd) = Len(d) + 1 /\ dd[Len(d) + 1] = byte
              /\ \A i \in 1..Len(d) : dd[i] = d[i]
            BY <2>1
        <3> HIDE DEF dd
        <3>2. \A i \in 1..(Len(d) + 1) : dd[i] \in ParamBytes
            BY <2>1, <3>1
        <3>3. \A i \in 1..Len(d) : d[i] \in ParamBytes
            BY <2>1, <3>1, <3>2
        <3>4. byte \in ParamBytes
            <4>1. Len(d) + 1 \in 1..(Len(d) + 1)
                BY <2>1
            <4> QED
                BY <3>1, <3>2, <4>1
        <3> QED
            BY <3>3, <3>4
    <2>3. Good(d)
        BY <1>3, <2>2
    <2>4. I \o dd = Append(a, byte) /\ G \o dd = Append(g, byte)
        BY <1>1, AppendAssociates
    <2>5. Fed(Append(a, byte)) = Step(p, byte) /\ Fed(Append(g, byte)) = Step(q, byte)
        BY <2>1, FedOne
    <2>6. At(p, IF d = <<>> THEN "CsiEntry" ELSE "CsiParam", 0, a) /\ At(q, "SgrMouse", 0, g)
        BY <2>3
    <2> HIDE DEF p, q, dd, a, g, S, Good, I, G
    <2>7. At(Step(p, byte), "CsiParam", 0, Append(a, byte))
        <3>1. CASE d = <<>>
            <4>1. At(p, "CsiEntry", 0, a)
                BY <2>6, <3>1
            <4>2. Step(p, byte) = CsiEntry(p, byte)
                BY <4>1 DEF At, Step
            <4>3. CsiEntry(p, byte) = PushTo(p, byte, "CsiParam")
                BY <2>2, NumberArms
            <4>4. At(PushTo(p, byte, "CsiParam"), "CsiParam", 0, Append(a, byte))
                BY <1>1, <4>1, PushAt
            <4> QED
                BY <4>2, <4>3, <4>4
        <3>2. CASE d # <<>>
            <4>1. At(p, "CsiParam", 0, a)
                BY <2>6, <3>2
            <4>2. Step(p, byte) = CsiParam(p, byte)
                BY <4>1 DEF At, Step
            <4>3. CsiParam(p, byte) = Push(p, byte)
                BY <2>2, NumberArms
            <4>4. At(Push(p, byte), "CsiParam", 0, Append(a, byte))
                BY <1>1, <4>1, PushAt
            <4> QED
                BY <4>2, <4>3, <4>4
        <3> QED
            BY <3>1, <3>2
    <2>8. At(Step(q, byte), "SgrMouse", 0, Append(g, byte))
        <3>1. Step(q, byte) = SgrMouse(q, byte)
            BY <2>6 DEF At, Step
        <3>2. SgrMouse(q, byte) = Push(q, byte)
            BY <2>2, NumberArms
        <3>3. At(Push(q, byte), "SgrMouse", 0, Append(g, byte))
            BY <1>1, <2>6, PushAt
        <3> QED
            BY <3>1, <3>2, <3>3
    <2> QED
        BY <2>1, <2>4, <2>5, <2>7, <2>8 DEF Good
<1>4. Seq(Bytes) \subseteq S
    <2> HIDE DEF S
    <2> QED
        BY <1>2, <1>3, BytesInduction
<1>5. m \in Seq(Bytes)
    BY <1>1
<1>6. Good(m)
    BY <1>4, <1>5
<1> QED
    BY <1>5, <1>6

LEMMA LastApart ==
    ASSUME NEW raw \in Seq(Bytes), NEW n \in Nat, Len(raw) = n + 1
    PROVE  /\ SubSeq(raw, 1, n) \in Seq(Bytes) /\ raw[n + 1] \in Bytes
           /\ Len(SubSeq(raw, 1, n)) = n /\ \A i \in 1..n : SubSeq(raw, 1, n)[i] = raw[i]
           /\ raw = Append(SubSeq(raw, 1, n), raw[n + 1])
<1> DEFINE B == Bytes
           d == SubSeq(raw, 1, n)
           t == Append(d, raw[n + 1])
<1>1. raw \in Seq(B) /\ n + 1 \in 1..Len(raw)
    OBVIOUS
<1> HIDE DEF B
<1>2. d \in Seq(B) /\ Len(d) = n /\ raw[n + 1] \in B /\ \A i \in 1..n : d[i] = raw[i]
    BY <1>1
<1> HIDE DEF d
<1>3. /\ t \in Seq(B) /\ Len(t) = n + 1 /\ t[n + 1] = raw[n + 1]
      /\ \A i \in 1..n : t[i] = d[i]
    BY <1>2
<1> HIDE DEF t
<1>4. ASSUME NEW i \in 1..(n + 1) PROVE raw[i] = t[i]
    <2>1. i \in 1..n \/ i = n + 1
        OBVIOUS
    <2> QED
        BY <1>2, <1>3, <2>1
<1>5. raw = t
    BY <1>1, <1>3, <1>4, SeqEqual
<1> QED
    BY <1>2, <1>5 DEF d, t, B

LEMMA ThreeThen ==
    ASSUME NEW a \in Bytes, NEW b \in Bytes, NEW c \in Bytes, NEW m \in Seq(Bytes)
    PROVE  SubSeq(<<a, b, c>> \o m, 4, Len(<<a, b, c>> \o m)) = m
<1> DEFINE B == Bytes
           i == <<a, b, c>>
           d == i \o m
           t == SubSeq(d, 4, Len(d))
<1>1. i \in Seq(B) /\ Len(i) = 3 /\ m \in Seq(B) /\ Len(m) \in Nat
    OBVIOUS
<1> HIDE DEF i, B
<1>2. d \in Seq(B) /\ Len(d) = 3 + Len(m)
      /\ \A k \in 1..(3 + Len(m)) : d[k] = IF k <= 3 THEN i[k] ELSE m[k - 3]
    <2>1. d \in Seq(B)
        BY <1>1
    <2>2. Len(d) = Len(i) + Len(m)
        BY <1>1, ConcatProperties
    <2>3. \A k \in 1..(Len(i) + Len(m)) : d[k] = IF k <= Len(i) THEN i[k] ELSE m[k - Len(i)]
        BY <1>1, ConcatProperties
    <2> HIDE DEF d
    <2> QED
        BY <1>1, <2>1, <2>2, <2>3
<1> HIDE DEF d
<1>3. t \in Seq(B) /\ Len(t) = Len(m) /\ \A k \in 1..Len(m) : t[k] = d[k + 3]
    BY <1>1, <1>2
<1> HIDE DEF t
<1>4. ASSUME NEW k \in 1..Len(m) PROVE t[k] = m[k]
    <2>1. k + 3 \in 1..(3 + Len(m)) /\ ~(k + 3 <= 3) /\ (k + 3) - 3 = k
        BY <1>1
    <2> QED
        BY <1>2, <1>3, <2>1
<1>5. t = m
    BY <1>1, <1>3, <1>4, SeqEqual
<1> QED
    BY <1>5 DEF t, d, i

LEMMA PlainAlone ==
    ASSUME NEW raw \in Seq(Bytes), NEW kind, PlainKey(raw, kind)
    PROVE  Alone(raw) = <<kind>>
<1> DEFINE none == <<>>
           byte == raw[1]
           p == Fed(none)
<1>1. Len(raw) = 0 + 1 /\ byte \notin {"esc"} \cup DOMAIN Lead /\ kind = KeyOf(byte)
    BY DEF PlainKey
<1>2. raw = Append(SubSeq(raw, 1, 0), byte) /\ byte \in Bytes
    BY <1>1, LastApart
<1>3. SubSeq(raw, 1, 0) = none /\ none \in Seq(Bytes)
    OBVIOUS
<1>4. At(p, "Ground", 0, <<>>)
    BY FedStart
<1> DEFINE one == <<byte>>
<1>5. one \in Seq(Bytes) /\ kind \in KindType
    BY <1>1, <1>2, KindsType
<1>6. Step(p, byte) = Emit(p, one, kind)
    <2>1. Step(p, byte) = Ground(p, byte)
        BY <1>4 DEF Step, At
    <2>2. Ground(p, byte) = Emit(p, one, kind)
        BY <1>1 DEF Ground
    <2> QED
        BY <2>1, <2>2
<1> HIDE DEF none, one, byte
<1>7. Alone(Append(none, byte)) = <<kind>>
    BY ZenonT(60), <1>2, <1>3, <1>4, <1>5, <1>6, EndsKey
<1> QED
    BY <1>2, <1>3, <1>7

LEMMA AltAlone ==
    ASSUME NEW raw \in Seq(Bytes), NEW kind, AltKey(raw, kind)
    PROVE  Alone(raw) = <<kind>>
<1> DEFINE d == <<"esc">>
           byte == raw[2]
           p == Fed(d)
<1>1. /\ Len(raw) = 1 + 1 /\ raw[1] = "esc" /\ byte \in AltBytes
      /\ kind = Alt(IF byte \in {"cr", "tab"} THEN Kind("Control") ELSE KeyOf(byte))
    BY DEF AltKey
<1>2. /\ raw = Append(SubSeq(raw, 1, 1), byte) /\ byte \in Bytes
      /\ SubSeq(raw, 1, 1) \in Seq(Bytes) /\ Len(SubSeq(raw, 1, 1)) = 1
      /\ SubSeq(raw, 1, 1)[1] = raw[1]
    <2>1. 1 \in 1..1 /\ 1 \in Nat
        OBVIOUS
    <2>2. raw[1 + 1] = byte
        OBVIOUS
    <2> QED
        BY ZenonT(60), <1>1, <2>1, <2>2, LastApart
<1>3. SubSeq(raw, 1, 1) = d
    <2> DEFINE e == SubSeq(raw, 1, 1)
    <2>1. e \in Seq(Bytes) /\ Len(e) = 1 /\ e[1] = "esc"
        BY <1>1, <1>2
    <2> HIDE DEF e
    <2>2. e = d
        BY <2>1
    <2> QED
        BY <2>2 DEF e
<1>4. At(p, "EscReceived", 0, d)
    BY AfterEscape
<1>5. kind \in KindType
    BY <1>1, KindsType DEF Keys
<1>6. Step(p, byte) = EmitWith(p, byte, kind)
    <2>1. Step(p, byte) = EscReceived(p, byte)
        BY <1>4 DEF Step, At
    <2>2. byte \notin {"[", "O", "esc"}
        BY <1>1, BytesOfKeys
    <2>3. EscReceived(p, byte) = EmitWith(p, byte, kind)
        BY <1>1, <2>2, Zenon DEF EscReceived, AltBytes
    <2> QED
        BY <2>1, <2>3
<1>7. d \in Seq(Bytes)
    BY <1>2, <1>3
<1> HIDE DEF d, byte
<1>8. Alone(Append(d, byte)) = <<kind>>
    BY <1>2, <1>4, <1>5, <1>6, <1>7, EndsWith
<1> QED
    BY <1>2, <1>3, <1>8

LEMMA Ss3Alone ==
    ASSUME NEW raw \in Seq(Bytes), NEW kind, Ss3Key(raw, kind)
    PROVE  Alone(raw) = <<kind>>
<1> DEFINE d == <<"esc", "O">>
           byte == raw[3]
           p == Fed(d)
           e == SubSeq(raw, 1, 2)
<1>1. /\ Len(raw) = 2 + 1 /\ raw[1] = "esc" /\ raw[2] = "O"
      /\ kind = IF byte \in DOMAIN Ss3Keys THEN Kind(Ss3Keys[byte]) ELSE Unknown
    BY DEF Ss3Key
<1>2. /\ raw = Append(e, byte) /\ byte \in Bytes /\ e \in Seq(Bytes) /\ Len(e) = 2
      /\ \A i \in 1..2 : e[i] = raw[i]
    <2>1. raw[2 + 1] = byte /\ 2 \in Nat
        OBVIOUS
    <2> QED
        BY <1>1, <2>1, LastApart
<1>3. e = d
    <2> HIDE DEF e
    <2>1. 1 \in 1..2 /\ 2 \in 1..2
        OBVIOUS
    <2> QED
        BY <1>1, <1>2, <2>1
<1>4. At(p, "Ss3Pending", 0, d)
    BY AfterEscapeByte
<1>5. kind \in KindType
    <2>1. DOMAIN Ss3Keys = {"A", "H", "P"} /\ Ss3Keys["A"] = "Arrow"
          /\ Ss3Keys["H"] = "Nav" /\ Ss3Keys["P"] = "Function"
        BY DEF Ss3Keys
    <2> QED
        BY <1>1, <2>1, KindsType DEF Keys
<1>6. Step(p, byte) = EmitWith(p, byte, kind)
    BY <1>1, <1>4 DEF Step, At, Ss3Pending
<1>7. d \in Seq(Bytes)
    BY <1>2, <1>3
<1> HIDE DEF d, byte, e
<1>8. Alone(Append(d, byte)) = <<kind>>
    BY <1>2, <1>4, <1>5, <1>6, <1>7, EndsWith
<1> QED
    BY <1>2, <1>3, <1>8

\* The final byte of a sequence that has, or has no, parameters.
LEMMA CsiAlone ==
    ASSUME NEW raw \in Seq(Bytes), NEW kind, CsiKey(raw, kind)
    PROVE  Alone(raw) = <<kind>>
<1> DEFINE m == Middle(raw, Introducer)
           final == Last(raw)
           d == Introducer \o m
           p == Fed(d)
<1>1. /\ raw = d \o <<final>> /\ m \in Seq(ParamBytes) /\ final \in Finals
      /\ \/ m = <<>> /\ final # "M" /\ kind = ClassifyCsiFinal(final, <<>>)
         \/ m # <<>> /\ final # "~" /\ kind = ClassifyCsiFinal(final, Params(m))
         \/ /\ m # <<>> /\ final = "~" /\ Params(m)[1] # "200"
            /\ kind = ClassifyTildeKey(Params(m))
    BY DEF CsiKey, Framed
<1> HIDE DEF m, final
<1>2. /\ final \in Bytes /\ final \notin ParamBytes /\ m \in Seq(Bytes)
      /\ Introducer \in Seq(Bytes)
    BY <1>1, BytesOfKeys, AfterNumbers
<1>3. d \in Seq(Bytes) /\ SubSeq(d, 3, Len(d)) = m
    BY <1>1, IntroducerThen
<1>4. raw = Append(d, final)
    BY <1>1, <1>2, <1>3, AppendIsConcat
<1>5. kind \in KindType
    BY <1>1, ClassifiedType
<1>6. CASE m = <<>>
    <2>1. d = Introducer
        BY <1>2, <1>6
    <2>2. At(p, "CsiEntry", 0, d)
        BY <2>1, AfterEscapeByte
    <2>3. Step(p, final) = CsiEntry(p, final)
        BY <2>2 DEF Step, At
    <2>4. final # "M" /\ final # "<" /\ kind = ClassifyCsiFinal(final, <<>>)
        <3>1. "<" \notin Finals
            BY Zenon DEF Finals, Letters
        <3> QED
            BY <1>1, <1>6, <3>1
    <2>5. CsiEntry(p, final) = EmitWith(p, final, kind)
        BY <1>2, <2>4, Zenon DEF CsiEntry, ParamBytes
    <2> HIDE DEF d, p
    <2>6. Alone(Append(d, final)) = <<kind>>
        BY <1>2, <1>3, <1>5, <2>2, <2>3, <2>5, EndsWith DEF p
    <2> QED
        BY <1>4, <2>6
<1>7. CASE m # <<>>
    <2>1. At(p, "CsiParam", 0, d)
        BY <1>1, <1>7, AfterNumbers
    <2>2. Step(p, final) = CsiParam(p, final) /\ p.buf = d
        BY <2>1 DEF Step, At
    <2>3. CsiParams(p) = Params(m)
        BY <1>3, <2>2, Zenon DEF CsiParams
    <2>4. CsiParam(p, final) = EmitWith(p, final, kind)
        <3>1. CASE final = "~"
            <4>1. CsiParams(p)[1] # "200" /\ kind = ClassifyTildeKey(CsiParams(p))
                BY <1>1, <1>7, <2>3, <3>1
            <4>2. final \notin Finals \ {"~"}
                BY <3>1
            <4> QED
                BY <1>2, <3>1, <4>1, <4>2, Zenon DEF CsiParam, ParamBytes
        <3>2. CASE final # "~"
            <4>1. kind = ClassifyCsiFinal(final, CsiParams(p)) /\ final \in Finals \ {"~"}
                BY <1>1, <1>7, <2>3, <3>2
            <4> QED
                BY <1>2, <3>2, <4>1, Zenon DEF CsiParam, ParamBytes
        <3> QED
            BY <3>1, <3>2
    <2> HIDE DEF d, p
    <2>5. Alone(Append(d, final)) = <<kind>>
        BY <1>2, <1>3, <1>5, <2>1, <2>2, <2>4, EndsWith DEF p
    <2> QED
        BY <1>4, <2>5
<1> QED
    BY <1>6, <1>7

LEMMA SgrAlone ==
    ASSUME NEW raw \in Seq(Bytes), NEW kind, NEW m \in Seq(ParamBytes),
           NEW final \in {"M", "m"}, raw = (SgrIntroducer \o m) \o <<final>>,
           kind = IF Len(Params(m)) < 3 THEN Unknown ELSE Kind("Mouse")
    PROVE  Alone(raw) = <<kind>>
<1> DEFINE d == SgrIntroducer \o m
           p == Fed(d)
<1>1. /\ final \in Bytes /\ final \notin ParamBytes /\ m \in Seq(Bytes)
      /\ SgrIntroducer \in Seq(Bytes)
    <2>1. "M" \notin ParamBytes /\ "m" \notin ParamBytes
        BY Zenon DEF ParamBytes, Digits
    <2> QED
        BY <2>1, BytesOfKeys, AfterNumbers
<1>2. d \in Seq(Bytes) /\ raw = Append(d, final)
    <2>1. d \in Seq(Bytes)
        BY <1>1
    <2> QED
        BY <1>1, <2>1, AppendIsConcat
<1>3. SubSeq(d, 4, Len(d)) = m
    BY <1>1, ThreeThen DEF SgrIntroducer
<1>4. At(p, "SgrMouse", 0, d)
    BY AfterNumbers
<1>5. kind \in KindType
    BY KindsType DEF Keys
<1>6. Step(p, final) = EmitWith(p, final, kind)
    <2>1. Step(p, final) = SgrMouse(p, final) /\ p.buf = d
        BY <1>4 DEF Step, At
    <2>2. SgrMouse(p, final)
             = EmitWith(p, final, IF Len(Params(SubSeq(p.buf, 4, Len(p.buf)))) < 3
                                  THEN Unknown ELSE Kind("Mouse"))
        BY <1>1, Zenon DEF SgrMouse, ParamBytes
    <2>3. SubSeq(p.buf, 4, Len(p.buf)) = m
        BY <1>3, <2>1, Zenon
    <2> QED
        BY <2>1, <2>2, <2>3, Zenon
<1> HIDE DEF d, p
<1>7. Alone(Append(d, final)) = <<kind>>
    BY <1>1, <1>2, <1>4, <1>5, <1>6, EndsWith DEF p
<1> QED
    BY <1>2, <1>7

LEMMA TakenNext ==
    ASSUME NEW raw \in Seq(Bytes), NEW n \in 0..(Len(raw) - 1)
    PROVE  /\ SubSeq(raw, 1, n) \in Seq(Bytes) /\ SubSeq(raw, 1, n + 1) \in Seq(Bytes)
           /\ raw[n + 1] \in Bytes
           /\ SubSeq(raw, 1, n + 1) = Append(SubSeq(raw, 1, n), raw[n + 1])
<1> DEFINE B == Bytes
<1>1. raw \in Seq(B) /\ n \in Nat /\ n + 1 \in 1..Len(raw)
    OBVIOUS
<1> HIDE DEF B
<1>2. /\ SubSeq(raw, 1, n) \in Seq(B) /\ SubSeq(raw, 1, n + 1) \in Seq(B)
      /\ raw[n + 1] \in B
      /\ SubSeq(raw, 1, n + 1) = Append(SubSeq(raw, 1, n), raw[n + 1])
    BY <1>1
<1> QED
    BY <1>2 DEF B

LEMMA TakenAll ==
    ASSUME NEW raw \in Seq(Bytes)
    PROVE  SubSeq(raw, 1, Len(raw)) = raw
<1> DEFINE B == Bytes
<1> HIDE DEF B
<1>1. raw \in Seq(B)
    BY DEF B
<1> QED
    BY <1>1

\* A byte that is counted down.
LEMMA CountsDown ==
    ASSUME NEW d \in Seq(Bytes), NEW byte \in Bytes, NEW n \in 2..3, NEW b,
           NEW s \in {"MouseX10", "Utf8"}, At(Fed(d), s, n, b),
           s = "Utf8" => byte = "cont"
    PROVE  At(Fed(Append(d, byte)), s, n - 1, Append(b, byte))
<1> DEFINE p == Fed(d)
           k == n - 1
<1>1. /\ p \in ParserType /\ p.state = s /\ p.left = n /\ k \in 0..3 /\ n > 1
      /\ s \in ParserStates /\ Fed(Append(d, byte)) = Step(p, byte)
    BY FedOne DEF At, ParserStates
<1> HIDE DEF p
<1>2. Step(p, byte) = [Push(p, byte) EXCEPT !.left = @ - 1]
    BY <1>1 DEF Step, MouseX10, Utf8Cont
<1>3. Push(p, byte).left = n
    BY <1>1 DEF Push, ParserType
<1>4. [Push(p, byte) EXCEPT !.left = @ - 1] = [Push(p, byte) EXCEPT !.left = k]
    BY <1>3
<1> HIDE DEF k
<1>5. At([Push(p, byte) EXCEPT !.left = k], s, k, Append(b, byte))
    BY <1>1, PushAt DEF p
<1>6. At(Fed(Append(d, byte)), s, k, Append(b, byte))
    BY <1>1, <1>2, <1>4, <1>5, Zenon
<1> QED
    BY <1>6 DEF k

\* The last byte that is counted.
LEMMA CountEnds ==
    ASSUME NEW d \in Seq(Bytes), NEW byte \in Bytes, NEW b,
           NEW s \in {"MouseX10", "Utf8"}, At(Fed(d), s, 1, b),
           s = "Utf8" => byte = "cont"
    PROVE  Alone(Append(d, byte)) = <<Kind(IF s = "Utf8" THEN "Char" ELSE "Mouse")>>
<1> DEFINE p == Fed(d)
           kind == Kind(IF s = "Utf8" THEN "Char" ELSE "Mouse")
<1>1. p.state = s /\ p.left = 1
    BY DEF At
<1>2. Step(p, byte) = EmitWith(p, byte, kind)
    <2> HIDE DEF p
    <2>1. CASE s = "Utf8"
        BY <1>1, <2>1 DEF Step, Utf8Cont
    <2>2. CASE s = "MouseX10"
        BY <1>1, <2>2 DEF Step, MouseX10
    <2> QED
        BY <2>1, <2>2
<1>3. kind \in KindType
    BY KindsType DEF Keys
<1> HIDE DEF kind
<1>4. Alone(Append(d, byte)) = <<kind>>
    BY <1>2, <1>3, EndsWith
<1> QED
    BY <1>4 DEF kind

LEMMA MouseTaken ==
    ASSUME NEW raw \in Seq(Bytes), SubSeq(raw, 1, 3) = X10Introducer,
           NEW n \in 3..5, n <= Len(raw)
    PROVE  At(Fed(SubSeq(raw, 1, n)), "MouseX10", 6 - n, SubSeq(raw, 1, n))
<1> DEFINE T(k) == SubSeq(raw, 1, k)
           Good(k) == At(Fed(T(k)), "MouseX10", 6 - k, T(k))
<1>1. Good(3)
    <2>1. 6 - 3 = 3
        OBVIOUS
    <2>2. At(Fed(X10Introducer), "MouseX10", 6 - 3, X10Introducer)
        BY <2>1, AfterIntroducer
    <2> QED
        BY <2>2
<1>2. ASSUME NEW k \in 3..4, k + 1 <= Len(raw), Good(k) PROVE Good(k + 1)
    <2> DEFINE left == 6 - k
    <2>1. left \in 2..3 /\ 6 - (k + 1) = left - 1 /\ k \in 0..(Len(raw) - 1)
        BY <1>2
    <2>2. T(k) \in Seq(Bytes) /\ raw[k + 1] \in Bytes /\ T(k + 1) = Append(T(k), raw[k + 1])
        BY <2>1, TakenNext
    <2> HIDE DEF T, left
    <2>3. At(Fed(T(k)), "MouseX10", left, T(k))
        BY <1>2 DEF left
    <2>4. At(Fed(Append(T(k), raw[k + 1])), "MouseX10", left - 1, Append(T(k), raw[k + 1]))
        BY <2>1, <2>2, <2>3, CountsDown
    <2> QED
        BY <2>1, <2>2, <2>4
<1> HIDE DEF Good
<1>3. CASE n = 3
    BY <1>1, <1>3 DEF Good
<1>4. CASE n = 4
    <2>1. 3 \in 3..4 /\ 3 + 1 = 4 /\ 3 + 1 <= Len(raw)
        BY <1>4
    <2>2. Good(4)
        BY <1>1, <1>2, <2>1
    <2> QED
        BY <1>4, <2>2 DEF Good
<1>5. CASE n = 5
    <2>1. 3 \in 3..4 /\ 3 + 1 = 4 /\ 3 + 1 <= Len(raw) /\ 4 \in 3..4 /\ 4 + 1 = 5
          /\ 4 + 1 <= Len(raw)
        BY <1>5
    <2>2. Good(4)
        BY <1>1, <1>2, <2>1
    <2>3. Good(5)
        BY <1>2, <2>1, <2>2
    <2> QED
        BY <1>5, <2>3 DEF Good
<1> QED
    BY <1>3, <1>4, <1>5

LEMMA MouseAlone ==
    ASSUME NEW raw \in Seq(Bytes), NEW kind, MouseKey(raw, kind)
    PROVE  Alone(raw) = <<kind>>
<1>1. CASE Len(raw) = 6 /\ SubSeq(raw, 1, 3) = X10Introducer /\ kind = Kind("Mouse")
    <2> DEFINE d == SubSeq(raw, 1, 5)
    <2>1. At(Fed(d), "MouseX10", 1, d)
        <3>1. 5 \in 3..5 /\ 5 <= Len(raw) /\ 6 - 5 = 1
            BY <1>1
        <3>2. At(Fed(d), "MouseX10", 6 - 5, d)
            BY <1>1, <3>1, MouseTaken
        <3> QED
            BY <3>1, <3>2
    <2>2. raw = Append(d, raw[6]) /\ d \in Seq(Bytes) /\ raw[6] \in Bytes
        <3>1. 5 \in 0..(Len(raw) - 1) /\ 5 + 1 = 6
            BY <1>1
        <3>2. SubSeq(raw, 1, 6) = raw
            BY <1>1, TakenAll
        <3> QED
            BY <3>1, <3>2, TakenNext
    <2> DEFINE byte == raw[6]
    <2> HIDE DEF d, byte
    <2>3. Alone(Append(d, byte)) = <<Kind("Mouse")>>
        <3>1. Alone(Append(d, byte)) = <<Kind(IF "MouseX10" = "Utf8" THEN "Char" ELSE "Mouse")>>
            BY <2>1, <2>2, CountEnds DEF byte
        <3> QED
            BY <3>1
    <2> QED
        BY <1>1, <2>2, <2>3 DEF byte
<1>2. CASE /\ Framed(raw, SgrIntroducer, Middle(raw, SgrIntroducer), Last(raw))
           /\ Last(raw) \in {"M", "m"}
           /\ kind = IF Len(Params(Middle(raw, SgrIntroducer))) < 3
                     THEN Unknown ELSE Kind("Mouse")
    BY <1>2, SgrAlone DEF Framed
<1> QED
    BY <1>1, <1>2 DEF MouseKey, X10Introducer

\* A lead and some of its continuations.
LEMMA CharTaken ==
    ASSUME NEW raw \in Seq(Bytes), NEW n, BeginsChar(raw, n), n <= Lead[raw[1]]
    PROVE  /\ SubSeq(raw, 1, n) \in Seq(Bytes) /\ Lead[raw[1]] + 1 - n \in 1..2
           /\ At(Fed(SubSeq(raw, 1, n)), "Utf8", Lead[raw[1]] + 1 - n, SubSeq(raw, 1, n))
<1> DEFINE none == <<>>
           lead == raw[1]
           asked == Lead[lead]
           one == <<lead>>
           p == Fed(none)
<1>1. /\ lead \in DOMAIN Lead /\ asked \in 1..2 /\ lead # "esc" /\ n \in 1..2
      /\ n <= Len(raw) /\ \A i \in 2..n : raw[i] = "cont" /\ Len(raw) \in Nat
    BY LeadBytes DEF BeginsChar
<1>2. SubSeq(raw, 1, 1) = one /\ lead \in Bytes /\ one = Append(none, lead) /\ one \in Seq(Bytes)
    <2>1. 0 \in 0..(Len(raw) - 1) /\ 0 + 1 = 1
        BY <1>1
    <2>2. SubSeq(raw, 1, 1) = Append(SubSeq(raw, 1, 0), lead) /\ lead \in Bytes
        BY <2>1, TakenNext
    <2>3. SubSeq(raw, 1, 0) = none /\ Append(none, lead) = one
        OBVIOUS
    <2>4. one \in Seq(Bytes)
        BY <2>2
    <2> HIDE DEF one, none, lead
    <2> QED
        BY <2>2, <2>3, <2>4
<1>3. At(p, "Ground", 0, none) /\ none \in Seq(Bytes)
    BY FedStart
<1> HIDE DEF none, lead, asked, one
<1>4. At(Fed(one), "Utf8", asked, one)
    <2>1. Fed(one) = Step(p, lead)
        BY <1>2, <1>3, FedOne
    <2> HIDE DEF p
    <2>2. Step(p, lead) = [p EXCEPT !.state = "Utf8", !.left = asked, !.buf = one]
        <3>1. Step(p, lead) = Ground(p, lead)
            BY <1>3 DEF At, Step
        <3>2. Ground(p, lead) = StartUtf8(p, lead)
            BY <1>1 DEF Ground
        <3> QED
            BY <3>1, <3>2 DEF StartUtf8, asked, one
    <2>3. [p EXCEPT !.state = "Utf8", !.left = asked, !.buf = one] = Moved(p, "Utf8", asked, one)
        BY DEF Moved
    <2>4. "Utf8" \in ParserStates /\ asked \in 0..3
        BY <1>1 DEF ParserStates
    <2>5. At(Moved(p, "Utf8", asked, one), "Utf8", asked, one)
        BY <1>2, <1>3, <2>4, MovedAt
    <2> QED
        BY <2>1, <2>2, <2>3, <2>5
<1>5. CASE n = 1
    <2>1. asked + 1 - n = asked
        BY <1>1, <1>5
    <2> QED
        BY <1>1, <1>2, <1>4, <1>5, <2>1 DEF asked, lead
<1>6. CASE n = 2
    <2> DEFINE two == SubSeq(raw, 1, 2)
    <2>1. asked = 2 /\ raw[2] = "cont" /\ 1 \in 0..(Len(raw) - 1) /\ 1 + 1 = 2
        BY <1>1, <1>6 DEF asked, lead
    <2>2. two = Append(one, "cont") /\ two \in Seq(Bytes) /\ "cont" \in Bytes
        BY <1>2, <2>1, TakenNext
    <2> HIDE DEF two
    <2>3. At(Fed(one), "Utf8", 2, one) /\ 2 \in 2..3
        BY <1>4, <2>1
    <2>4. At(Fed(Append(one, "cont")), "Utf8", 2 - 1, Append(one, "cont"))
        BY <1>2, <2>2, <2>3, CountsDown
    <2>5. asked + 1 - n = 2 - 1 /\ 2 - 1 \in 1..2
        BY <1>6, <2>1
    <2>6. At(Fed(two), "Utf8", asked + 1 - n, two)
        BY <2>2, <2>4, <2>5
    <2> QED
        BY <1>6, <2>2, <2>5, <2>6 DEF two, asked, lead
<1> QED
    BY <1>1, <1>5, <1>6

LEMMA CharAlone ==
    ASSUME NEW raw \in Seq(Bytes), NEW kind, CharKey(raw, kind)
    PROVE  Alone(raw) = <<kind>>
<1> DEFINE n == Lead[raw[1]]
           d == SubSeq(raw, 1, n)
<1>1. /\ raw[1] \in DOMAIN Lead /\ n \in 1..2 /\ Len(raw) = n + 1 /\ kind = Kind("Char")
      /\ \A i \in 2..(n + 1) : raw[i] = "cont"
    BY LeadBytes DEF CharKey, BeginsChar
<1>2. BeginsChar(raw, n)
    BY <1>1 DEF BeginsChar
<1>3. n + 1 - n = 1 /\ raw[n + 1] = "cont" /\ n \in 0..(Len(raw) - 1)
    BY <1>1
<1>4. At(Fed(d), "Utf8", n + 1 - n, d)
    BY <1>1, <1>2, CharTaken
<1>5. raw = Append(d, "cont") /\ d \in Seq(Bytes) /\ "cont" \in Bytes
    <2>1. SubSeq(raw, 1, n + 1) = raw
        BY <1>1, TakenAll
    <2> QED
        BY <1>3, <2>1, TakenNext
<1> HIDE DEF d, n
<1>6. At(Fed(d), "Utf8", 1, d)
    BY <1>3, <1>4
<1>7. Alone(Append(d, "cont")) = <<Kind(IF "Utf8" = "Utf8" THEN "Char" ELSE "Mouse")>>
    BY <1>5, <1>6, CountEnds
<1> QED
    BY <1>1, <1>5, <1>7

LEMMA UnfinishedAlone ==
    ASSUME NEW raw \in Seq(Bytes), NEW kind, Unfinished(raw, kind)
    PROVE  Alone(raw) = <<kind>>
<1> SUFFICES \E s, n : At(Fed(raw), s, n, raw) /\ s \notin {"Ground", "EscReceived", "PasteBuf"}
    BY EndsWithin DEF Unfinished
<1>1. CASE raw = <<"esc", "O">>
    <2>1. At(Fed(raw), "Ss3Pending", 0, raw)
        BY <1>1, AfterEscapeByte
    <2> QED
        BY <2>1
<1>2. ASSUME NEW introducer \in {Introducer, SgrIntroducer},
             NEW m \in Seq(ParamBytes), raw = introducer \o m
      PROVE  \E s, n : At(Fed(raw), s, n, raw) /\ s \notin {"Ground", "EscReceived", "PasteBuf"}
    <2>1. CASE raw = SgrIntroducer \o m
        <3>1. At(Fed(raw), "SgrMouse", 0, raw)
            BY <2>1, AfterNumbers
        <3> QED
            BY <3>1
    <2>2. CASE raw = Introducer \o m /\ m # <<>>
        <3>1. At(Fed(raw), "CsiParam", 0, raw)
            BY <2>2, AfterNumbers
        <3> QED
            BY <3>1
    <2>3. CASE raw = Introducer \o m /\ m = <<>>
        <3>1. raw = Introducer
            BY <2>3, BytesOfKeys
        <3>2. At(Fed(raw), "CsiEntry", 0, raw)
            BY <3>1, AfterEscapeByte
        <3> QED
            BY <3>2
    <2> QED
        BY <1>2, <2>1, <2>2, <2>3
<1>3. CASE Len(raw) \in 3..5 /\ SubSeq(raw, 1, 3) = X10Introducer
    <2> DEFINE n == Len(raw)
               left == 6 - n
    <2>1. At(Fed(SubSeq(raw, 1, n)), "MouseX10", left, SubSeq(raw, 1, n))
        <3>1. n \in 3..5 /\ n <= Len(raw)
            BY <1>3
        <3> QED
            BY <1>3, <3>1, MouseTaken
    <2>2. SubSeq(raw, 1, n) = raw
        BY TakenAll
    <2> HIDE DEF left
    <2>3. At(Fed(raw), "MouseX10", left, raw)
        BY <2>1, <2>2
    <2> QED
        BY <2>3
<1>4. CASE BeginsChar(raw, Len(raw)) /\ Len(raw) <= Lead[raw[1]]
    <2> DEFINE n == Len(raw)
               left == Lead[raw[1]] + 1 - n
    <2>1. At(Fed(SubSeq(raw, 1, n)), "Utf8", left, SubSeq(raw, 1, n))
        BY <1>4, CharTaken
    <2>2. SubSeq(raw, 1, n) = raw
        BY TakenAll
    <2> HIDE DEF left
    <2>3. At(Fed(raw), "Utf8", left, raw)
        BY <2>1, <2>2
    <2> QED
        BY <2>3
<1>5. CASE \E introducer \in {Introducer, SgrIntroducer} :
             LET params == SubSeq(raw, Len(introducer) + 1, Len(raw))
             IN  raw = introducer \o params /\ params \in Seq(ParamBytes)
    BY <1>2, <1>5
<1> QED
    BY <1>1, <1>3, <1>4, <1>5 DEF Unfinished, X10Introducer

LEMMA Only200 == Params(<<"200">>)[1] = "200" /\ <<"200">> \in Seq(ParamBytes)
<1> DEFINE s == <<"200">>
           h == CHOOSE x : ParamsBy(x, s)
           x == <<"0">>
<1>1. "200" \in ParamBytes /\ ~Semi("200")
    BY Zenon DEF ParamBytes, Digits, Semi
<1>2. s \in Seq(ParamBytes) /\ Len(s) = 1 /\ s[1] = "200"
    BY <1>1
<1> HIDE DEF s
<1>3. Params(s) = h[Len(s)]
    BY DEF Params, ParamsBy, Semi
<1>4. h[0] = x /\ h[1] = IF Semi(s[1]) THEN Append(h[1 - 1], "0")
                        ELSE Append(Front(h[1 - 1]), s[1])
    <2>1. /\ h[0] = x
          /\ \A n \in 1..Len(s) : h[n] = IF Semi(s[n]) THEN Append(h[n - 1], "0")
                                        ELSE Append(Front(h[n - 1]), s[n])
        BY <1>2, ParamsGo
    <2>2. 1 \in 1..Len(s)
        BY <1>2
    <2> HIDE DEF h
    <2> QED
        BY <2>1, <2>2
<1>5. Front(x) = <<>>
    <2>1. Len(x) - 1 = 0 /\ SubSeq(x, 1, 0) = <<>>
        OBVIOUS
    <2> QED
        BY <2>1 DEF Front
<1> HIDE DEF h, x
<1>6. h[1] = Append(<<>>, "200")
    <2>1. 1 - 1 = 0
        OBVIOUS
    <2> QED
        BY <1>1, <1>2, <1>4, <1>5, <2>1
<1>7. Append(<<>>, "200")[1] = "200"
    OBVIOUS
<1> QED
    BY <1>2, <1>3, <1>6, <1>7 DEF s

LEMMA PasteOpens == At(Fed(PasteStart), "PasteBuf", 0, <<>>)
<1> DEFINE m == <<"200">>
           d == Introducer \o m
           p == Fed(d)
           none == <<>>
<1>1. m \in Seq(ParamBytes) /\ m # <<>> /\ Params(m)[1] = "200" /\ "~" \in Bytes
    BY Only200, BytesOfKeys
<1>2. Append(d, "~") = PasteStart
    <2>1. d = <<"esc", "[", "200">>
        <3>1. Introducer \in Seq(Bytes) /\ "200" \in Bytes
            BY BytesOfKeys
        <3>2. Introducer \o <<"200">> = Append(Introducer, "200")
            BY <3>1, AppendIsConcat
        <3>3. Append(<<"esc", "[">>, "200") = <<"esc", "[", "200">>
            BY AppendToTwo
        <3> QED
            BY <3>2, <3>3, Zenon DEF Introducer
    <2> HIDE DEF d
    <2>2. Append(<<"esc", "[", "200">>, "~") = <<"esc", "[", "200", "~">>
        BY AppendToThree
    <2> QED
        BY <2>1, <2>2 DEF PasteStart
<1> HIDE DEF m
<1>3. d \in Seq(Bytes) /\ SubSeq(d, 3, Len(d)) = m
    BY <1>1, IntroducerThen
<1>4. At(p, "CsiParam", 0, d)
    BY <1>1, AfterNumbers
<1>5. Fed(PasteStart) = Step(p, "~")
    BY <1>1, <1>2, <1>3, FedOne
<1>6. Step(p, "~") = CsiParam(p, "~") /\ p.buf = d /\ p.left = 0 /\ p \in ParserType
    BY <1>4 DEF Step, At
<1>7. CsiParams(p) = Params(m)
    BY <1>3, <1>6, Zenon DEF CsiParams
<1> HIDE DEF d, p
<1>8. CsiParam(p, "~") = [p EXCEPT !.state = "PasteBuf", !.buf = none]
    <2>1. "~" \notin ParamBytes /\ CsiParams(p)[1] = "200"
        BY <1>1, <1>7, BytesOfKeys DEF Finals
    <2> QED
        BY <2>1, Zenon DEF CsiParam, ParamBytes
<1>9. none \in Seq(Bytes) /\ "PasteBuf" \in ParserStates /\ 0 \in 0..3
    BY DEF ParserStates
<1> HIDE DEF none
<1>10. [p EXCEPT !.state = "PasteBuf", !.buf = none] = Moved(p, "PasteBuf", p.left, none)
    BY <1>6, <1>9, LeftKept
<1>11. At(Moved(p, "PasteBuf", 0, none), "PasteBuf", 0, none)
    BY <1>4, <1>9, MovedAt
<1>12. At(Fed(PasteStart), "PasteBuf", 0, none)
    BY <1>5, <1>6, <1>8, <1>10, <1>11
<1> QED
    BY <1>12 DEF none

\* The text before the marker is kept.
LEMMA PasteGoes ==
    ASSUME NEW text \in Seq(Bytes), NEW n \in Nat, n <= Len(text),
           \A k \in 1..n : ~IsSuffix(PasteEnd, SubSeq(text, 1, k))
    PROVE  At(Fed(PasteStart \o SubSeq(text, 1, n)), "PasteBuf", 0, SubSeq(text, 1, n))
<1> DEFINE T(k) == SubSeq(text, 1, k)
           D(k) == PasteStart \o T(k)
           Good(k) == At(Fed(D(k)), "PasteBuf", 0, T(k))
           S == {k \in Nat : k <= n => Good(k)}
<1>1. 0 \in S
    <2>1. T(0) = <<>> /\ D(0) = PasteStart
        BY PasteStartType
    <2>2. Good(0)
        BY <2>1, PasteOpens
    <2> QED
        BY <2>2
<1>2. ASSUME NEW k \in Nat, k \in S PROVE k + 1 \in S
    <2> SUFFICES ASSUME k + 1 <= n PROVE Good(k + 1)
        OBVIOUS
    <2> DEFINE byte == text[k + 1]
               p == Fed(D(k))
    <2>1. k \in 0..(Len(text) - 1) /\ k + 1 \in 1..n
        OBVIOUS
    <2>2. T(k) \in Seq(Bytes) /\ T(k + 1) = Append(T(k), byte) /\ byte \in Bytes
          /\ PasteStart \in Seq(Bytes)
        BY <2>1, TakenNext, PasteStartType
    <2>3. ~IsSuffix(PasteEnd, T(k + 1))
        BY <2>1
    <2>4. At(p, "PasteBuf", 0, T(k))
        BY <1>2
    <2> HIDE DEF T, byte
    <2>5. D(k) \in Seq(Bytes) /\ D(k + 1) = Append(D(k), byte)
        <3>1. PasteStart \o T(k) \in Seq(Bytes)
            BY <2>2
        <3>2. Append(PasteStart \o T(k), byte) = PasteStart \o Append(T(k), byte)
            BY <2>2, AppendAssociates
        <3>3. PasteStart \o T(k + 1) = PasteStart \o Append(T(k), byte)
            BY <2>2, Zenon
        <3> QED
            BY <3>1, <3>2, <3>3
    <2>6. Fed(D(k + 1)) = Step(p, byte)
        BY <2>2, <2>5, FedOne
    <2> HIDE DEF p, D
    <2>7. Step(p, byte) = InPaste(p, byte) /\ p.buf = T(k)
        BY <2>4 DEF At, Step
    <2>8. InPaste(p, byte) = Push(p, byte)
        BY <2>2, <2>3, <2>7 DEF InPaste
    <2>9. At(Push(p, byte), "PasteBuf", 0, Append(T(k), byte))
        <3>1. "PasteBuf" \in ParserStates /\ 0 \in 0..3
            BY DEF ParserStates
        <3> QED
            BY <2>2, <2>4, <3>1, PushAt
    <2> QED
        BY <2>2, <2>6, <2>7, <2>8, <2>9
<1>3. n \in S
    <2> HIDE DEF S
    <2> QED
        BY <1>1, <1>2, NatSetInduction
<1> HIDE DEF Good
<1>4. Good(n)
    BY <1>3
<1> QED
    BY <1>4 DEF Good

LEMMA NoSuffixOfNone == ~IsSuffix(PasteEnd, <<>>)
<1>1. Reverse(<<>>) = <<>> /\ Len(<<>>) = 0
    BY DEF Reverse
<1>2. Len(PasteEnd) = 4
    BY DEF PasteEnd
<1>3. Len(Reverse(PasteEnd)) = 4
    <2>1. PasteEnd \in Seq({"esc", "[", "201", "~"})
        BY DEF PasteEnd
    <2> DEFINE B == {"esc", "[", "201", "~"}
               e == PasteEnd
    <2> HIDE DEF B, e
    <2>2. Reverse(e) = [j \in 1..Len(e) |-> e[(Len(e) - j) + 1]]
        BY DEF Reverse
    <2>3. e \in Seq(B) /\ Len(e) = 4
        BY <1>2, <2>1 DEF e, B
    <2>4. Reverse(e) \in Seq(B) /\ Len(Reverse(e)) = 4
        <3> DEFINE f == [j \in 1..4 |-> e[(4 - j) + 1]]
        <3>1. Reverse(e) = f
            BY <2>2, <2>3
        <3>2. \A j \in 1..4 : (4 - j) + 1 \in 1..4
            OBVIOUS
        <3>3. \A j \in 1..4 : e[j] \in B
            BY <2>3
        <3>4. f \in [1..4 -> B]
            BY <3>2, <3>3
        <3> HIDE DEF f
        <3> DEFINE n == 4
        <3>5. n \in Nat /\ f \in [1..n -> B]
            BY <3>4
        <3> HIDE DEF n
        <3>6. f \in Seq(B) /\ Len(f) = n
            BY <3>5
        <3> QED
            BY <3>1, <3>6 DEF n
    <2> QED
        BY <2>4 DEF e
<1> QED
    BY <1>1, <1>3 DEF IsSuffix, IsPrefix

LEMMA PasteAlone ==
    ASSUME NEW raw \in Seq(Bytes), NEW kind, PasteKey(raw, kind)
    PROVE  Alone(raw) = <<kind>>
<1> DEFINE text == SubSeq(raw, Len(PasteStart) + 1, Len(raw))
           len == Len(text)
<1>1. /\ raw = PasteStart \o text /\ kind = Kind("Paste")
      /\ \A n \in 0..len : IsSuffix(PasteEnd, SubSeq(text, 1, n)) <=> n = len
    BY DEF PasteKey
<1>2. text \in Seq(Bytes) /\ len \in Nat /\ PasteStart \in Seq(Bytes)
    <2>1. Len(PasteStart) \in Nat /\ PasteStart \in Seq(Bytes)
        BY PasteStartType
    <2> QED
        BY <2>1
<1> HIDE DEF text
<1>3. SubSeq(text, 1, len) = text
    BY <1>2, TakenAll
<1>4. len # 0
    <2> SUFFICES ASSUME len = 0 PROVE FALSE
        OBVIOUS
    <2>1. IsSuffix(PasteEnd, SubSeq(text, 1, 0))
        BY <1>1
    <2>2. SubSeq(text, 1, 0) = <<>>
        OBVIOUS
    <2>3. ~IsSuffix(PasteEnd, <<>>)
        BY NoSuffixOfNone
    <2> QED
        BY <2>1, <2>2, <2>3
<1> DEFINE n == len - 1
           t == SubSeq(text, 1, n)
           d == PasteStart \o t
           byte == text[n + 1]
           p == Fed(d)
<1>5. n \in Nat /\ n \in 0..(len - 1) /\ n + 1 = len
    BY <1>2, <1>4
<1>6. t \in Seq(Bytes) /\ byte \in Bytes /\ text = Append(t, byte)
    BY <1>2, <1>3, <1>5, TakenNext
<1>7. At(p, "PasteBuf", 0, t)
    <2>1. \A k \in 1..n : ~IsSuffix(PasteEnd, SubSeq(text, 1, k))
        <3>1. n + 1 = len /\ n \in Nat /\ len \in Nat
            BY <1>2, <1>5
        <3> HIDE DEF n, len
        <3>2. \A k \in 1..n : k \in 0..len /\ k # len
            BY <3>1
        <3> QED
            BY <1>1, <3>2
    <2>2. n <= len
        BY <1>2
    <2> HIDE DEF n
    <2> QED
        BY <1>2, <1>5, <2>1, <2>2, PasteGoes
<1>8. IsSuffix(PasteEnd, text)
    <2>1. len \in 0..len
        BY <1>2
    <2> QED
        BY <1>1, <1>3, <2>1
<1> HIDE DEF n, t, byte
<1>9. d \in Seq(Bytes) /\ raw = Append(d, byte)
    BY <1>1, <1>2, <1>6, AppendAssociates
<1>10. kind \in KindType
    BY <1>1, KindsType DEF Keys
<1>11. Step(p, byte) = Emit(p, raw, kind)
    <2>1. Step(p, byte) = InPaste(p, byte) /\ p.buf = t
        BY <1>7 DEF At, Step
    <2> HIDE DEF p
    <2> QED
        BY <1>1, <1>6, <1>8, <2>1 DEF InPaste
<1> HIDE DEF d, p
<1>12. Alone(Append(d, byte)) = <<kind>>
    BY <1>6, <1>7, <1>9, <1>10, <1>11, EndsKey DEF p
<1> QED
    BY <1>9, <1>12

LEMMA KeyAlone ==
    ASSUME NEW raw \in Seq(Bytes), NEW kind, Key(raw, kind)
    PROVE  Alone(raw) = <<kind>> /\ kind \in KindType
<1>1. PlainKey(raw, kind) => Alone(raw) = <<kind>>
    BY PlainAlone
<1>2. EscapeKey(raw, kind) => Alone(raw) = <<kind>>
    BY EscapeAlone DEF EscapeKey, Esc
<1>3. AltKey(raw, kind) => Alone(raw) = <<kind>>
    BY AltAlone
<1>4. Ss3Key(raw, kind) => Alone(raw) = <<kind>>
    BY Ss3Alone
<1>5. CsiKey(raw, kind) => Alone(raw) = <<kind>>
    BY CsiAlone
<1>6. MouseKey(raw, kind) => Alone(raw) = <<kind>>
    BY MouseAlone
<1>7. PasteKey(raw, kind) => Alone(raw) = <<kind>>
    BY PasteAlone
<1>8. CharKey(raw, kind) => Alone(raw) = <<kind>>
    BY CharAlone
<1>9. Unfinished(raw, kind) => Alone(raw) = <<kind>>
    BY UnfinishedAlone
<1>10. Alone(raw) = <<kind>>
    BY <1>1, <1>2, <1>3, <1>4, <1>5, <1>6, <1>7, <1>8, <1>9 DEF Key
<1>11. kind \in KindType
    <2> DEFINE K == KindType
               a == Alone(raw)
    <2>1. a \in Seq(K)
        BY AloneType
    <2>2. a = <<kind>>
        BY <1>10
    <2> HIDE DEF a, K
    <2>3. Len(a) = 1 /\ a[1] = kind
        BY <2>2
    <2>4. 1 \in 1..Len(a)
        BY <2>3
    <2>5. a[1] \in K
        BY <2>1, <2>4
    <2> QED
        BY <2>3, <2>5 DEF K
<1> QED
    BY <1>10, <1>11

LEMMA BytesSplit ==
    ASSUME NEW raw \in Seq(Bytes), NEW n \in 0..Len(raw)
    PROVE  /\ SubSeq(raw, 1, n) \in Seq(Bytes) /\ SubSeq(raw, n + 1, Len(raw)) \in Seq(Bytes)
           /\ raw = SubSeq(raw, 1, n) \o SubSeq(raw, n + 1, Len(raw))
<1> DEFINE B == Bytes
<1> HIDE DEF B
<1>1. raw \in Seq(B)
    BY DEF B
<1>2. raw = SubSeq(raw, 1, n) \o SubSeq(raw, n + 1, Len(raw))
    BY <1>1, SplitAt
<1>3. SubSeq(raw, 1, n) \in Seq(B) /\ SubSeq(raw, n + 1, Len(raw)) \in Seq(B)
    BY <1>1
<1> QED
    BY <1>2, <1>3 DEF B

LEMMA FirstByte ==
    ASSUME NEW raw \in Seq(Bytes), Len(raw) >= 1
    PROVE  SubSeq(raw, 1, 1) = <<raw[1]>> /\ raw[1] \in Bytes
<1> DEFINE d == SubSeq(raw, 1, 1)
           byte == raw[1]
<1>1. byte \in Bytes
    OBVIOUS
<1>2. d \in Seq(Bytes) /\ Len(d) = 1 /\ d[1] = byte
    OBVIOUS
<1> HIDE DEF d, byte
<1>3. d = <<byte>>
    BY <1>2
<1> QED
    BY <1>1, <1>3 DEF d, byte

LEMMA AfterOne ==
    ASSUME NEW p \in ParserType, NEW byte \in Bytes
    PROVE  After(p, <<byte>>) = Step(p, byte)
<1> DEFINE none == <<>>
<1>1. none \in Seq(Bytes) /\ Append(none, byte) = <<byte>>
    OBVIOUS
<1> HIDE DEF none
<1>2. After(p, Append(none, byte)) = Step(After(p, none), byte)
    BY <1>1, AfterAppend
<1>3. After(p, none) = p
    BY AfterNone DEF none
<1> QED
    BY <1>1, <1>2, <1>3

LEMMA PairOfOnes ==
    ASSUME NEW a, NEW b
    PROVE  <<a>> \o <<b>> = <<a, b>>
<1> DEFINE S == {a, b}
           s == <<a>>
<1>1. s \in Seq(S) /\ b \in S
    OBVIOUS
<1> HIDE DEF s, S
<1>2. s \o <<b>> = Append(s, b)
    BY <1>1, AppendIsConcat
<1>3. Append(<<a>>, b) = <<a, b>>
    BY AppendToOne
<1> QED
    BY <1>2, <1>3 DEF s

\* A character broken off is given out as Unknown, and what follows stands alone.
LEMMA BrokenAlone ==
    ASSUME NEW raw \in Seq(Bytes), NEW n \in 1..(Len(raw) - 1), NEW kind,
           BeginsChar(raw, n), n <= Lead[raw[1]], raw[n + 1] # "cont",
           Key(SubSeq(raw, n + 1, Len(raw)), kind)
    PROVE  Alone(raw) = <<Unknown, kind>>
<1> DEFINE d == SubSeq(raw, 1, n)
           t == SubSeq(raw, n + 1, Len(raw))
           byte == t[1]
           s == SubSeq(t, 2, Len(t))
           one == <<byte>>
           p == Fed(d)
           e == [raw |-> d, kind |-> Unknown]
           o == <<e>>
<1>1. /\ d \in Seq(Bytes) /\ t \in Seq(Bytes) /\ raw = d \o t
      /\ byte = raw[n + 1] /\ Len(t) \in Nat \ {0}
    <2>1. n \in 0..Len(raw)
        OBVIOUS
    <2>2. d \in Seq(Bytes) /\ t \in Seq(Bytes) /\ raw = d \o t
        BY <2>1, BytesSplit
    <2>3. Len(t) = Len(raw) - n /\ t[1] = raw[n + 1]
        OBVIOUS
    <2>4. Len(raw) - n \in Nat \ {0}
        OBVIOUS
    <2> QED
        BY <2>2, <2>3, <2>4
<1>2. \E left \in 1..2 : At(p, "Utf8", left, d)
    BY CharTaken
<1> HIDE DEF d, t
<1>3. Alone(t) = <<kind>> /\ kind \in KindType
    BY <1>1, KeyAlone DEF t
<1>4. byte \in Bytes /\ s \in Seq(Bytes) /\ one \in Seq(Bytes) /\ t = one \o s
    <2>1. 1 \in 0..Len(t) /\ 1 \in 1..Len(t)
        BY <1>1
    <2>2. t = SubSeq(t, 1, 1) \o s /\ s \in Seq(Bytes)
        <3>1. t = SubSeq(t, 1, 1) \o SubSeq(t, 1 + 1, Len(t)) /\ SubSeq(t, 1 + 1, Len(t)) \in Seq(Bytes)
            BY <1>1, <2>1, BytesSplit
        <3>2. 1 + 1 = 2
            OBVIOUS
        <3> QED
            BY <3>1, <3>2
    <2>3. SubSeq(t, 1, 1) = one /\ byte \in Bytes
        BY <1>1, <2>1, FirstByte
    <2>4. one \in Seq(Bytes)
        BY <2>3
    <2> HIDE DEF one, byte, s
    <2> QED
        BY <2>2, <2>3, <2>4
<1>5. p \in ParserType /\ p.state = "Utf8" /\ p.buf = d /\ p.out = <<>>
    BY <1>2 DEF At
<1>6. Fed(t) \in ParserType
    BY <1>1, NewParserType, FeedAfter DEF Fed
<1> HIDE DEF p, byte, one, s
<1>7. /\ e \in KeyEventType /\ o \in Seq(KeyEventType) /\ e.kind = Unknown
      /\ Emit(p, d, Unknown) = Before(o, NewParser)
    <2>1. /\ Emit(p, d, Unknown) \in ParserType
          /\ Emit(p, d, Unknown).state = "Ground" /\ Emit(p, d, Unknown).left = 0
          /\ Emit(p, d, Unknown).buf = <<>>
          /\ Emit(p, d, Unknown).out = Append(p.out, e) /\ e \in KeyEventType
        BY <1>1, <1>5, KindsType, EmitType
    <2>2. e.kind = Unknown
        OBVIOUS
    <2> HIDE DEF e
    <2>3. o \in Seq(KeyEventType) /\ Append(<<>>, e) = o /\ o \o <<>> = o
        BY <2>1
    <2> HIDE DEF o
    <2>4. /\ Before(o, NewParser) \in ParserType /\ Before(o, NewParser).state = "Ground"
          /\ Before(o, NewParser).left = 0 /\ Before(o, NewParser).buf = <<>>
          /\ Before(o, NewParser).out = o
        BY <2>3, NewParserType, BeforeFields
    <2>5. Emit(p, d, Unknown) = Before(o, NewParser)
        BY <1>5, <2>1, <2>3, <2>4, SameParser
    <2> QED
        BY <2>1, <2>2, <2>3, <2>5
<1> DEFINE b == Before(o, NewParser)
<1> HIDE DEF e, o
<1>8. b \in ParserType /\ b.state = "Ground"
    BY <1>7, NewParserType, BeforeFields
<1>9. Step(p, byte) = Step(b, byte)
    <2>1. Step(p, byte) = Utf8Cont(p, byte)
        BY <1>5 DEF Step
    <2>2. Utf8Cont(p, byte) = Ground(Emit(p, d, Unknown), byte)
        BY <1>1, <1>5 DEF Utf8Cont
    <2>3. Step(b, byte) = Ground(b, byte)
        BY <1>8 DEF Step
    <2> QED
        BY <1>7, <2>1, <2>2, <2>3
<1> HIDE DEF b
<1>10. After(p, t) = After(b, t)
    <2>1. /\ After(p, one \o s) = After(After(p, one), s)
          /\ After(b, one \o s) = After(After(b, one), s)
        BY <1>4, <1>5, <1>8, AfterConcat
    <2>2. After(p, one) = Step(p, byte) /\ After(b, one) = Step(b, byte)
        BY <1>4, <1>5, <1>8, AfterOne DEF one
    <2> QED
        BY <1>4, <1>9, <2>1, <2>2
<1>11. Fed(raw) = Before(o, Fed(t))
    <2>1. Fed(raw) = After(p, t)
        BY <1>1, NewParserType, AfterConcat DEF Fed, p
    <2>2. After(b, t) = Before(o, Fed(t))
        BY <1>1, <1>7, NewParserType, AfterBefore DEF b, Fed
    <2> QED
        BY <1>10, <2>1, <2>2
<1> DEFINE f == Flush(Fed(t)).out
<1>12. Flush(Fed(raw)).out = o \o f /\ f \in Seq(KeyEventType)
    BY <1>6, <1>7, <1>11, FlushedBefore, FlushType
<1>13. Kinds(f) = <<kind>>
    BY <1>3 DEF Alone, Fed
<1> HIDE DEF f
<1>14. Kinds(o \o f) = Kinds(o) \o Kinds(f)
    BY <1>7, <1>12, KindsConcat
<1>15. Kinds(o) = <<Unknown>>
    BY <1>7, KindsFew DEF o
<1>16. <<Unknown>> \o <<kind>> = <<Unknown, kind>>
    BY PairOfOnes
<1> QED
    BY <1>12, <1>13, <1>14, <1>15, <1>16 DEF Alone, Fed

\* Whatever is typed is recognised when nothing else is.
LEMMA UnitsAreRecognised == UnitsRecognised
<1> SUFFICES ASSUME NEW u \in Units PROVE u.kinds = Alone(u.raw)
    BY DEF UnitsRecognised
<1> DEFINE raw == u.raw
           kinds == u.kinds
<1>1. raw \in Seq(Bytes) /\ Typeable(raw, kinds)
    BY ReaderAssumption
<1> HIDE DEF raw, kinds
<1>2. CASE kinds = <<kinds[1]>> /\ Key(raw, kinds[1])
    BY <1>1, <1>2, KeyAlone DEF raw, kinds
<1>3. ASSUME kinds = <<Unknown, kinds[2]>>, NEW n \in 1..(Len(raw) - 1),
             BeginsChar(raw, n), n <= Lead[raw[1]], raw[n + 1] # "cont",
             Key(SubSeq(raw, n + 1, Len(raw)), kinds[2])
      PROVE  kinds = Alone(raw)
    <2>1. Alone(raw) = <<Unknown, kinds[2]>>
        BY <1>1, <1>3, BrokenAlone
    <2> QED
        BY <1>3, <2>1
<1>4. kinds = Alone(raw)
    BY <1>1, <1>2, <1>3 DEF Typeable, raw, kinds
<1> QED
    BY <1>4 DEF raw, kinds

\* Keys are recognised: however the bytes of what is typed are cut and whichever
\* timeouts strike between units, read() returns the kinds of the keys typed.
THEOREM KeysAlwaysRecognised == ReaderSpec => []KeysRecognised
<1>1. ReaderInit => KeysInv
    BY KeysStart
<1>2. KeysInv /\ [ReaderNext]_readerVars => KeysInv'
    BY UnitsAreRecognised, KeysKept
<1>3. KeysInv => KeysRecognised
    BY KeysInvRecognises
<1> QED
    BY <1>1, <1>2, <1>3, PTL DEF ReaderSpec
===============================================================================
