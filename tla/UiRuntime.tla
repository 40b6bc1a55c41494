------------------------------- MODULE UiRuntime -------------------------------
(***************************************************************************)
(* The event loop of src/ui/runtime.rs with the PTY it owns.  Four kinds   *)
(* of threads meet in one queue of events: the keyboard, the reader of     *)
(* each PTY, the bridge that runs the commands of the UI, and the loop     *)
(* itself, whose restarts make the reader of the old PTY report its exit.  *)
(*                                                                         *)
(*   keyboard --events--> loop --commands--> bridge --events--> loop       *)
(*                          \--respawn--> PTY reader --events--> loop      *)
(*                                                                         *)
(* Only the handlers that touch the PTY are here; a key is already         *)
(* classified (src/ui/input.rs).  The settings are one switch, 0 or 1, as  *)
(* builtin_registry has a single entry.                                    *)
(***************************************************************************)
EXTENDS PtyLifecycle, Integers, FiniteSets

CONSTANTS
    CommandBuffer,  \* UI_COMMAND_BUFFER, the room between loop and bridge
    SessionSource,  \* how the command line names the session
    SavesFail,      \* the config file may refuse to be written
    MaxKeys,        \* bounds, for model checking only: keys pressed,
    MaxPresses,     \* restarts or quits among them,
    MaxOutputs      \* and output events in the queue

ASSUME UiAssumption ==
    /\ CommandBuffer \in Nat \ {0}
    /\ SessionSource \in {"generated", "explicit", "resumed"}
    /\ SavesFail \in BOOLEAN
    /\ {MaxKeys, MaxPresses, MaxOutputs} \subseteq Nat

VARIABLES
    lifecycle,          \* App.pty_store
    pty_handle,         \* App.pty_handle: the generation it writes to
    pty_generation,     \* App.pty_generation
    should_quit,        \* App.should_quit
    restart_can_retry,  \* local of run()
    pty_session,        \* local of run(): the generation of the last PTY spawned
    settings,           \* App.settings_manager
    saved,              \* the settings in the config file
    events,             \* the event queue
    commands,           \* the command queue
    ptys,               \* generation to the PTY spawned under it
    sessions,           \* how many session ids have been generated
    typed, presses      \* what the user has typed and asked for so far

uiVars == <<lifecycle, pty_handle, pty_generation, should_quit,
            restart_can_retry, pty_session, settings, saved, events, commands,
            ptys, sessions, typed, presses>>

NoPty == -1

Pty == [ alive   : BOOLEAN,     \* the child runs
         reader  : BOOLEAN,     \* its reader thread runs
         drawn   : BOOLEAN,     \* cursor hidden, and past the first row
         resumed : BOOLEAN,     \* spawned with --resume
         session : Nat,         \* the session it was told to run
         agents  : {0, 1},      \* the settings in its environment
         written : Seq(Nat) ]   \* the input it was given

EventKinds == {"input", "ctrl_r", "ctrl_q", "apply", "output", "exit",
               "restart_claude", "pty_restart"}

Event(kind, value) == [kind |-> kind, value |-> value]

CommandKinds == {"restart_claude", "restart_pty", "refresh_status"}

Spawned(session, resumed, agents) ==
    [ alive |-> TRUE, reader |-> TRUE, drawn |-> FALSE, resumed |-> resumed,
      session |-> session, agents |-> agents, written |-> <<>> ]

UiInit ==
    /\ lifecycle = Attach(Pending)
    /\ pty_handle = 0 /\ pty_generation = 0 /\ pty_session = 0
    /\ should_quit = FALSE /\ restart_can_retry = FALSE
    /\ settings = 0 /\ saved = 0
    /\ events = <<>> /\ commands = <<>>
    /\ ptys = [g \in {0} |-> Spawned(0, SessionSource = "resumed", 0)]
    /\ sessions = 0
    /\ typed = 0 /\ presses = 0

-----------------------------------------------------------------------------
(* The other threads. *)

Post(e) == events' = Append(events, e)

\* The keyboard.
Type ==
    /\ typed + presses < MaxKeys
    /\ typed' = typed + 1
    /\ Post(Event("input", typed + 1))
    /\ UNCHANGED presses

Press ==
    /\ presses < MaxPresses /\ typed + presses < MaxKeys
    /\ presses' = presses + 1
    /\ \/ Post(Event("ctrl_r", 0))
       \/ Post(Event("ctrl_q", 0))
       \/ \E v \in {0, 1} : Post(Event("apply", v))
    /\ UNCHANGED typed

Keyboard ==
    /\ Type \/ Press
    /\ UNCHANGED <<lifecycle, pty_handle, pty_generation, should_quit,
                   restart_can_retry, pty_session, settings, saved, commands,
                   ptys, sessions>>

\* The child of a PTY exits by itself.
ChildExits(g) ==
    /\ ptys[g].alive
    /\ ptys' = [ptys EXCEPT ![g].alive = FALSE]
    /\ UNCHANGED events

\* The reader feeds the emulator and then posts the event, which does not say
\* whose output it is.  A reader the loop gave up on goes on.
ReaderOutput(g) ==
    /\ ptys[g].reader
    /\ Cardinality({i \in DOMAIN events : events[i].kind = "output"}) < MaxOutputs
    /\ \E drawn \in BOOLEAN : ptys' = [ptys EXCEPT ![g].drawn = drawn]
    /\ Post(Event("output", 0))

\* End of file, or a read error that is shown and does not end the PTY.
ReaderEnds(g) ==
    /\ ptys[g].reader /\ ~ptys[g].alive
    /\ ptys' = [ptys EXCEPT ![g].reader = FALSE]
    /\ Post(Event("exit", g)) \/ UNCHANGED events

PtyStep ==
    /\ \E g \in DOMAIN ptys : ChildExits(g) \/ ReaderOutput(g) \/ ReaderEnds(g)
    /\ UNCHANGED <<lifecycle, pty_handle, pty_generation, should_quit,
                   restart_can_retry, pty_session, settings, saved, commands,
                   sessions, typed, presses>>

\* run_ui_bridge.  A command leaves the queue when it has been executed.
Bridge ==
    /\ commands # <<>>
    /\ commands' = Tail(commands)
    /\ LET c == Head(commands) IN
         \/ /\ c.kind = "refresh_status"
            /\ UNCHANGED <<events, saved>>
         \/ /\ c.kind = "restart_claude"
            /\ Post(Event("restart_claude", 0))
            /\ UNCHANGED saved
         \/ /\ c.kind = "restart_pty"
            /\ saved' = c.value
            /\ Post(Event("pty_restart", c.value))
         \/ /\ c.kind = "restart_pty" /\ SavesFail
            /\ UNCHANGED <<events, saved>>
    /\ UNCHANGED <<lifecycle, pty_handle, pty_generation, should_quit,
                   restart_can_retry, pty_session, settings, ptys, sessions,
                   typed, presses>>

-----------------------------------------------------------------------------
(* The loop. *)

Handles(kind) ==
    /\ ~should_quit
    /\ events # <<>>
    /\ Head(events).kind = kind

Value == Head(events).value

Done == events' = Tail(events)

CanSend == Len(commands) < CommandBuffer

Send(kind, value) == commands' = Append(commands, Event(kind, value))

\* Tick: refresh the status, if there is room for the command.
OnTick ==
    /\ ~should_quit
    /\ CanSend
    /\ Send("refresh_status", 0)
    /\ UNCHANGED <<lifecycle, pty_handle, pty_generation, should_quit,
                   restart_can_retry, pty_session, settings, saved, events,
                   ptys, sessions>>

\* PtyHandle::send_input; the input of a child that has exited is lost.
Written(g, inputs) ==
    [ptys EXCEPT ![g].written = IF ptys[g].alive THEN @ \o inputs ELSE @]

SendInput(i) ==
    IF IsReady(lifecycle)
    THEN ptys' = Written(pty_handle, <<i>>) /\ UNCHANGED lifecycle
    ELSE lifecycle' = BufferInput(lifecycle, i) /\ UNCHANGED ptys

OnInput ==
    /\ Handles("input") /\ Done
    /\ SendInput(Value)
    /\ UNCHANGED <<pty_handle, pty_generation, should_quit, restart_can_retry,
                   pty_session, settings, saved, commands, sessions>>

OnQuit ==
    /\ Handles("ctrl_q") /\ Done
    /\ should_quit' = TRUE
    /\ UNCHANGED <<lifecycle, pty_handle, pty_generation, restart_can_retry,
                   pty_session, settings, saved, commands, ptys, sessions>>

\* Mutant of RequestRestart: a command that finds no room is forgotten.
DetachAnyway(kind, value) ==
    /\ lifecycle' = Detach(lifecycle)
    /\ IF CanSend THEN Send(kind, value) ELSE UNCHANGED commands

\* Detach, then the command; SpawnFailed when the queue is full.
RequestRestart(kind, value) ==
    IF CanSend
    THEN lifecycle' = Detach(lifecycle) /\ Send(kind, value)
    ELSE lifecycle' = SpawnFailed(Detach(lifecycle)) /\ UNCHANGED commands

\* request_restart_claude
OnCtrlR ==
    /\ Handles("ctrl_r") /\ Done
    /\ RequestRestart("restart_claude", 0)
    /\ UNCHANGED <<pty_handle, pty_generation, should_quit, restart_can_retry,
                   pty_session, settings, saved, ptys, sessions>>

\* apply_settings: nothing to do when the dialog changed nothing.
OnApply ==
    /\ Handles("apply") /\ Done
    /\ settings' = Value
    /\ IF Value # settings THEN RequestRestart("restart_pty", Value)
       ELSE UNCHANGED <<lifecycle, commands>>
    /\ UNCHANGED <<pty_handle, pty_generation, should_quit, restart_can_retry,
                   pty_session, saved, ptys, sessions>>

Drawn == pty_handle # NoPty /\ ptys[pty_handle].drawn

\* on_pty_output
OnOutput ==
    /\ Handles("output") /\ Done
    /\ IF ~IsReady(lifecycle) /\ Drawn
       THEN /\ lifecycle' = GotOutput(lifecycle)
            /\ ptys' = Written(pty_handle, Flushed(lifecycle))
            /\ restart_can_retry' = FALSE
       ELSE UNCHANGED <<lifecycle, ptys, restart_can_retry>>
    /\ UNCHANGED <<pty_handle, pty_generation, should_quit, pty_session,
                   settings, saved, commands, sessions>>

\* PtySession::shutdown of the present PTY: the child is gone when it returns,
\* the reader has ended or is abandoned after two seconds.
ShutdownLeaves(e, reader) ==
    LET p == ptys[pty_session] IN
    \/ p.reader /\ reader = FALSE /\ e \in {<<Event("exit", pty_session)>>, <<>>}
    \/ reader = p.reader /\ e = <<>>

\* Mutant of AfterShutdown: the present PTY is left running.
NoShutdown(reader) == ptys

AfterShutdown(reader) ==
    [ptys EXCEPT ![pty_session].alive = FALSE, ![pty_session].reader = reader]

\* respawn_pty: the next generation, detach, shut the present PTY down, spawn.
Respawn(session, resumed, agents) ==
    \E e \in {<<>>, <<Event("exit", pty_session)>>}, reader \in BOOLEAN :
        /\ ShutdownLeaves(e, reader)
        /\ events' = Tail(events) \o e
        /\ pty_generation' = pty_generation + 1
        /\ \/ /\ ptys' = [g \in DOMAIN ptys \cup {pty_generation + 1} |->
                            IF g = pty_generation + 1
                            THEN Spawned(session, resumed, agents)
                            ELSE AfterShutdown(reader)[g]]
              /\ pty_session' = pty_generation + 1
              /\ pty_handle' = pty_generation + 1
              /\ lifecycle' = Attach(Detach(lifecycle))
           \/ /\ ptys' = AfterShutdown(reader)
              /\ pty_handle' = NoPty
              /\ lifecycle' = SpawnFailed(Detach(lifecycle))
              /\ UNCHANGED pty_session

\* resolve_session, which runs again for every spawn but that of Ctrl+R: a
\* session the command line does not name is a new one each time.
ResolveSession ==
    sessions' = IF SessionSource = "generated" THEN sessions + 1 ELSE sessions

\* RestartClaude: resume the session of the start.
OnRestartClaude ==
    /\ Handles("restart_claude")
    /\ Respawn(0, TRUE, settings)
    /\ restart_can_retry' = IsAttached(lifecycle')
    /\ UNCHANGED <<should_quit, settings, saved, commands, sessions>>

\* PtyRestart: the variables of the command come on top of the settings.
OnPtyRestart ==
    /\ Handles("pty_restart")
    /\ ResolveSession
    /\ Respawn(sessions', SessionSource = "resumed", IF Value = 1 THEN 1 ELSE settings)
    /\ restart_can_retry' = IsAttached(lifecycle')
    /\ UNCHANGED <<should_quit, settings, saved, commands>>

\* Mutant of IsStale: any exit is taken for that of the present PTY.
NeverStale(g) == FALSE

IsStale(g) == g # pty_generation \/ IsRestarting(lifecycle)

\* ProcessExit
OnExit ==
    /\ Handles("exit")
    /\ restart_can_retry' = FALSE
    /\ LET restarted == pty_generation > 0 /\ ~IsReady(lifecycle) IN
       \/ /\ IsStale(Value) /\ Done
          /\ UNCHANGED <<lifecycle, pty_handle, pty_generation, should_quit,
                         pty_session, ptys, sessions>>
       \/ /\ ~IsStale(Value) /\ restarted /\ restart_can_retry
          /\ ResolveSession
          /\ Respawn(sessions', SessionSource = "resumed", settings)
          /\ UNCHANGED should_quit
       \/ /\ ~IsStale(Value) /\ restarted /\ ~restart_can_retry /\ Done
          /\ lifecycle' = SpawnFailed(lifecycle)
          /\ UNCHANGED <<pty_handle, pty_generation, should_quit, pty_session,
                         ptys, sessions>>
       \/ /\ ~IsStale(Value) /\ ~restarted /\ Done
          /\ should_quit' = TRUE
          /\ UNCHANGED <<lifecycle, pty_handle, pty_generation, pty_session,
                         ptys, sessions>>
    /\ UNCHANGED <<settings, saved, commands>>

HandleEvent ==
    /\ OnInput \/ OnQuit \/ OnCtrlR \/ OnApply \/ OnOutput
       \/ OnRestartClaude \/ OnPtyRestart \/ OnExit
    /\ UNCHANGED <<typed, presses>>

\* When the loop has been left, what the other threads do concerns nobody.
UiNext ==
    /\ ~should_quit
    /\ \/ Keyboard
       \/ PtyStep
       \/ Bridge
       \/ HandleEvent
       \/ OnTick /\ UNCHANGED <<typed, presses>>

UiSpec == UiInit /\ [][UiNext]_uiVars

\* The loop takes the next event and the bridge the next command as long as
\* there is one: both are threads that do nothing else.
UiFairSpec == UiSpec /\ WF_uiVars(HandleEvent) /\ WF_uiVars(Bridge)

-----------------------------------------------------------------------------
(* What must hold. *)

EventType   == [kind : EventKinds \ {"apply"}, value : Nat]
               \cup [kind : {"apply"}, value : {0, 1}]
CommandType == [kind : CommandKinds, value : {0, 1}]

UiTypeOK ==
    /\ lifecycle \in Lifecycle
    /\ ~IsBuffering(lifecycle) => lifecycle.buffer = <<>>
    /\ pty_generation \in Nat
    /\ ptys \in [DOMAIN ptys -> Pty] /\ DOMAIN ptys \subseteq 0..pty_generation
    /\ pty_session \in DOMAIN ptys
    /\ pty_handle \in {NoPty, pty_session}
    /\ {should_quit, restart_can_retry} \subseteq BOOLEAN
    /\ {settings, saved} \subseteq {0, 1}
    /\ events \in Seq(EventType)
    /\ commands \in Seq(CommandType)
    /\ {sessions, typed, presses} \subseteq Nat

Live == {g \in DOMAIN ptys : ptys[g].alive}

\* src/ui/pty/state.rs:18: while the lifecycle is Attached or Ready, input goes
\* to the PTY of the present generation, whose exit the loop will not take for
\* a stale one, and no other child is left running.
AttachedToPresent ==
    /\ IsAttached(lifecycle) \/ IsReady(lifecycle) =>
          /\ pty_handle = pty_session
          /\ pty_session = pty_generation
    /\ Live \subseteq {pty_session}

Increasing(s) == \A i, j \in DOMAIN s : i < j => s[i] < s[j]

\* src/ui/pty/mod.rs:3: what was typed before a PTY was ready is written ahead of
\* what was typed after, in the order it was typed and once.
InputInOrder ==
    \A g \in DOMAIN ptys :
        Increasing(ptys[g].written \o IF g = pty_handle THEN lifecycle.buffer ELSE <<>>)

Continues(s, t) == Len(t) <= Len(s) /\ SubSeq(s, 1, Len(t)) = t

\* src/ui/pty/state.rs:10: input buffered for a PTY that runs is given up only for
\* a restart the user asked for.
BufferedInputReachesPty ==
    [][pty_handle # NoPty /\ ptys[pty_handle].alive /\ ~IsRestarting(lifecycle') =>
         \/ Continues(lifecycle'.buffer, lifecycle.buffer)
         \/ ptys'[pty_handle].written = ptys[pty_handle].written \o lifecycle.buffer
         \/ Head(events).kind \in {"ctrl_r", "apply", "restart_claude", "pty_restart"}
      ]_uiVars

\* src/ui/events.rs:65: the exit of an earlier PTY, however late its reader
\* reports it, ends neither the program nor the PTY that replaced it.
ExitConcernsPresent ==
    [][Handles("exit") /\ (should_quit' \/ pty_generation' # pty_generation) =>
         ~ptys[pty_session].alive]_uiVars

\* src/ui/pty/state.rs:26: Restarting is the time between two PTYs.  It ends,
\* with a PTY attached or the failure shown, unless the program quits first.
RestartCompletes == []<>(~IsRestarting(lifecycle) \/ should_quit)

\* The settings are not those of the file, and no command is going to save them.
SettingsUnsaved ==
    /\ settings # saved
    /\ \A i \in DOMAIN commands : commands[i].kind # "restart_pty"

\* src/ui/runtime.rs:828: every restart completes as long as every save does,
\* whatever finds the command queue full and whoever exits meanwhile.
RestartCompletesWhenSaved == <>SettingsUnsaved \/ RestartCompletes

\* src/ui/runtime.rs:690: the loop that takes the exit of a child started with
\* --resume, before that child is ready, starts another one.
FailedResumeRetried ==
    [][/\ OnExit /\ ~IsStale(Value)
       /\ IsAttached(lifecycle) /\ pty_generation > 0 /\ ptys[pty_generation].resumed
       => pty_generation' = pty_generation + 1]_uiVars
=============================================================================
