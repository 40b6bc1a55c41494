# Anycode: models and proofs

Anycode wraps Claude Code (or Copilot CLI) in a terminal UI and stands between it and its API as a
local proxy that can change the backend while conversations go on. This directory holds TLA+ models
of its core, the TLC runs that check them on small instances, and TLAPS proofs for every size.
Paths below are relative to the repository; `proxy/`, `ui/`, `config/`, `backend/`, `ipc/` and
`pty/` are directories of its `src/`.

- [The system](#the-system): the inventory
- [Modules](#modules): which one models what, and how it corresponds to the code
- [Runs](#runs): what each one shows, its bounds, and the fairness assumed
- [Proofs](#proofs): what holds for every instance, and why
- [Disagreements found](#disagreements-found)
- [Limits](#limits) and [Plan](#plan)

To repeat the checks, in this directory:

    tlc -workers 2 -config MCRequestPipeline.cfg MCRequestPipeline.tla
    tlapm RequestPipelineProofs.tla

## The system

One process runs five kinds of concurrent activity: the terminal's input thread and event loop, the
reader thread of each child PTY, the bridge that executes the UI's commands, the axum server with a
task for every request, and the IPC server. They share state behind locks; no lock is held across an
`await` of the pipeline, so other tasks run between any two acquisitions.

| Component | State | Operations | Meets | Hard behaviour | What makes it correct |
|---|---|---|---|---|---|
| Backend state (`backend/state.rs`) | active backend, profile, switch log | switch, update config, self-heal | pipeline, IPC, web UI | the active backend is removed by an update | the active backend is configured; the log tells how it became active |
| Agent routing (`backend/state.rs:59`, `proxy/hooks.rs`, `proxy/pipeline/routing.rs`) | agent backends, registry of running agents, AC markers | hooks, backend popup, choice of a backend for a request | backend state, pipeline | a choice or a switch between start, request and stop of an agent | a subagent stays on the backend it began on |
| Thinking registry (`proxy/thinking/registry.rs`) | session, backend, block cache | session switch, register, confirm, three cleanup rules | pipeline, IPC | late registration, eviction by others | only blocks the backend signed pass; a live conversation keeps its own |
| Request pipeline (`proxy/router.rs`, `proxy/pipeline/`, `sse.rs`) | requests in flight | route, resolve, begin session, filter and strip, forward, retry, register | all of the above | each step reads state another request may change | a backend sees no foreign thinking; a history goes out whole or bare |
| PTY session and UI runtime (`ui/runtime.rs`, `ui/app.rs`, `ui/pty/`, `pty/session.rs`) | lifecycle, PTY, generation, event and command queues | input, restarts of three kinds, exit, tick | config store, input thread | late events of earlier PTYs, full queue, failed spawn or save | input reaches the present PTY in order; a restart ends |
| Terminal input (`crates/term_input`) | parser state, pending events, read buffer | read, parse, flush on timeout | UI runtime | sequences cut anywhere, pastes longer than the buffer, timeouts | every byte is forwarded once; keys are recognised |
| Config store and web UI API (`config/loader.rs`, `config/store.rs`, `proxy/webui/api.rs`, `main.rs`) | config file and its lock, copy in memory | edits, reload, settings, password | backend state, UI | truncation before the lock, stale copies, crash between two steps | edits accumulate; the file parses; keys survive |
| IPC layer (`ipc/`) and the UI bridge (`ui/runtime.rs:759`) | command queues, the answer awaited | switch, agent backends, status, list | backend state, thinking registry, UI | the client gives up while its command is queued; the queues fill; the web UI edits meanwhile | an accepted choice is carried out once, in order; the header catches up |
| Models cache (`proxy/models.rs`) | cached model lists | lookup, fetch, store, invalidate | backend state, switches | a fetch in flight over a clearing, or over an edit that moves the backend | a list is the backend's own, and not older than it says |
| Response stream (`metrics/stream.rs`, `proxy/model_rewrite.rs`, `sse.rs`) | rewriter state, copy of the response, callback | rewrite a chunk, copy it, end | pipeline, thinking registry | chunks cut anywhere, also within a character; four ways to end | the client gets every event, under its own model name; what it saw is registered |
| Observability (`metrics/`) | spans, ring, aggregates | start, finish, snapshot | pipeline, IPC | clients that disconnect, two locks | every answer counts once, a status lists no more than it counts |
| Debug log (`metrics/debug_logger.rs`) | channel, open file, files on disk | log, write, rotate, prune, configure | pipeline, IPC | the level changes while events wait; a file cannot be created; restarts | no holes, a bounded size, nothing above the present level |
| Proxy server and shutdown (`proxy/server.rs`, `proxy/shutdown.rs`, `proxy/connection.rs`, `shutdown.rs`) | connection count, shutdown flag | accept, drain, quit | requests | notification lost between check and wait | a quit ends the program; the count is exact |
| Dialogs and history (`ui/backend_switch`, `ui/settings`, `ui/history`, `ui/input.rs`) | focus, dialog state | user intents, snapshots | UI, IPC | a snapshot arrives while a dialog is open; a command finds no room | keys go to the dialog drawn; choices are kept in order |
| Error registry (`error.rs`) | errors | record | | none: the program only writes to it, and every reader is a test | |
| Instances and their commands (`main.rs`) | pid files | start, stop, status, reset, `webui` | processes of the system | a pid file that outlives its process | the commands reach the instance they mean |
| Header and URL rewriting, bodies that are not streamed | none | pure functions | pipeline | none | unit tests |
| Argument pipeline, shims, rendering | none that lasts | one pass | | none | unit tests |

All down to the dialogs are modelled. `PROJECT.json` lists every component with what is left out, and
the hazards of the code line by line, each with the properties that cover it or the reason none does.

## Modules

```
BackendNames ── BackendState ──┬── AgentRouting ──┐
      │                        │                  ├── RequestPipeline ══ implements ══> ThinkingPromise
      ├── ThinkingRegistry ────│──────────────────┘
      │                        ├── ConfigStore
      │                        ├── ModelsCache
      │             Dialogs ───┴── UiControl
      └── Observability ── ProxyServer
PtyLifecycle ── UiRuntime     InputParser ── TtyReader     DebugLog     ResponseStream
```

Each `MC…` module gives the constants of one of them; the `…Proofs` modules hold the theorems, over the
lemmas about sequences in `SequenceLemmas`.

**BackendState.** `config`, `active_backend` and `switch_log` are the three fields of `BackendState`;
they sit behind one lock, so an operation is one action. A profile is the sequence of its backends'
names and its default. `SwitchBackend` and `PutConfig` are `switch_backend` and the
`update_config` of the web UI, self-healing included. An entry of the log is the pair of names; its
time is left out.

**AgentRouting.** `registry` is `AgentRegistry`, keyed by an agent instead of its id string;
`marked` says which subagents were given an AC marker in the answer to their start hook, which their
requests repeat from then on. `ChosenBackend` is `resolve_backend` up to the choice of a name: the
override of a teammate, then the marker, then the model name, then the active backend. A marker of an
agent that has stopped is the error `SubagentNotRegistered`.

**ThinkingRegistry.** `TransformerRegistry`, whose operations are one step each as it sits behind a
mutex. A block stands for its hash (two contents are taken to have two hashes, though `fast_hash`
looks only at the ends and the length). Of time, only whether a block is past `orphan_threshold`
matters: `aged`.

**RequestPipeline.** One record per request in flight, one action per lock acquisition:
`Arrive` (`proxy_handler`, which looks up a teammate's override before the body is there),
`ChooseBackend` and `LookUpConfig` (two locks in `resolve_backend`), `Begin` (`create_thinking`),
`Transform` (`transform_body`), `RetryWithoutThinking` (`backend_400_auto_retry`), `Stream` and
`EndStream` (`ObservedStream`), `Answer` and `Deliver`, `Abandon`. Around them run both switch
paths: `IpcSwitch` then `IpcNotify`, under separate locks, and `WebuiStep`, which never tells the
thinking registry. The backends and Claude Code are external: a backend signs new blocks when
thinking is on, an agent repeats any part of what it has received. With `Polite` the agent waits for
an answer and repeats all or nothing, as Claude Code does; this is an assumption about the
environment, and only `pipeline_polite` makes it. `issued` and `known` are
history: who signed a block, under which session, and who has it. Requests that are refused and sent
again in other ways touch none of this; they are in `ProxyServer`.

**ThinkingPromise.** What `README.md:224` of the repository promises, as a system without sessions,
registry and switches: whatever is sent to a backend holds only blocks it has signed. `RequestPipeline`
implements it: `signer` is who issued a block (`Signers`), and a request lies with a backend from the
step that filters or strips it to its last byte (`Exchanges`). Every other step of the pipeline is a stutter.

**ResponseStream.** One streamed response. Its bytes are tokens: the name line of an event, the two halves of
its data line, newlines; a chunk ends between any two, and between the halves of a `wide` event it cuts a
character of UTF-8. `PollChunk` is `ObservedStream::poll_next` with the rewriter of
`make_reverse_model_rewriter` (`Rewritten`: split at newlines, rename, put together again as it does) and the
copy for the thinking registry; `StreamEnds` is the four ways to `finish`. `Seen` is what a client reads from
what it got, by the rules for server-sent events, a line as soon as its newline is there. `Lines`, `Joined` and
`Read` are the loops of the code, a function of how far they have come. Content that is not a kind of event, a
half character or a model name is abstracted. `Parsed` and `Blocks` are what the callback makes of the copy:
`parse_sse_events` goes by data lines, with or without a blank line after them, and `register_from_sse_stream`
keeps an accumulator for each index (`Text`), which a start of that index throws away, a delta extends, a stop
registers and removes, and the end of the copy registers if it is left. A redacted block is complete in its
start. A block is the set of events that brought its text, so two texts differ if and only if their hashes do,
and order within a block is that of the response.

**ModelsCache.** `GET /v1/models`. A request reads the table (`Start`), the cache (`Lookup`), waits for
the backend and stores what it says (`FetchSucceeds`) or tries the next path (`FetchFails`); `Switch` and
`InvalidateCache` are the two steps of `switch_backend`, `Edit` is `update_config`, which does not
clear the cache. An entry remembers whose list it is and when that backend made it.

**Dialogs, UiControl.** `Dialogs` are the reducers of the three dialogs, on values. `UiControl` joins
them to what they command: `Key` is `classify_key` with one disjunct per operation of `ui/input.rs`, `Tick` and
`HandleEvent` the rest of the loop, `BridgeTakes` to `BridgeGivesUp` one command of the bridge with its
calls to `IpcClient`, `ServerStep` one command of `IpcServer::run`, `WebUi` the switches and edits of others. A call
that timed out stays queued, and its answer finds nobody. `owed` is history: the choices accepted and not carried
out. What `ServerStep` tells the thinking registry is in `RequestPipeline`; the PTY is in `UiRuntime`.

**Observability, ProxyServer.** `Observability` is the hub: `aggregates` and `ring` have a lock each, so
`UpdateAggregates` and `Push` are two steps of `finish_request`, and a snapshot reads them in two.
`ProxyServer` follows a request from its connection to its record: `Receive`, `Resolve`, `Forward` with
`Retry`, `RetryBadRequest`, `Respond`, `ReadBody` or `EndOfStream`, and `CloseError`
(`execute_pipeline`), each with every way the code has to end there. `finalized` is
`span_finalized`, `after` where a request goes on once `KeepRecord` is through. `Accept`,
`CallService` and `StartRequest` are the lives of the guards of `connection.rs`. `DropConnection` is a task
that is dropped where it waits: the client left (`ClientLeaves`), the server drains (`CloseIdle`), the
runtime ends (`KillConnection`), or `PanicInLog`. `WaitForShutdown`, `Drain` and `Quit` to
`Complete` are the three threads of a shutdown; `wait_for_shutdown` subscribes a step after it looked at
the flag. Upstreams and clients are external and may do nothing for ever. Which backend a request
is routed to is a constant, `Target`, as `RequestPipeline` is about that.

**DebugLog.** `channel` is the `sync_channel`, `holding` what the writer thread received, `writer` its open file
with the rotation settings of the moment it was opened, `files` the directory. `Receive`, `Respond`,
`PostResponse` and the writer each read `config` for themselves. An iteration of `writer_loop` is `Recv`, then
`TakeSnapshot` (or `Discard`, if the level is off by then), then `ToStderr` or `ToFile`, which know only the
`snapshot`: the configuration may change between any two. `ToFile` opens a file if the path changed (and removes
files of old sessions), rotates if it is `Due` (and prunes), and appends; opening and creating may fail, writing
and renaming may not. A line is a length and whether it shows headers or bodies. `Restart` is a later process,
with the same path when the session is resumed. Two modifications never get the same time, and no two processes
share a log. `written`, `excused` and `fresh` (the present configuration is not newer than the event last
received) are history.

**PtyLifecycle, UiRuntime.** `PtyLifecycle` is the reducer of `ui/pty/`. `UiRuntime` is the loop of
`ui/runtime.rs`: `events` and `commands` are its two channels, `ptys` the children it spawned, by
generation. `OnRestartClaude`, `OnPtyRestart` and the retry in `OnExit` are the three restart paths;
`Respawn` is `respawn_pty`, which kills the old child and joins its reader for two seconds: either
it reports the old exit first, or it is abandoned and reports it at any later time. A respawn may
fail. `Bridge` executes the command at the head of the queue and may fail to save. Keys arrive
classified, and the settings are one switch, as `builtin_registry` has one entry.

**InputParser, TtyReader.** `InputParser` is the byte automaton of `parser.rs` over classes of bytes:
one member for each byte or range that `parser.rs` tells apart, one step per byte. `TtyReader` is
`TtyReader::read`: poll, read up to a buffer, feed, keep further events for the next call, flush
when the 2 ms ESC timeout or the caller's timeout passes, and block within a paste. `line` holds
bytes on their way and may be cut anywhere. An event keeps its raw bytes and its kind.
A unit is `Typeable`: a key in one of the forms terminals send (`Key`, which says of the bytes of a key,
and not of the states of the parser, what it should be told as), a part of one, or one behind a broken character.
Nobody types within the ESC timeout after a unit that begins another (Escape, Alt+[), except Escape
itself: the bytes would be the same as those of the longer sequence. Mouse positions and buttons are
abstracted, errors of the terminal and the macOS modifier lookup left out.

**ConfigStore.** `file` holds one config, nothing after a truncation, or a config followed by the tail of a
longer one, which does not parse. `Truncate` and `Write` are the two halves of `save_config` around its lock;
`SettingsRead`, `SettingsTruncate` (`set_len`) and `SettingsWrite` the steps of `save_claude_settings`, which
holds the lock throughout. `Call`, `Get`, …, `Update` are the steps of the three web UI handlers, `PasswdLoad`
the start of `anycode passwd` in a process of its own, `Crash` and `Start` the end and the beginning of the
instance. A config is what edits change: order of backends, which have a key, the default, settings, password.
Its length, which decides whether a tail remains, is its number of entries. One instance runs at a time, without
`--backend`; input and output errors are left out. `serial` is what the edits give one after the other in the
order they were written.

## Runs

Twelve runs, each within some four minutes with two workers on a small machine.

| Run | Shows | Bounds and why they are enough |
|---|---|---|
| `pipeline` | the inductive invariant of thinking, with `NoForeignThinking` in it; the pipeline implements `ThinkingPromise` | 2 requests, 2 backends, 3 sessions, 1 block, both switch paths, requests that follow the switch or name a backend. Three sessions are a switch away and back, so a block can come back to its backend under a later session. A violation concerns one block. |
| `pipeline_agents` | affinity of requests in flight; the active backend is always configured; types | 1 request at a time, 1 subagent, 1 teammate, 2 profiles, 2 sessions, 1 switch and config updates: a backend may be dropped while a request is routed to it. Affinity concerns one agent and one change, and no blocks. |
| `pipeline_polite` | a polite conversation loses no valid block; a history goes out whole or bare | 2 requests, 2 blocks (so that part of a history can be lost), 3 sessions, grace periods that end |
| `proxy_server` | every answer is counted once, snapshots are consistent, the counter of connections is exact, a quit ends | 2 requests on a connection each, to 2 backends; a ring of 1, which overflows; 1 retry, a first and a last attempt; the statuses 200 and 400, the latter retried |
| `debug_log` | what is kept of a log has no holes, its files are bounded, and a lowered level holds for what was not yet received | 1 request and other events up to 3 lines of 1 or 2 bytes, files of 3 bytes, 2 files kept: rotations and a pruning; 3 seconds, days of two, files old after one; 1 change of the configuration, 1 restart, 1 failure |
| `tty_reader` | no byte is lost or moved, keys are recognised, everything is returned | any 2 of 15 units, one of every form the parser tells apart; buffer of 4, shorter than a paste and than its end marker, so both are cut at each offset. The automaton's memory is one unit, so two cover what one leaves to the next. |
| `config_store` | jobs that do not overlap build on one another; an instance follows the file; a sole save repairs it; settings undo no edit; keys survive; jobs end | 3 jobs, 2 web requests at a time, settings, password, 1 crash. Two jobs race and the third meets what they left. |
| `ui_runtime` | input goes to the present PTY, in order and once; a buffer is given up only for a restart; late exits end nothing; restarts complete if saves do | 2 presses of Ctrl+R or of settings, 2 keys; saves may fail; a command queue of 1: two restarts overtake each other and the second finds the queue full |
| `ui_retry` | violation, see below | 1 key press |
| `ui_control` | keys go to the dialog drawn; accepted choices are carried out once and in order; the header catches up | 4 keys: open, move, confirm, and one more after or instead; queues of 2, so both fill; 1 timeout; 1 switch, and a profile that drops the backend that is listed |
| `response_stream` | the client gets every event unharmed, and its own model name; the thinking it got is registered, however the stream ends | messages of 5 or 6 events (a ping before the start, blocks of two deltas with a stop or without, a redacted one, two open at once, an index used again) and completions of 3, with and without wide characters and a model to rename, cut into chunks in every way. The rewriter remembers one bit between chunks, and a block two deltas. |
| `models_cache` | a list is kept under whose it is; what is served is recent, and from after the last switch but for a fetch in flight | 2 requests at a time, 2 backends of which one may move between 2 URLs (`OneMoves`), 2 switches, entries that live 2 units, attempts of 1, time to 3: an entry expires, one is overtaken |

The first invariant of a run includes the module's type invariant where the two say most together
(`EveryByteKept`, `InstanceFollowsFile`, `TailKept`, `CacheHoldsOwnLists`, `KeysGoToDialog`,
`EventsReachClient`); those of `UiRuntime`, `ProxyServer` and `AgentRouting` are only proved.

Each bound is a constant that guards an action (`MaxSwitches`, `MaxSession`, `MaxTyped`, `MaxJobs`,
`MaxCrashes`, `MaxKeys`, `MaxPresses`, `MaxOutputs`, `MaxLines`, `MaxTime`, `MaxFaults`, `MaxChanges`,
`MaxRestarts`, `MaxTimeouts`, `MaxEvents`); the theorems hold for all their values.
`MaxOutputs` only keeps output events from piling up, as any one of them does what many do.
Blocks and request slots are interchangeable in every run of `RequestPipeline`, and the requests of
`ModelsCache` in its run; none of them checks liveness, so symmetry is sound. `ThinkingPromise` states
no fairness, so a refinement of it is safety too.

Deadlock is checked where the system cannot stop. `ProxyServer` stops when it has quit, `DebugLog` and
`ModelsCache` when their clocks and events run out, `ResponseStream` when its stream has ended. In `UiRuntime`
the program may quit and the user fall silent; in `ConfigStore` the jobs run out, and an instance may refuse to
start from an empty profile. Those configurations say so.

**Fairness.** `UiFairSpec` is weakly fair to the handling of the next event and of the next command:
the loop and the bridge are threads that do nothing but receive. Nothing is assumed of users, children
or readers. `ReaderFairSpec` is weakly fair to the arrival of what was typed and to `read`, which the
input thread calls in a loop with timeouts. `StoreFairSpec` is weakly fair to the next step of every
job that has begun: handlers are tasks of the runtime, and locks are released when their holder ends,
crashed or not. `ProxyFairSpec` is weakly fair to the steps of a request that wait for nobody, to the end
of `ui::run`, and to `shutdown_timeout`, which drops every task that waits; clients, upstreams, the user and
the server's own drain may stand still. `ControlFairness` is weakly fair to ticks, which come by the
clock, and to the loop, the bridge and the server *together*: one of the three moves as long as one can.
That is weaker than what three tasks that never stop justify, and enough. Nobody promises that the client
gives up, or does not. `RestartCompletesWhenSaved` assumes in addition that settings which could not be saved
do not stay unsaved; what happens then is told below.

## Proofs

`tlapm` checks every leaf. The assumptions are those on the constants (`…Assumption` in the modules), which TLC
evaluates in each run: names are distinct from `NoName`, profiles and choices are of their types, the sets of
agents do not meet, a server is asked for finitely many requests, edits and the configurations of the log are of
their types, what can be typed is `WellFormed` and `Typeable`, a message starts once, and times and sizes are
natural numbers. No bound is needed. Two theorems have a hypothesis of their own, told with them:
`TailAlwaysKept` and `PoliteHistoryAlwaysKept`.

| Module | Theorems |
|---|---|
| `BackendStateProofs` | `ActiveBackendIsConfigured`, `SwitchLogIsComplete` |
| `RequestPipelineProofs` | `RoutingTypeCorrect`, `SubagentsKeepTheirBackend`, `PipelineTypeCorrect`, `NoBackendGetsForeignThinking`, `RegistrationIsOnTime`, `OneBackendPerSession`, `ThinkingInvariant`, `PipelineKeepsPromise`, `RequestsKeepAffinity`, `HistoryAlwaysWholeOrNone`, `PoliteHistoryAlwaysKept` |
| `TerminalProofs` | of `UiRuntime`: `UiTypeCorrect`, `InputReachesPresentPty`, `LateExitsEndNothing`, `BufferedInputIsKept`, `InputAlwaysInOrder`; of `TtyReader`: `BytesAlwaysKept`, `KeysAlwaysRecognised` |
| `ProxyServerProofs` | `ProxyTypeCorrect`, `ConnectionsAlwaysCounted`, `DrainedAlwaysEmpty`, `AnsweredAlwaysCounted`, `AggregatesAlwaysCountAnswers`, `SnapshotAlwaysCountsRecent` |
| `UpstreamProofs` | of `ModelsCache`: `CacheAlwaysHoldsOwnLists`, `ServedAlwaysRecent`, `ServedAlwaysSinceSwitch`; of `ResponseStream`: `EventsAlwaysReachClient`, `ClientModelAlwaysNamed`, `SeenAlwaysRegistered` |
| `ControlProofs` | of `ConfigStore`: `EditsAlwaysSerial`, `InstanceAlwaysFollowsFile`, `SoleSaveAlwaysRepairs`, `SettingsNeverUndoEdit`, `KeysAlwaysKept`; of `UiControl`: `KeysAlwaysGoToDialog`, `ChoicesAlwaysInOrder` |
| `DebugLogProofs` | `TailAlwaysKept`, `LogAlwaysBounded`, `LoweredLevelAlwaysHides` |
| `SequenceLemmas` | lemmas only: induction, recursion along a sequence, `FlattenSeq` |

Most state what a run checks on a small instance. The others, `SwitchLogIsComplete`,
`SubagentsKeepTheirBackend`, `SeenAlwaysRegistered`, `NoBackendGetsForeignThinking`, `RegistrationIsOnTime`,
`OneBackendPerSession` and the types of routing, UI and server, state parts of what the runs check, or what a
smaller instance showed before it was proved.

*Backends.* `BackendInv` is types and a configured active backend. It is inductive because every change
of the profile moves the active backend, if it must, under the same lock; `SwitchLogReplays` follows step
by step from `ReplayGrows`, that an entry appended to the log is one more link of the chain.
`SessionAffinity` needs only that a live subagent has its birth backend in `registry` and that no hook
but its own stop removes it; Claude Code starts every subagent under an id of its own.
`AffinityInFlight` adds the requests: `AffinityInv` says of a request that carries a marker that its agent was
handed one, so is a subagent and has no override, and, once it is routed, that its backend is the
registered one. It is `ChooseBackend` that establishes this, the later steps keep a request's routing
(`LaterStepsKeepRouting`), and no hook moves what it refers to (`MarkedStay`).

*Thinking.* The filter of a request compares blocks with the session of the moment, not with the one
the request began in (`proxy/thinking/mod.rs:122`). So between `Begin` and `Transform` another request
may switch, and the filter keeps blocks that belong to a session, and a backend, later than the
request's own. That no foreign block is sent all the same is causality: a request's blocks were in
the conversation before it arrived, they were signed under sessions that had begun by then, and
sessions only grow; so a request that has begun holds no block signed under a session after its own.
If the registry has moved on, the filter therefore drops everything; if not, what it keeps is of the
request's own session, which has one backend. This is `Causality`, one part of
`ThinkingInv`; the others are `RequestsInv` (a request's session has begun, and its blocks are signed),
`IssuedInv` (so have the sessions of signed blocks, and those of the present one have its backend),
`RegisteredInv` (a registered block has the session it was signed under), `SessionDeterminesBackend`, and
`NoForeignThinking` itself. `NoForeignThinking` alone
is not inductive: it says nothing of requests that have not been filtered yet. The run `pipeline` checks
all of `ThinkingInv`. The proof has one lemma per kind of step; `QuietStep`,
`SignStep` and `SwitchStep` say what the three ways to touch sessions preserve.

*Promise.* That the pipeline implements `ThinkingPromise` follows from `ThinkingInv` before and after each step:
the step that filters or strips a request is a `Send`, because `NoForeignThinking` holds after it; a retry
without thinking is a `SendAgain`; a step of the answer that signs is an `Answer`, because `issued` only
grows; the rest change neither `Signers` nor `Exchanges`, by one lemma per group of actions.

*Models cache.* `CacheInv` is `WellStored` (an entry was made before it was stored and no more than one attempt
before, and none was stored before the last clearing) `WellAsked` (a request has a key, and has waited for an
attempt no longer than its timeout), and `CacheHoldsOwnLists`. That an answer is stored under the key of the
*request*, not under what is active by then, is what keeps the first inductive through switches and edits; the
two action properties are sums of the bounds.

*UI.* `UiInv` is the type invariant together with `AttachedToPresent`: an attached or ready lifecycle
writes to the last PTY spawned, and no other child lives. All restart paths meet in `Respawn`, for
which `RespawnKeepsInv` is proved once, with the failure of the spawn.

- `ExitInv`: an exit in the queue is of a child that was spawned and has died, and while there is a
  handle, its session is the present generation. So an exit that passes the test of its generation is of the
  present PTY, and that PTY is dead: `ExitConcernsPresent`.
- `BufferedInputReachesPty` is a property of single steps: each handler keeps the buffer, extends it, or
  writes all of it (`BufferContinues`), or restarts; and an exit that restarts is, by `ExitInv`, of a PTY
  that is dead.
- `OrderInv`: what is still queued was typed after everything the handlers have taken, in order, and what was
  written is below what is buffered. `InputInOrder` says nothing of the queue, so is not inductive.
  `QueueStaysInOrder` is the one fact about the queue: posting something that is no input, and taking
  its head, both leave the inputs in it in order.

*Terminal input.* `ReaderInv` says where the bytes that were typed are: in events, held by the parser, arrived or
on their way, in this order. What makes a read keep it is that the parser drops nothing: each
state `Takes` a byte, which it gives out or holds (`StepTakes`, by one lemma per state, over `ParserInv`, what each
state knows of its buffer); so does a run of bytes (`FeedTakes`, by induction over its length), and a flush
gives out what is held (`FlushTakes`). One byte is hard: the tilde that starts a paste clears the buffer, and
what is held from then on is `PasteStart`, so it must have been that. `csi_param` looks at the first parameter only,
and `ESC[200;1~` starts a paste whose bytes are lost. `PasteBegins` therefore needs `WellFormed`, that a
terminal sends no such sequence, which `ReaderAssumption` says of the units. The types of the events, and the
laws of `Raws`, come by induction too, with `NatSetInduction` below.

`KeysRecognised` says nothing of what is on its way, so `KeysInv` continues it: what came out, what the parser
will make of what has arrived and of the line, are together the kinds of what was typed (`KindsMatch`). It will
then be in `Ground`, or where the last unit alone leaves it (`EndsOpen`), and a unit begins in `Ground`, or as
the second of two Escapes (`BeginsFresh`). What the parser gives out does not depend on what it gave out before
(`StepPlain`), nor on where a read ends (`AfterConcat`), so a unit that meets `Ground` becomes what it becomes
alone. What that is takes a lemma for each form of a key, by induction over its parameters, its text or its
bytes: this is where `Typeable` is used, and where the automaton is shown to classify what the *form* says.

*Response stream.* `StreamInv` relates three texts: what the client has, what is still to come, and the whole
response. Without the marks of who named the model (`Plain`), the first two are the third as long as no
rewritten chunk had a bad edge. Of the lines of the client it says that each that holds data is of one event and
is marked exactly if it should be (`GoodLine`), but for an event whose line was cut; `Hanging` that half a line
at the end is followed by its other half, which makes this inductive. And if `anthropic_done` is set, no start
of a message is to come: otherwise a later chunk with one would pass unrewritten.

A step puts a chunk behind what was there. The lines of two texts are those of the first, one line glued of two,
and those of the second (`LinesAreGlued`), so a chunk needs to be looked at alone: `RewrittenLands` and
`UntouchedLands` say that its lines are good, whether it was rewritten, had nothing to rewrite, or was not
looked at for want of a marker (`HasMarker`). `RewrittenPlain` says that splitting, renaming and joining change
only marks if the first token is no newline and no character is cut. It rests on `JoinedLines`: `Joined` undoes
`Lines` on a text that does not begin with a newline, and on no other, which is the disagreement told below.
What a client reads of a text stays what it was when the text goes on (`SeenExtends`), and of the whole response
it is every event (`WholeRead`); so of a part it is the first events. `SeenAlwaysRegistered` is about the text
of blocks, so it is not enough that an event the client has read has its line in the copy (`ParsedIsSeen`): an
event *more* would make a text longer, and its hash another. While no rewritten chunk had a bad edge, both are
the first events of the response (`UptoPrefix`, `UptoOnWire`), those of the copy one more at most: the event
whose data line has come, and its blank line has not (`ReadBefore`). A block that stopped for the client has its
boundary among the events it read, so one event more, which comes later, does not change it (`StoppedStay`); one
that had not may be registered with one delta more than the client dispatched, and that is all (`EndRegisters`).
With a bad edge events run together, and the same is only model-checked.

*Server.* Every invariant of the run `proxy_server` is proved. They rest on `RequestInv`, what a request
in each phase has been through: until its span is finished it is not `finalized`, from then on it
has a status and knows where it goes on, and an error has an answer. `Moves` then says that a step moves no
request, or one that counts as it did (`Kept`), or counts one. From there:

- `ConnectionsInv` adds that a service is cloned on an open connection only and that a drained server has
  none; only the five steps that touch guards change the two sets whose sizes the counter adds up.
- `AggregatesInv`: the aggregates of a backend are sizes of sets of requests, and a counted
  request joins exactly those its record is added to.
- `RingInv`: the records in the ring, and in a snapshot that was begun, are of *different* requests, each
  counted under the record's backend. `SnapshotCountsRecent` compares sizes, so it is not inductive:
  it follows because the identities of the records inject into the counted requests.

*Polite conversation.* That a history goes out whole or bare needs only what `Transform` and the later steps
do with one request. That no valid block is lost is about one agent: `OneAgentWaits` is `Polite` with
`Agents = {Main}`, because with a second agent on the same session rule 2 of the cleanup evicts what the other's
request does not hold (see below). `PoliteInv` says that one request at a time is in flight and holds the
whole history or none of it, and that of what the agent knows, everything of the session that goes on
is registered, or will be when the stream that brought it ends. A cleanup then finds each such
block in the request it runs for.

*Config store.* `StoreInv` is types with `LockInv` (a save of the settings holds the lock from its read to its
write), `ValidInv` (a job that has passed its checks holds a profile that passes them), `AloneInv` and `SerialInv`.
A job is `alone` from its start for as long as no other begins; it is then the only one (`AloneInv`), and
the file it truncated is still empty when it writes. `SerialInv` is `EditsAreSerial` with the steps in between: while
nothing was disturbed, `Stage` says how far the only job has brought its edit, to the file, the store and the
instance. `EditedSame` is what makes this inductive: an edit makes equal profiles of equal ones, wherever they were
read. `SoleSaveRepairs` needs `AloneInv` and no more, so it holds whatever races and crashes came before.
The instance follows the file unless the profile is empty: `update_config` refuses that, and so the instance
keeps what it had.

*Dialogs and IPC.* `ControlInv` is the active backend that is configured and the types of dialogs and queues,
with which dialog is open when. `OrderInv` says where a choice that is owed is: in the queue
of the server, in the call the bridge has yet to make (`NotYetCalled`), or in the queue of commands, in this order.
Every step moves a choice to the next of them, or carries it out. The choices among the messages of a queue are
a recursive function of it, `Of`, so its laws (`OfConcat`, `OfHead`) are proved by induction over the length. The
induction theorems of the library take an operator, which the provers cannot instantiate. `NatSetInduction` says it
of sets: a set of numbers with 0 and each successor holds every number, which follows from the least
element of a finite set.

*Debug log.* `DirInv` is about the directory alone: a file with a newer stamp holds later lines (`InOrder`), the
live file is the newest of its path, and one that is too long has one line. `HandleInv` says what the writer has
open: the newest file of its path, live, or renamed when its successor could not be created. `CountInv` counts a
place for the live file even if there is none, so that creating one keeps it. `TailInv` splits `TailKept` into
what single steps keep, for *every* path: the file of the handle exists (`Held`), a line that is left has no gap
after it (`Gapless`), and the newest line is there (`Latest`). Each step of the writer is a chain of operations
on the directory, and `Excuses` is what each of them does to lines: they go to the excused ones, if anywhere.
`PrunedDir` has the counting: pruning removes the files with the lowest stamps and leaves `MaxFiles`. A
`max_files` of 0 passes the checks of the code and removes the live file, so `TailAlwaysKept` assumes it is
above 0; the other two theorems hold for 0 too. `LoweredLevelAlwaysHides` rests on `SnapshotInv`: a snapshot is
only there with an event in hand, and is the present configuration as long as nothing was changed since that
event was received. So a line that breaks a level lowered before its event was received would be one of a
snapshot taken before, which `SnapshotBeforeRecv`, the mutant, does take.

Every invariant and every action property of the passing runs is proved, `SeenIsRegistered` as far as told
above. Only model-checked are the liveness properties `RestartCompletesWhenSaved`, `EverythingReturned`,
`JobsEnd`, `QuitCompletes` and `HeaderCatchesUp`, which are out of the prover's reach.

## Disagreements found

One has a run with a counterexample, of what the code does against what the repository says of it:

- `ui_retry` (`ui/runtime.rs:590`): the exit of the *old* PTY, which `respawn_pty` makes its reader report,
  clears `restart_can_retry` before the generation is looked at. A `--resume` that fails is then not retried,
  although `runtime.rs:694` counts on it. `FailedResumeRetried` is about the step of `OnExit` that takes the
  exit of the present PTY; with the flag cleared only after the test of the generation, it holds.

Also met while modelling, without a run of their own. Where a definition is named, TLC finds it
violated on small instances:

- When the settings cannot be saved, the bridge reports an error and nobody ends `Restarting`: input is dropped
  from then on (`ui/runtime.rs:833`; `RestartCompletes`).
- Settings saved from the terminal are not reloaded into the store, so the next edit in the web UI writes the
  old ones back (`proxy/webui/api.rs:248`, where line 255 says they are preserved; `SettingsSurviveEdits`).
- The backend of a teammate may change between two of its requests, which are not filtered
  (`proxy/router.rs:239`), where `docs/design/thinking-pipeline-isolation.md:60` says it never does
  (`TeammatesSeeOwnThinking`).
- The arrow keys of the backend popup wrap around the number of backends there were when it was opened
  (`ui/backend_switch/actor.rs:83`), and a shorter list may have come since (`ui/app.rs:395`). The highlight then
  leaves the list, across which `docs/design/backend-selector-popup.md:63` has it wrap, and Enter finds no backend
  there (`ArrowsStayOnList`).
- Opening the backend popup sends a command, and a command that finds room clears the IPC error which
  `docs/design/backend-selector-popup.md:85` has the popup show (`ErrorShownOnOpen`).
- The rewriter loses the newlines at the start of a chunk it rewrites (`proxy/model_rewrite.rs:64`), so two
  events run together; `docs/design/reverse-model-mapping.md:51` says none is lost (`NoEventLost`). It also
  replaces half a character at the edge of such a chunk.
- The cache of models is to be cleared when the configuration is reloaded (`proxy/models.rs:54`), and is cleared
  by switches only (`backend/state.rs:290`). A backend that keeps name and URL but gets another key is answered
  from the old list until it expires, and an update that drops the active backend, and so switches, does not
  clear it either. `ServedSinceSwitch` counts from the clearings there are.
- `ESC[200;1~` starts a paste, as only the first parameter is compared (`term_input/src/parser.rs:257`); the
  second is not forwarded, where `event.rs:12` promises lossless forwarding. No terminal is known to send it.
- An instance that wraps Copilot saves its settings into the profile of Claude (`ui/runtime.rs:829`).
- `anycode webui --daemon` entered twice writes the pid of the second child, which cannot bind the port, over
  that of the running daemon (`main.rs:453`), so `webui --stop` no longer reaches it. An instance that is killed
  leaves its pid file, and `stop` signals whatever process has that pid later (`main.rs:252`).
- `AppEvent::ConfigReload` and `ConfigError` are handled and never posted.
- A subagent on the same backend as the main conversation shares its session, and rule 2 of the cleanup evicts
  what the main conversation still repeats (`proxy/thinking/registry.rs:375` against line 20).
  `ValidHistoryKept` is therefore about one conversation.
- `filter` uses the session of the moment although `proxy/thinking/mod.rs:45` says the handle owns its own: safe
  by the argument above, but it strips a valid history when another request switched.
- After a switch the thinking field goes with the old blocks (`transform.rs:117`), so the response that
  `docs/architecture/thinking-blocks.md:182` describes as registering new blocks has none.
- A subagent whose birth backend was deleted gets `BackendNotFound`
  (`docs/subagent-session-affinity-spec.md:359` has it fall back).
- Teammates never leave the registry, so the guard of `routing.rs:90` stays open.
- Ctrl+R after a restart by settings resumes the session of the start (`README.md:107`).
- A restart that finds the command queue full ends in `Pending` with a PTY attached (`ui/pty/state.rs:13`), and
  one by Ctrl+R uses settings that failed to be saved (`runtime.rs:827`).
- `wait_for_shutdown` misses a notification between its flag and its subscription (`proxy/shutdown.rs:25`); only
  `shutdown_timeout(2 s)` ends the program then, and cuts short the ten seconds of `wait_for_connections`.
- The body of an error answer is cut for the log at byte 1000, which panics within a character
  (`proxy/pipeline/response.rs:193`); the client gets nothing, and no record is kept.
- A body that is not a stream and does not end in time is recorded as a 500 without the timeout
  (`response.rs:130`, against `metrics/aggregator.rs:31`), and so is a client that leaves before its answer not
  recorded at all.
- A stream is asked for without a timeout until its headers come (`forward.rs:60`, against
  `metrics/stream.rs:23`).
- The JSON form of the log writes the headers and bodies a record has at any level
  (`metrics/debug_logger.rs:420`), so a request received at full level shows them after the level was lowered
  (`docs/design/debug-mode-request-logging.md:26`); `LoweredLevelHides` is about the console form.
- The configuration of the log is read once for each line (`debug_logger.rs:185`): the line in hand when the
  level is lowered, or logging turned off, is still written by the old level. `LoweredLevelHides` is about the
  events received later.
- A rotation within a second of the last one overwrites it (`debug_logger.rs:594`); `max_files` counts the live
  file, and 0 removes it; a log that rotates by day does not when the process starts on another day
  (`current_day` begins as `None`), or when the new file could not be created once; rotation settings that
  change with the path kept are not applied (`debug_logger.rs:250`).
- `anycode logs` looks for the file without the session in its name (`main.rs:211` against `ui/runtime.rs:160`).

## Limits

Not modelled: the error registry, which nothing reads; the pid files of instances and of the web UI
daemon, one small file each that processes of the operating system read and write; headers, URLs and
bodies that are not streamed, argument parsing and rendering, which have no state a model could tell more
about than unit tests. Within modelled components: the search for a port, errors of the file system (but
for the log's and a failed save) and of the terminal, several instances on one file, the login sessions of
the web UI, and what a teammate or subagent section of the config says at a reload.

## Plan

1. Done: backend state, agent routing, thinking registry and request pipeline, with proofs and with the
   refinement of `ThinkingPromise`; UI runtime with proofs; terminal input; config store; observability,
   proxy server and shutdown, with proofs; debug log; dialogs, bridge and IPC; response stream; models cache,
   with proofs. Of these, terminal input, config store, dialogs, debug log and
   response stream have proofs too.
2. Done: every safety property of the runs proved.
3. Abstract specifications: a serial config, implemented by `ConfigStore` while jobs do not overlap; an
   input queue, implemented by `TtyReader` and by the buffer of `UiRuntime`.
4. Several instances: their pid files, and the config file they share.

New modules share runs with the components they compose with (as routing does with the pipeline, and the
hub with the requests), so that the number of runs stays what a developer will wait for.
