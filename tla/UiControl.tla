------------------------------- MODULE UiControl -------------------------------
(***************************************************************************)
(* How the terminal UI controls the proxy: the keys of its dialogs         *)
(* (src/ui/input.rs, src/ui/app.rs), the bridge that executes the commands *)
(* of the UI (run_ui_bridge of src/ui/runtime.rs), and the IPC client and  *)
(* server of src/ipc/, over the backend table that the web UI changes too. *)
(*                                                                         *)
(*   loop --commands--> bridge --ipc--> server --response--> bridge        *)
(*                        \--events--> loop                                *)
(*                                                                         *)
(* A client waits a second for its answer.  When it gives up, its command  *)
(* stays in the queue and is executed later; the answer then finds nobody. *)
(* The thinking registry that the server notifies is in RequestPipeline,   *)
(* the PTY that other commands restart is in UiRuntime.                    *)
(***************************************************************************)
EXTENDS BackendState, Dialogs

CONSTANTS
    InitialOverrides,   \* what agents.* of the config may say at the start
    CommandBuffer,      \* UI_COMMAND_BUFFER, the room between loop and bridge
    IpcBuffer,          \* IPC_BUFFER, the room between client and server
    MaxKeys,            \* bounds, for model checking only: keys pressed,
    MaxTimeouts,        \* times the client gives up,
    MaxEvents           \* and events the bridge is ahead of the loop

ASSUME OverridesAssumption == InitialOverrides \subseteq Option(Backends)

ASSUME BuffersAssumption ==
    /\ {CommandBuffer, IpcBuffer, MaxEvents} \subseteq Nat \ {0}
    /\ CommandBuffer >= 2

ASSUME BoundsAssumption == {MaxKeys, MaxTimeouts} \subseteq Nat

VARIABLES
    focus,              \* "terminal", or the dialog the keys go to
    backend_switch, settings_dialog, history_dialog,    \* the dialogs
    settings,           \* App.settings_manager
    backends,           \* App.backends: the last list that arrived
    proxy_status,       \* App.proxy_status: the active backend it shows
    overrides,          \* the choices for subagents and teammates
    last_ipc_error,     \* an error is shown
    commands, events,   \* loop to bridge, bridge to loop
    bridge,             \* the command the bridge is at
    ipc,                \* the commands the server has not executed
    response,           \* the answer the bridge has not taken yet
    owed,               \* history: the choices accepted from the user that
                        \*          have not been carried out, in order
    pressed, timeouts   \* keys pressed and timeouts so far

dialogVars == <<focus, backend_switch, settings_dialog, history_dialog, settings>>
shownVars  == <<backends, proxy_status, overrides>>
ipcVars    == <<bridge, ipc, response, timeouts>>

controlVars == <<backendVars, dialogVars, shownVars, ipcVars, last_ipc_error,
                 commands, events, owed, pressed>>

Msg(kind, value) == [kind |-> kind, value |-> value]

\* What the user asks for and may not get lost.
ChoiceKinds == {"switch"} \cup Overrides

\* The calls of a command that goes through the IPC layer, one after the other.
CallsOf(kind) ==
    CASE kind = "switch"    -> <<"switch", "get_status", "list_backends">>
      [] kind = "status" -> <<"get_status">>
      [] kind = "list"   -> <<"list_backends">>
      [] OTHER           -> <<>>

NoCommand == [kind |-> "idle", value |-> NoName, calls |-> <<>>, sent |-> FALSE]

NoResponse == Msg("none", NoName)

ControlInit ==
    /\ BackendInit
    /\ focus = "terminal"
    /\ backend_switch = Hidden /\ settings_dialog = Hidden /\ history_dialog = Hidden
    /\ settings = 0
    /\ backends = <<>> /\ proxy_status = NoName
    /\ overrides \in [Overrides -> InitialOverrides]
    /\ last_ipc_error = FALSE
    /\ commands = <<Msg("status", NoName), Msg("list", NoName)>>
    /\ events = <<>>
    /\ bridge = NoCommand /\ ipc = <<>> /\ response = NoResponse
    /\ owed = [k \in ChoiceKinds |-> <<>>]
    /\ pressed = 0 /\ timeouts = 0

-----------------------------------------------------------------------------
(* The loop: commands. *)

CanSend == Len(commands) < CommandBuffer

\* send_command when there is room, which also clears the error, and when not.
Send(kind, value) ==
    /\ CanSend
    /\ commands' = Append(commands, Msg(kind, value))
    /\ last_ipc_error' = FALSE
    /\ owed' = IF kind \in ChoiceKinds THEN [owed EXCEPT ![kind] = Append(@, Msg(kind, value))]
               ELSE owed

SendFails ==
    /\ ~CanSend
    /\ last_ipc_error' = TRUE
    /\ UNCHANGED <<commands, owed>>

\* History: the oldest choice of this kind has been carried out.
Carried(kind) == [owed EXCEPT ![kind] = SubSeq(@, 2, Len(@))]

TrySend(kind, value) == Send(kind, value) \/ SendFails

NothingSent == UNCHANGED <<commands, owed, last_ipc_error>>

-----------------------------------------------------------------------------
(* The loop: keys. *)

RowOfName(b) ==
    IF \E i \in DOMAIN backends : backends[i].id = b
    THEN CHOOSE i \in DOMAIN backends :
             /\ backends[i].id = b
             /\ \A j \in 1..(i - 1) : backends[j].id # b
    ELSE 0

RowOfActive ==
    IF \E i \in DOMAIN backends : backends[i].is_active
    THEN (CHOOSE i \in DOMAIN backends : backends[i].is_active) - 1
    ELSE 0

\* Ctrl+B: the dialog opens on the list of before, and a new one is asked for.
OpenBackendSwitch ==
    /\ focus = "terminal"
    /\ focus' = "backend_switch"
    /\ backend_switch' =
         OpenSwitchDialog([s \in Sections |->
                             IF s = "active" THEN RowOfActive ELSE RowOfName(overrides[s])],
                          Len(backends))
    /\ TrySend("list", NoName)
    /\ UNCHANGED <<settings_dialog, history_dialog, settings>>

InSwitchDialog == focus = "backend_switch"

\* Mutant of CloseSwitchDialog: the keys still go to the dialog.
HideSwitchDialog == backend_switch' = Hidden /\ UNCHANGED focus

CloseSwitchDialog ==
    /\ backend_switch' = Hidden
    /\ focus' = "terminal"

SwitchDialogMoves ==
    /\ InSwitchDialog
    /\ backend_switch' \in {NextSection(backend_switch), Navigate(backend_switch, 1),
                            Navigate(backend_switch, -1)}
    /\ UNCHANGED <<focus, settings_dialog, history_dialog, settings>>
    /\ NothingSent

SwitchDialogCloses ==
    /\ InSwitchDialog
    /\ CloseSwitchDialog
    /\ UNCHANGED <<settings_dialog, history_dialog, settings>>
    /\ NothingSent

\* confirm_active_backend for the i-th backend of the present list: the dialog
\* stays open when there is no such row and when the switch cannot be sent.
ConfirmActive(i) ==
    \/ /\ i \notin DOMAIN backends
       /\ UNCHANGED <<backend_switch, focus>> /\ NothingSent
    \/ /\ i \in DOMAIN backends /\ backends[i].is_active
       /\ CloseSwitchDialog /\ NothingSent
    \/ /\ i \in DOMAIN backends /\ ~backends[i].is_active
       /\ \/ Send("switch", backends[i].id) /\ CloseSwitchDialog
          \/ SendFails /\ UNCHANGED <<backend_switch, focus>>

\* confirm_override_backend: closes the dialog in any case.
ConfirmOverride(s, row) ==
    /\ CloseSwitchDialog
    /\ \/ row = 0 /\ TrySend(s, NoName)
       \/ row \in DOMAIN backends /\ TrySend(s, backends[row].id)
       \/ row \notin {0} \cup DOMAIN backends /\ NothingSent

SwitchDialogEnter ==
    /\ InSwitchDialog
    /\ LET s == backend_switch.section IN
         IF s = "active" THEN ConfirmActive(backend_switch.row[s] + 1)
         ELSE ConfirmOverride(s, backend_switch.row[s])
    /\ UNCHANGED <<settings_dialog, history_dialog, settings>>

\* handle_backend_delete
SwitchDialogDelete ==
    /\ InSwitchDialog
    /\ backend_switch.section \in Overrides
    /\ CloseSwitchDialog
    /\ TrySend(backend_switch.section, NoName)
    /\ UNCHANGED <<settings_dialog, history_dialog, settings>>

\* handle_backend_digit, of the digits that name a row.
SwitchDialogDigit ==
    /\ InSwitchDialog
    /\ \E i \in DOMAIN backends :
         IF backend_switch.section = "active" THEN ConfirmActive(i)
         ELSE /\ CloseSwitchDialog
              /\ TrySend(backend_switch.section, backends[i].id)
    /\ UNCHANGED <<settings_dialog, history_dialog, settings>>

OpenSettings ==
    /\ focus = "terminal"
    /\ focus' = "settings"
    /\ settings_dialog' = LoadSettings(settings)
    /\ UNCHANGED <<backend_switch, history_dialog, settings>>
    /\ NothingSent

\* Space, Up or Down, Escape, and Ctrl+E, which asks nothing.
SettingsKey ==
    /\ focus = "settings"
    /\ settings_dialog' \in {ToggleSetting(settings_dialog), MoveInSettings(settings_dialog),
                             RequestCloseSettings(settings_dialog), Hidden}
    /\ focus' = IF settings_dialog' = Hidden THEN "terminal" ELSE focus
    /\ UNCHANGED <<backend_switch, history_dialog, settings>>
    /\ NothingSent

\* apply_settings
ApplySettings ==
    /\ focus = "settings"
    /\ settings' = settings_dialog.value
    /\ settings_dialog' = Hidden
    /\ focus' = "terminal"
    /\ IF settings' # settings THEN TrySend("restart_pty", NoName) ELSE NothingSent
    /\ UNCHANGED <<backend_switch, history_dialog>>

OpenHistory ==
    /\ focus = "terminal"
    /\ focus' = "history"
    /\ history_dialog' = LoadHistory(Len(switch_log))
    /\ UNCHANGED <<backend_switch, settings_dialog, settings>>
    /\ NothingSent

HistoryKey ==
    /\ focus = "history"
    /\ history_dialog' \in {ScrollUp(history_dialog), ScrollDown(history_dialog), Hidden}
    /\ focus' = IF history_dialog' = Hidden THEN "terminal" ELSE focus
    /\ UNCHANGED <<backend_switch, settings_dialog, settings>>
    /\ NothingSent

\* classify_key.  The other keys change nothing here.
Key ==
    /\ pressed < MaxKeys
    /\ pressed' = pressed + 1
    /\ \/ OpenBackendSwitch
       \/ SwitchDialogMoves
       \/ SwitchDialogCloses
       \/ SwitchDialogEnter
       \/ SwitchDialogDelete
       \/ SwitchDialogDigit
       \/ OpenSettings
       \/ SettingsKey
       \/ ApplySettings
       \/ OpenHistory
       \/ HistoryKey
    /\ UNCHANGED <<backendVars, shownVars, ipcVars, events>>

-----------------------------------------------------------------------------
(* The loop: ticks and the events of the bridge. *)

\* Mutant of Tick: the header waits while a dialog is open.
TickInTerminal ==
    /\ focus = "terminal"
    /\ TrySend("status", NoName)
    /\ UNCHANGED <<backendVars, dialogVars, shownVars, ipcVars, events, owed, pressed>>

\* should_refresh_status says yes once a second.
Tick ==
    /\ TrySend("status", NoName)
    /\ UNCHANGED <<backendVars, dialogVars, shownVars, ipcVars, events, owed, pressed>>

\* IpcStatus, IpcBackends, IpcError, SetSubagentBackend and SetTeammateBackend;
\* the state the proxy reads is set with the one that is shown.
HandleEvent ==
    /\ events # <<>>
    /\ events' = Tail(events)
    /\ LET e == Head(events) IN
         /\ backends' = IF e.kind = "list" THEN e.value ELSE backends
         /\ proxy_status' = IF e.kind = "status" THEN e.value ELSE proxy_status
         /\ last_ipc_error' = (e.kind = "error" \/ last_ipc_error)
         /\ overrides' = IF e.kind \in Overrides
                         THEN [overrides EXCEPT ![e.kind] = e.value] ELSE overrides
         /\ owed' = IF e.kind \in Overrides THEN Carried(e.kind) ELSE owed
    /\ UNCHANGED <<backendVars, dialogVars, ipcVars, commands, pressed>>

-----------------------------------------------------------------------------
(* The bridge. *)

Post(e) == Len(events) < MaxEvents /\ events' = Append(events, e)

\* The calls that are left of a command.  The next is queued at once if there is
\* room, with a channel of its own for the answer.
Calls(kind, value, calls) ==
    LET room == Len(ipc) < IpcBuffer IN
    \/ calls = <<>> /\ bridge' = NoCommand /\ UNCHANGED ipc
    \/ /\ calls # <<>>
       /\ bridge' = [kind |-> kind, value |-> value, calls |-> calls, sent |-> room]
       /\ ipc' = IF room THEN Append(ipc, Msg(Head(calls), value)) ELSE ipc

\* A command leaves the queue.  Those of the overrides come back as an event at
\* once, and that of the settings leaves for the PTY, or fails to be saved.
BridgeTakes ==
    /\ bridge = NoCommand /\ commands # <<>>
    /\ commands' = Tail(commands)
    /\ LET c == Head(commands) IN
         /\ Calls(c.kind, c.value, CallsOf(c.kind))
         /\ \/ c.kind \notin Overrides /\ UNCHANGED events
            \/ c.kind \in Overrides /\ Post(c)
            \/ c.kind = "restart_pty" /\ Post(Msg("error", NoName))
    /\ UNCHANGED <<response, timeouts>>

\* A call that found no room is queued when there is some.
BridgeCalls ==
    /\ bridge # NoCommand /\ ~bridge.sent /\ Len(ipc) < IpcBuffer
    /\ Calls(bridge.kind, bridge.value, bridge.calls)
    /\ UNCHANGED <<commands, events, response, timeouts>>

\* The command ends with an error, and the calls that are left are not made.
Fails == Post(Msg("error", NoName)) /\ Calls(bridge.kind, bridge.value, <<>>)

NextCall == Calls(bridge.kind, bridge.value, Tail(bridge.calls))

BridgeHears ==
    /\ bridge.sent /\ response # NoResponse
    /\ \/ response.kind = "refused" /\ Fails
       \/ response.kind = "ok" /\ NextCall /\ UNCHANGED events
       \/ response.kind \in {"status", "list"} /\ Post(response) /\ NextCall
    /\ response' = NoResponse
    /\ UNCHANGED <<commands, timeouts>>

\* Mutant of BridgeGivesUp: what timed out is tried again.
BridgeTriesAgain ==
    /\ bridge.sent /\ response = NoResponse
    /\ timeouts < MaxTimeouts /\ timeouts' = timeouts + 1
    /\ Calls(bridge.kind, bridge.value, bridge.calls)
    /\ UNCHANGED <<commands, events, response>>

\* After a second: an error when it was the command's first call, and nothing
\* when it was one of those that follow a switch.
BridgeGivesUp ==
    /\ bridge.sent /\ response = NoResponse
    /\ timeouts < MaxTimeouts /\ timeouts' = timeouts + 1
    /\ IF bridge.calls = CallsOf(bridge.kind) THEN Fails
       ELSE NextCall /\ UNCHANGED events
    /\ UNCHANGED <<commands, response>>

BridgeFrame == UNCHANGED <<backendVars, dialogVars, shownVars, last_ipc_error, owed, pressed>>

\* What the bridge does as long as the server answers.
BridgeStep == (BridgeTakes \/ BridgeCalls \/ BridgeHears) /\ BridgeFrame

-----------------------------------------------------------------------------
(* The server. *)

\* The bridge waits for the last call it has queued, if for any.
Awaited == bridge.sent /\ Len(ipc) = 1

Respond(r) == response' = IF Awaited THEN r ELSE response

\* ListBackends
Listed == [i \in DOMAIN config.backends |->
             [id |-> config.backends[i], is_active |-> config.backends[i] = active_backend]]

\* IpcServer::run, one command.
ServerStep ==
    /\ ipc # <<>>
    /\ ipc' = Tail(ipc)
    /\ LET c == Head(ipc) IN
         \/ /\ c.kind = "switch"
            /\ SwitchBackend(c.value)
            /\ Respond(Msg(IF HasBackend(config, c.value) THEN "ok" ELSE "refused", NoName))
            /\ owed' = Carried("switch")
         \/ /\ c.kind = "get_status"
            /\ Respond(Msg("status", active_backend))
            /\ UNCHANGED <<backendVars, owed>>
         \/ /\ c.kind = "list_backends"
            /\ Respond(Msg("list", Listed))
            /\ UNCHANGED <<backendVars, owed>>
    /\ UNCHANGED <<dialogVars, shownVars, bridge, timeouts, last_ipc_error, commands,
                   events, pressed>>

\* The web UI switches, or edits the backends, at any time.
WebUi ==
    /\ BackendNext
    /\ UNCHANGED <<dialogVars, shownVars, ipcVars, last_ipc_error, commands, events,
                   owed, pressed>>

ControlNext ==
    \/ Key
    \/ Tick
    \/ HandleEvent
    \/ BridgeStep
    \/ BridgeGivesUp /\ BridgeFrame
    \/ ServerStep
    \/ WebUi

ControlSpec == ControlInit /\ [][ControlNext]_controlVars

\* Ticks come several times a second; loop, bridge and server are tasks that
\* never stop, so that one of them moves as long as one can.  That the client
\* gives up is not promised.
ControlFairness ==
    /\ WF_controlVars(Tick)
    /\ WF_controlVars(HandleEvent \/ BridgeStep \/ ServerStep)

ControlFairSpec == ControlSpec /\ ControlFairness

-----------------------------------------------------------------------------
(* What must hold. *)

Rows == Seq([id : Backends, is_active : BOOLEAN])

ControlTypeOK ==
    /\ BackendTypeOK
    /\ focus \in {"terminal", "backend_switch", "settings", "history"}
    /\ backend_switch \in SwitchDialogType
    /\ settings_dialog \in SettingsDialogType
    /\ history_dialog \in HistoryDialogType
    /\ settings \in {0, 1}
    /\ backends \in Rows
    /\ proxy_status \in Option(Backends)
    /\ overrides \in [Overrides -> Option(Backends)]
    /\ last_ipc_error \in BOOLEAN
    /\ Len(commands) <= CommandBuffer /\ Len(ipc) <= IpcBuffer
    /\ (bridge = NoCommand) <=> (bridge.calls = <<>>)
    /\ response # NoResponse => bridge.sent /\ ipc = <<>>

\* src/ui/app.rs:189: the keys go to the dialog that is drawn, and no dialog is
\* drawn that has no keys.
KeysGoToDialog ==
    /\ ControlTypeOK
    /\ focus = "backend_switch" <=> backend_switch # Hidden
    /\ focus = "settings" <=> settings_dialog # Hidden
    /\ focus = "history" <=> history_dialog # Hidden

\* The messages of one kind in s, in their order.
Of(kind, s) ==
    LET kept[n \in 0..Len(s)] ==
          IF n = 0 THEN <<>>
          ELSE IF s[n].kind = kind THEN Append(kept[n - 1], s[n]) ELSE kept[n - 1]
    IN  kept[Len(s)]

\* The call of a switch that is not queued yet.
NotYetCalled ==
    IF bridge.calls = CallsOf("switch") /\ ~bridge.sent
    THEN <<Msg("switch", bridge.value)>> ELSE <<>>

\* src/ipc/client.rs:83: every choice the UI accepted is carried out once and in the
\* order of the choices, or is still on its way: also when the client gave up
\* waiting and showed an error, and when a later choice was made meanwhile.
ChoicesInOrder ==
    \A k \in ChoiceKinds :
        owed[k] = Of(k, events \o ipc \o NotYetCalled \o commands)

\* docs/design/backend-selector-popup.md:63: the arrow keys move across the list, so
\* what they highlight is a row that is drawn.  The code does not keep this, and
\* no run checks it: it counts the rows of the list the dialog was opened on, and a
\* shorter list may have replaced that one since.
ArrowsStayOnList ==
    [][InSwitchDialog /\ focus' = focus /\ backends # <<>>
          /\ backend_switch'.row # backend_switch.row =>
             LET s == backend_switch.section
             IN  backend_switch'.row[s] < Len(backends) + (IF s = "active" THEN 0 ELSE 1)]_controlVars

\* docs/design/backend-selector-popup.md:79: the header comes to show the active
\* backend, whoever switched it and whatever timed out, once there is an end to
\* the switches and the timeouts.
HeaderCatchesUp == []<>(proxy_status = active_backend)

\* docs/design/backend-selector-popup.md:85: an IPC error is still shown when the
\* popup is opened next.  The code does not keep this, and no run checks it:
\* opening sends a command, and a command that finds room clears the error.
ErrorShownOnOpen ==
    [][focus = "terminal" /\ focus' = "backend_switch" /\ last_ipc_error
          => last_ipc_error']_controlVars
=============================================================================
