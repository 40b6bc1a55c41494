-------------------------------- MODULE Dialogs --------------------------------
(***************************************************************************)
(* The three dialogs of the terminal UI as values: what the reducers of    *)
(* src/ui/backend_switch, src/ui/settings and src/ui/history make of each  *)
(* intent.  A dialog is Hidden or a record.                                *)
(***************************************************************************)
EXTENDS Naturals

CONSTANT VisibleRows    \* MAX_VISIBLE_ROWS of the history

ASSUME VisibleRowsAssumption == VisibleRows \in Nat \ {0}

Hidden == [visible |-> FALSE]

-----------------------------------------------------------------------------
(* The backend switch dialog.  Rows count from 0.  The active section has a *)
(* row for every backend; the sections of the two overrides begin with a    *)
(* row "Disabled".                                                          *)

Overrides == {"subagent", "teammate"}

Sections == {"active"} \cup Overrides

\* BackendSwitchState::Visible.  count is the number of backends at opening.
SwitchDialogType ==
    {Hidden} \cup
    [visible : {TRUE}, section : Sections, count : Nat, row : [Sections -> Nat]]

OpenSwitchDialog(row, count) ==
    [visible |-> TRUE, section |-> "active", count |-> count, row |-> row]

NextSection(d) ==
    [d EXCEPT !.section = CASE @ = "active"   -> "subagent"
                            [] @ = "subagent" -> "teammate"
                            [] @ = "teammate" -> "active"]

RowsOf(d) == IF d.section = "active" THEN d.count ELSE d.count + 1

LesserOf(i, j) == IF i < j THEN i ELSE j

\* wrap_around: a row beyond the last is taken for the last first.
WrapAround(i, step, rows) ==
    IF rows = 0 THEN 0
    ELSE (LesserOf(i, rows - 1) + rows + step) % rows

Navigate(d, step) ==
    [d EXCEPT !.row[d.section] = WrapAround(@, step, RowsOf(d))]

-----------------------------------------------------------------------------
(* The settings dialog, of the single field that builtin_registry has: Up   *)
(* and Down stay on it and take the question back.                          *)

SettingsDialogType ==
    {Hidden} \cup
    [visible : {TRUE}, value : {0, 1}, dirty : BOOLEAN, confirm_discard : BOOLEAN]

LoadSettings(v) ==
    [visible |-> TRUE, value |-> v, dirty |-> FALSE, confirm_discard |-> FALSE]

ToggleSetting(d) ==
    [d EXCEPT !.value = 1 - @, !.dirty = TRUE, !.confirm_discard = FALSE]

MoveInSettings(d) == [d EXCEPT !.confirm_discard = FALSE]

\* The first Escape asks when there are changes, the second one closes.
RequestCloseSettings(d) ==
    IF d.dirty /\ ~d.confirm_discard THEN [d EXCEPT !.confirm_discard = TRUE] ELSE Hidden

-----------------------------------------------------------------------------
(* The history dialog, of a number of entries copied at opening.            *)

HistoryDialogType == {Hidden} \cup [visible : {TRUE}, entries : Nat, offset : Nat]

LastOffset(entries) == IF entries > VisibleRows THEN entries - VisibleRows ELSE 0

LoadHistory(entries) ==
    [visible |-> TRUE, entries |-> entries, offset |-> LastOffset(entries)]

ScrollUp(d) == [d EXCEPT !.offset = IF @ = 0 THEN 0 ELSE @ - 1]

ScrollDown(d) == [d EXCEPT !.offset = LesserOf(@ + 1, LastOffset(d.entries))]
=============================================================================
