---------------------------- MODULE PresetEditor ----------------------------
(***************************************************************************)
(* The editor's Presets page (src/src/editor.ts, list-reorder.ts) with the  *)
(* preview card of the same dialog.  They talk through window events, by    *)
(* index: the editor says which preset is open, the preview says where the  *)
(* viewer moved the map.  The presets themselves go to the card through     *)
(* Home Assistant, which is external, as config-changed and setConfig, and  *)
(* the editor tells which preset is open once Lit has updated it: either    *)
(* may come first, but nothing of the viewer's comes before both.           *)
(* In YAML mode Home Assistant takes the editor off the page, still calls   *)
(* its setConfig, and puts it back.                                         *)
(*                                                                          *)
(* The card has show_recenter set, so that a list that becomes empty is no  *)
(* rebuild, and tracks no marker.                                           *)
(***************************************************************************)
EXTENDS MapView, SequencesExt

CONSTANT MaxPresets   \* bound: presets in the list

VARIABLES editor,   \* presets, open: an index, page: the Presets page is shown,
                    \* dirty: updated() is due, on: it is in the document; history:
                    \* told, it has told what is open since it was last put there
          focus,    \* window.__weatherRadarPresetFocus
          inbox     \* the presets on their way to the card, or Absent

editorVars == <<view, gps, setting, past, editor, focus, inbox>>

Settled == ~editor.dirty /\ inbox = Absent

-----------------------------------------------------------------------------
(* The list                                                                  *)

moveItem(list, from, to) ==
    InsertAt(RemoveAt(list, from), IF to > from THEN to - 1 ELSE to, list[from])

\* to is a gap between rows: past `from`, removing that row shifts it down.
indexAfterMove(index, from, to) ==
    LET target == IF to > from THEN to - 1 ELSE to
    IN  IF index = from THEN target
        ELSE IF from < index /\ index <= target THEN index - 1
        ELSE IF target <= index /\ index < from THEN index + 1
        ELSE index

indexAfterRemove(index, removed) ==
    IF index = Absent \/ index = removed THEN Absent
    ELSE IF index > removed THEN index - 1 ELSE index

\* _setPresets, with the preset that is open by then.
_setPresets(presets, open) ==
    /\ editor' = [editor EXCEPT !.presets = presets, !.open = open,
                                !.dirty = @ \/ open # editor.open]
    /\ inbox' = presets
    /\ UNCHANGED focus

CardStays == UNCHANGED <<view, gps, setting, past>>

FreshId(presets) == CHOOSE i \in 1..MaxPresets : \A k \in DOMAIN presets : presets[k].id # i

AddPreset(place) ==
    /\ Len(editor.presets) < MaxPresets
    /\ _setPresets(Append(editor.presets,
                          [id |-> FreshId(editor.presets), entity |-> Absent, at |-> place]),
                   Len(editor.presets) + 1)
    /\ CardStays

\* The Add button: a preset that has no place yet.
Add == editor.page /\ AddPreset(Absent)

\* "Add as preset" of a marker, on the page of the markers.
_addMarkerAsPreset(place) ==
    /\ ~editor.page /\ \A i \in DOMAIN editor.presets : editor.presets[i].at # place
    /\ AddPreset(place)

_removePreset(i) ==
    /\ editor.page /\ i \in DOMAIN editor.presets
    /\ _setPresets(RemoveAt(editor.presets, i), indexAfterRemove(editor.open, i))
    /\ CardStays

\* By drag or arrow key, to insert position `to`.
_movePreset(from, to) ==
    /\ editor.page /\ from \in DOMAIN editor.presets /\ to \notin {from, from + 1}
    /\ _setPresets(moveItem(editor.presets, from, to),
                   IF editor.open = Absent THEN Absent ELSE indexAfterMove(editor.open, from, to))
    /\ CardStays

\* The coordinates typed into the open preset's fields.
_setPresetField(place) ==
    /\ editor.page /\ editor.open \in DOMAIN editor.presets
    /\ _setPresets([editor.presets EXCEPT ![editor.open].at = place], editor.open)
    /\ CardStays

\* A tap on a preset's row opens or folds it.
TapRow(i) ==
    /\ editor.page /\ i \in DOMAIN editor.presets
    /\ editor' = [editor EXCEPT !.open = IF @ = i THEN Absent ELSE i, !.dirty = TRUE]
    /\ CardStays /\ UNCHANGED <<focus, inbox>>

\* _setView: to the Presets page, which opens the first one, or off it.
_setView(page) ==
    /\ page # editor.page
    /\ LET n == Len(editor.presets)
           open == IF ~page THEN editor.open
                   ELSE IF editor.open = Absent \/ editor.open > n
                        THEN (IF n > 0 THEN 1 ELSE Absent) ELSE editor.open
       IN  editor' = [editor EXCEPT !.page = page, !.open = open, !.dirty = TRUE]
    /\ CardStays /\ UNCHANGED <<focus, inbox>>

-----------------------------------------------------------------------------
(* To the card, which takes both as they come                                *)

\* setEditorPresetFocus, and the preview's _onPresetFocus.
setEditorPresetFocus(i) ==
    /\ focus' = i
    /\ UNCHANGED <<gps, setting, inbox>>
    /\ view' = edit(view, focus')
    /\ Noted(FALSE)

\* Lit's updated().
Updated ==
    /\ editor.dirty
    /\ editor' = [editor EXCEPT !.dirty = FALSE, !.told = TRUE]
    /\ setEditorPresetFocus(IF editor.page THEN editor.open ELSE Absent)

\* Mutant: the preview lets go of its stop whatever the editor has open.
PresetsSetDrops(v) == drop(v)

\* The card's setConfig with only the presets changed.
PresetsSet(v) == IF focus # Absent THEN edit(v, focus) ELSE drop(v)

Configured ==
    /\ inbox # Absent
    /\ setting' = [setting EXCEPT !.presets = inbox]
    /\ inbox' = Absent
    /\ UNCHANGED <<gps, editor, focus>>
    /\ view' = PresetsSet(view)
    /\ Noted(FALSE)

\* The card has the preset that is open on show, so that a pan is for it.
Panned(place) ==
    /\ focus \in DOMAIN editor.presets /\ view.held = focus
    /\ editor.page /\ focus = editor.open
    /\ editor.presets[focus].at # place

\* moveend under the viewer's mark: _pushMapToPreset and _onMapPresetMove.
Pushes(place) ==
    IF view'.hand # view.hand /\ Panned(place)
    THEN _setPresets([editor.presets EXCEPT ![focus].at = place], editor.open)
    ELSE UNCHANGED <<editor, focus, inbox>>

Quiet == UNCHANGED <<editor, focus, inbox>>

\* What MapView's steps are to the editor.  A press marks the map's move before
\* it ends it, and the mark is gone by then.
HandMoveEndsHere(place) == Settled /\ HandMoveEnds(place) /\ Pushes(place)

PressedWhileMoving ==
    /\ Settled /\ ~view.down /\ view.move # Absent
    /\ PointerDown
    /\ IF Panned(view.at)
       THEN _setPresets([editor.presets EXCEPT ![focus].at = view.at], editor.open)
       ELSE Quiet

PressedAtRest == Settled /\ view.move = Absent /\ PointerDown /\ Quiet

CardMoves == MoveEnds \/ PressRecenter \/ PressLabel \/ IdleTimerFires

-----------------------------------------------------------------------------
(* YAML mode                                                                 *)

disconnectedCallback ==
    /\ editor.on
    /\ editor' = [editor EXCEPT !.on = FALSE, !.told = FALSE]
    /\ setEditorPresetFocus(Absent)

\* Nothing tells the card again what is open.
connectedCallback ==
    /\ ~editor.on
    /\ editor' = [editor EXCEPT !.on = TRUE]
    /\ CardStays /\ UNCHANGED <<focus, inbox>>

\* The viewer types other presets: some go, or they change places.
Typed == {Presets, Reverse(editor.presets), <<>>, SubSeq(editor.presets, 2, Len(editor.presets))}

\* setConfig of the editor, and soon of the card: the open row keeps its index.
setConfig(presets) ==
    /\ ~editor.on
    /\ editor' = [editor EXCEPT !.presets = presets]
    /\ inbox' = presets
    /\ CardStays /\ UNCHANGED focus

-----------------------------------------------------------------------------
InitEditor ==
    /\ gps \in Fixes
    /\ setting = [tracked |-> FALSE, centre |-> Home, presets |-> Presets]
    /\ view = InitView
    /\ past = [base |-> Home, missed |-> FALSE, by |-> "card", cut |-> FALSE]
    /\ editor = [presets |-> Presets, open |-> Absent, page |-> FALSE, dirty |-> FALSE,
               on |-> TRUE, told |-> TRUE]
    /\ focus = Absent /\ inbox = Absent

\* One pointer: nothing is done in the editor while it is on the map.
AtEditor == Settled /\ ~view.down

ListStep ==
    \/ Add \/ \E p \in Places : _addMarkerAsPreset(p)
    \/ \E i \in 1..MaxPresets : _removePreset(i) \/ TapRow(i)
    \/ \E from \in 1..MaxPresets, to \in 1..MaxPresets + 1 :
          to <= Len(editor.presets) + 1 /\ _movePreset(from, to)
    \/ \E p \in Places : _setPresetField(p)
    \/ \E page \in BOOLEAN : _setView(page)

YamlStep ==
    \/ disconnectedCallback \/ connectedCallback
    \/ \E presets \in Typed : setConfig(presets)

NextEditor ==
    \/ AtEditor /\ editor.on /\ ListStep
    \/ AtEditor /\ YamlStep
    \/ Updated \/ Configured
    \/ PressedWhileMoving \/ PressedAtRest
    \/ \E p \in Places : HandMoveEndsHere(p)
    \/ Settled /\ (CardMoves \/ PointerUp \/ HandMoves \/ GraceEnds) /\ Quiet

SpecEditor == InitEditor /\ [][NextEditor]_editorVars

-----------------------------------------------------------------------------
\* The preview shows the preset that is open, wherever in the list it was moved
\* to, whatever became of the others, and in whichever order the card hears of
\* the list and of what is open; and it shows no preset once none is, and in YAML
\* mode.  After that it shows none until the open index or the page changes, though
\* "the one preset shown open on the Presets page; the preview shows it".
PreviewShowsOpen ==
    Settled =>
      LET open == IF editor.told /\ editor.page THEN editor.open ELSE Absent
      IN  /\ view.editing = open
          /\ open # Absent => /\ view.held = open
                              /\ (/\ open \in DOMAIN editor.presets
                                  /\ editor.presets[open].at # Absent /\ past.by = "card") =>
                                   past.base = editor.presets[open].at

Ids(presets) == {presets[i].id : i \in DOMAIN presets}

\* A preset that is open stays the one that is open, wherever it or another is
\* dragged and whatever other one is removed: what is typed or panned next is its.
\* In YAML mode the list changes under the open row, which keeps its index.
OpenStaysOpen ==
    [][(/\ editor.on /\ editor'.presets # editor.presets /\ editor.open \in DOMAIN editor.presets
        /\ Ids(editor'.presets) \subseteq Ids(editor.presets)
        /\ editor.presets[editor.open].id \in Ids(editor'.presets)) =>
          /\ editor'.open \in DOMAIN editor'.presets
          /\ editor'.presets[editor'.open].id = editor.presets[editor.open].id]_editorVars

\* What the viewer's hand last did to the map, the preset the preview shows is set
\* to: but for a new one, which has no place yet.
PanIsKept ==
    Settled /\ focus \in DOMAIN editor.presets /\ view.move = Absent /\ past.by = "hand" =>
        editor.presets[focus].at \in {Absent, view.at}

\* The card's preview and the editor's list are in step, both ways.
EditorInStep == PreviewShowsOpen /\ PanIsKept
=============================================================================
