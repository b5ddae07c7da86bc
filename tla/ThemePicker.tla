---------------------------- MODULE ThemePicker ----------------------------
(***************************************************************************)
(* The theme picker of the terminal interface (src/src/ui/mod.rs) and the  *)
(* theme manager behind it (src/src/ui/theme.rs).  The picker shows each   *)
(* theme as the cursor reaches it, and either saves the one under the      *)
(* cursor or puts back the one before.  Names are numbers in their order;  *)
(* a filter stands for the themes it matches.                              *)
(***************************************************************************)
EXTENDS Naturals, SequencesExt

CONSTANTS Theme,   \* names, in alphabetical order: 1..n
          Broken,  \* themes whose file does not parse
          Filter   \* what filters match: sets of themes, Theme for the empty one

VARIABLES picker,    \* the state of the picker in the loop
          rendered,  \* the theme on the screen: ACTIVE_THEME
          saved,     \* `active` of themes.toml
          before,    \* history: the theme on the screen before the picker opened
          openings   \* history: first, or later, opening

vars == <<picker, rendered, saved, before, openings>>

\* The theme a selector starts with need not be a file.
BuiltIn == 0
NoTheme == 0
Picker == [open : BOOLEAN, insert : BOOLEAN, ready : BOOLEAN,
           filter : Filter, input : Filter, dirty : BOOLEAN,
           shown : SUBSET Theme, row : Nat, believed : Theme \cup {NoTheme},
           original : Theme \cup {BuiltIn}]

TypeOK == /\ picker \in Picker
          /\ rendered \in Theme \cup {BuiltIn} /\ saved \in Theme \cup {NoTheme}
          /\ before \in Theme \cup {BuiltIn} /\ openings \in 0..2

\* load_initial_theme: the saved one, when it parses.
Init == /\ saved \in Theme \cup {NoTheme}
        /\ rendered = IF saved \in Theme \ Broken THEN saved ELSE BuiltIn
        /\ picker = [open |-> FALSE, insert |-> FALSE, ready |-> FALSE, filter |-> Theme,
                     input |-> Theme, dirty |-> FALSE, shown |-> {}, row |-> 0,
                     believed |-> NoTheme, original |-> BuiltIn]
        /\ before = BuiltIn /\ openings = 0

Names(p) == SetToSortSeq(p.shown, <)
Lines(p) == Len(Names(p))
LastLine(p) == IF p.shown = {} THEN 0 ELSE Lines(p) - 1
Pointed(p) == IF p.row < Lines(p) THEN {Names(p)[p.row + 1]} ELSE {}
\* apply_theme_from_picker: the theme under the cursor, if it loads.
Shown(p) == IF Pointed(p) \cap Broken = {} /\ Pointed(p) # {}
            THEN CHOOSE t \in Pointed(p) : TRUE ELSE rendered
Previews(p) == picker' = p /\ rendered' = Shown(p)
Closed(p) == [p EXCEPT !.open = FALSE, !.insert = FALSE, !.filter = Theme, !.input = Theme,
                       !.dirty = FALSE]

\* Mutant of Snapshot: the theme that the picker shows first.
SnapshotLate(p) == [p EXCEPT !.original = Shown(p)]
Snapshot(p) == [p EXCEPT !.original = rendered]

\* e, and the head of the loop: only the first time is the manager made, the
\* list read and the screen's theme remembered.  Themes may be unreadable.
OpenPicker ==
    /\ ~picker.open
    /\ before' = rendered /\ openings' = IF openings < 2 THEN openings + 1 ELSE 2
    /\ \/ /\ picker.ready
          /\ picker' = [picker EXCEPT !.open = TRUE] /\ UNCHANGED rendered
       \/ /\ ~picker.ready
          /\ LET row == IF saved = NoTheme THEN 0
                        ELSE CHOOSE i \in 0..Len(SetToSortSeq(Theme, <)) - 1 :
                               SetToSortSeq(Theme, <)[i + 1] = saved
             IN Previews(Snapshot([picker EXCEPT !.open = TRUE, !.ready = TRUE,
                           !.shown = Theme, !.believed = saved, !.row = row]))
       \/ ~picker.ready /\ UNCHANGED <<picker, rendered>>
    /\ UNCHANGED saved

\* Arrows, j k, pages, Ctrl-g and G; in insert mode the first two only.
MoveTheme ==
    /\ picker.open
    /\ \E row \in ({picker.row + 1} \cap 0..LastLine(picker))
                  \cup ({picker.row - 1} \cap 0..picker.row)
                  \cup (IF picker.insert THEN {} ELSE {0, LastLine(picker)}) :
         Previews([picker EXCEPT !.row = row])
    /\ UNCHANGED <<saved, before, openings>>

Quietly(p) == picker' = p /\ UNCHANGED <<rendered, saved, before, openings>>

FilterThemes == picker.open /\ ~picker.insert
                /\ Quietly([picker EXCEPT !.insert = TRUE, !.input = picker.filter])
TypeTheme == /\ picker.open /\ picker.insert
             /\ \E f \in Filter : Quietly([picker EXCEPT !.input = f, !.filter = f, !.dirty = TRUE])
LeaveFilter == /\ picker.open /\ picker.insert
               /\ Quietly([picker EXCEPT !.insert = FALSE, !.filter = picker.input,
                                         !.input = Theme])
\* The debounced rebuild: the cursor may then be on another theme than the
\* one on the screen.
RebuildThemes ==
    /\ picker.dirty
    /\ LET p == [picker EXCEPT !.shown = picker.filter, !.dirty = FALSE]
       IN Quietly([p EXCEPT !.row = IF @ < Lines(p) THEN @ ELSE LastLine(p)])

\* Enter: commit_theme_picker.  The save may fail.
Commit == /\ picker.open
          /\ IF Pointed(picker) = {} THEN picker' = Closed(picker) /\ UNCHANGED saved
             ELSE \E t \in Pointed(picker) :
                    /\ picker' = [Closed(picker) EXCEPT !.believed = t]
                    /\ saved' \in {saved, t}
          /\ UNCHANGED <<rendered, before, openings>>

\* e, q and Esc: cancel_theme_picker.
Cancel == /\ picker.open /\ ~picker.insert
          /\ picker' = Closed(picker) /\ rendered' = picker.original
          /\ UNCHANGED <<saved, before, openings>>

Next == OpenPicker \/ MoveTheme \/ FilterThemes \/ TypeTheme \/ LeaveFilter \/ RebuildThemes
        \/ Commit \/ Cancel

Spec == Init /\ [][Next]_vars
---------------------------------------------------------------------------
(* Properties *)

\* While the picker is used for the first time, the theme that leaving it puts
\* back is the one that was on the screen before, whatever is shown meanwhile.
OriginalKept == openings = 1 /\ picker.open /\ picker.ready => picker.original = before

\* "Restore the in-memory theme that was active before the picker opened":
\* leaving
\* puts the theme before it back at every opening.
CancelRestores == [][Cancel => rendered' = before]_vars
=============================================================================
