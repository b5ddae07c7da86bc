------------------------------ MODULE Selector ------------------------------
(***************************************************************************)
(* The selector of the terminal interface: select_snippet_inner of         *)
(* src/src/ui/mod.rs with src/src/ui/state.rs.  One loop redraws, waits    *)
(* for a key and handles it; the list is rebuilt from the filter later     *)
(* than the key that changed the filter, after a debounce, and a longer    *)
(* filter is matched against the previous list only.  The user sees the    *)
(* list and the cursor as they are before each event.  Layout, colours,    *)
(* highlighting and the clipboard are left out; the theme picker is        *)
(* ThemePicker.                                                            *)
(***************************************************************************)
EXTENDS Integers, SequencesExt

CONSTANTS Display,     \* the text of each snippet: a sequence of sequences of characters
          Tags,        \* the tags of each snippet: a sequence of sets of texts
          Char,        \* the characters typed
          Text,        \* the filters: of a text all its beginnings
          IsSearch,    \* the selector stays after a copy
          AllowDelete

VARIABLES ui,      \* the state of the loop
          asked,   \* history: the snippet under the cursor when d was pressed
          outcome  \* how the selector ended

vars == <<ui, asked, outcome>>

\* Snippets are numbered by the time they were updated.
Snippet == DOMAIN Display
None == 0
SortMode == {"none", "newest"}  \* the others differ in what they compare
FilterRequest == [text : Text, tags : BOOLEAN, built : BOOLEAN]
Unbuilt == [text |-> <<>>, tags |-> FALSE, built |-> FALSE]  \* before the first rebuild
Outcome == [kind : {"open", "selected", "copied", "delete", "cancelled", "empty"},
            picked : SeqOf(Snippet, Len(Display)), pointed : BOOLEAN]
Open == [kind |-> "open", picked |-> <<>>, pointed |-> FALSE]

Loop == [insert : BOOLEAN, tag : BOOLEAN, visual : BOOLEAN,
         start : 0..Len(Display), end : 0..Len(Display),  \* the visual range
         sel : 0..Len(Display),                           \* the cursor
         filter : Text, input : Text, tagText : Text,
         sort : SortMode, list : SeqOf(Snippet, Len(Display)),
         request : FilterRequest,                         \* what list was built for
         dirty : BOOLEAN, waiting : BOOLEAN,              \* a rebuild is due; its debounce runs
         deleting : Snippet \cup {None},                  \* the delete dialog
         left : BOOLEAN]                                  \* history: tag mode was left, no rebuild since

TypeOK == ui \in Loop /\ asked \in Snippet \cup {None} /\ outcome \in Outcome
---------------------------------------------------------------------------
(* The filter *)

Subsequence(t, s) == \E at \in [DOMAIN t -> DOMAIN s] :
                        /\ \A i, j \in DOMAIN t : i < j => at[i] < at[j]
                        /\ \A i \in DOMAIN t : s[at[i]] = t[i]
HasPart(s, t) == \E i \in 0..Len(s) - Len(t) : SubSeq(s, i + 1, i + Len(t)) = t

TagMatch(i, r) == r.tags /\ \E t \in Tags[i] : HasPart(t, r.text)
\* rebuild_filter_candidates for one row; the fuzzy matcher finds the
\* characters of the filter in order.
Matches(i, r) == r.text = <<>> \/ TagMatch(i, r) \/ Subsequence(r.text, Display[i])
Matching(r) == {i \in Snippet : Matches(i, r)}
\* The exact and tag matches come before the fuzzy ones.
Score(i, r) == IF TagMatch(i, r) \/ Display[i] = r.text THEN 1 ELSE 0

\* current_filter_request
Current(s) ==
    IF s.filter = <<>> /\ s.tagText = <<>> THEN [text |-> <<>>, tags |-> FALSE, built |-> TRUE]
    ELSE [text |-> IF s.tag THEN s.tagText ELSE s.filter, tags |-> s.tag \/ s.tagText # <<>>,
          built |-> TRUE]

\* Mutant of CanNarrowFrom: a longer filter narrows any other.
CanNarrowFromShorter(r, previous) ==
    /\ previous.text # <<>>
    /\ r.tags = previous.tags /\ Len(r.text) >= Len(previous.text)

\* FilterRequest::can_narrow_from
CanNarrowFrom(r, previous) ==
    /\ previous.text # <<>>
    /\ r.tags = previous.tags /\ IsPrefix(previous.text, r.text)

\* sort_filtered_indices.  Without a filter the order is that of the sort
\* mode, and left alone without one.  A filter without a sort mode orders by
\* score.  With both, rows of equal score compare as equal and others by the
\* sort mode: this is no order, and what the sort returns is unspecified.
Sorted(s, rows, r) ==
    LET n == Cardinality(Range(rows))
        Before(a, b) == IF r.text # <<>> THEN s.sort # "none" \/ Score(a, r) >= Score(b, r)
                        ELSE a > b
    IN IF s.sort = "none" /\ r.text = <<>> THEN {rows}
       ELSE {p \in [1..n -> Range(rows)] :
               Range(p) = Range(rows) /\ \A i, j \in 1..n : i < j => Before(p[i], p[j])}

\* SelectState::update
Clamp(s) == IF s.sel < Len(s.list) THEN s
            ELSE [s EXCEPT !.sel = IF s.list = <<>> THEN 0 ELSE Len(s.list) - 1]

\* rebuild_filtered_list, all its outcomes.
Rebuild(s) ==
    LET r == Current(s)
        all == [i \in Snippet |-> i]
        source == IF s.request.built /\ CanNarrowFrom(r, s.request) /\ r.text # <<>>
                  THEN s.list ELSE all
        rows == IF r = s.request THEN s.list
                ELSE SelectSeq(source, LAMBDA i : Matches(i, r))
    IN {Clamp([s EXCEPT !.list = p, !.request = r, !.dirty = FALSE, !.waiting = FALSE,
                        !.left = FALSE]) : p \in Sorted(s, rows, r)}

\* The head of the loop: a rebuild that is due, then the list is drawn.
LoopHead(s) == IF s.dirty /\ (~s.waiting \/ (s.filter = <<>> /\ s.tagText = <<>>))
           THEN Rebuild(s) ELSE {Clamp(s)}

\* Mutant of Flush: the list is taken as it is.
FlushNothing(s) == {s}
\* flush_filter_rebuild
Flush(s) == IF s.dirty THEN Rebuild(s) ELSE {s}
---------------------------------------------------------------------------
Start == [insert |-> TRUE, tag |-> FALSE, visual |-> FALSE, start |-> 0, end |-> 0, sel |-> 0,
          filter |-> <<>>, input |-> <<>>, tagText |-> <<>>, sort |-> "none",
          list |-> [i \in Snippet |-> i], request |-> Unbuilt, dirty |-> FALSE,
          waiting |-> FALSE, deleting |-> None, left |-> FALSE]

\* --filter gives an initial filter, --sort an initial sort mode.
Init == /\ \E filter \in Text, sort \in SortMode :
             ui \in LoopHead([Start EXCEPT !.filter = filter, !.sort = sort,
                                       !.dirty = filter # <<>> \/ sort # "none"])
        /\ asked = None /\ outcome = Open

Highlighted == ui.list[ui.sel + 1]
Broaden(s) == [s EXCEPT !.dirty = TRUE, !.waiting = TRUE]
Resort(s, mode) == [s EXCEPT !.sort = IF s.sort = mode THEN "none" ELSE mode, !.dirty = TRUE,
                             !.waiting = FALSE, !.visual = FALSE, !.start = 0, !.end = 0]

Stays(s) == ui' \in LoopHead(s) /\ UNCHANGED outcome
Ends(s, kind, picked, pointed) ==
    ui' = s /\ outcome' = [kind |-> kind, picked |-> picked, pointed |-> pointed]
\* The loop was left with the cursor on a row.
Resolves(s, pointed) ==
    IF s.list = <<>> THEN Ends(s, "empty", <<>>, pointed)
    ELSE Ends(s, "selected", <<s.list[s.sel + 1]>>, pointed)

Keys == outcome.kind = "open" /\ ui.deleting = None
Normal == Keys /\ ~ui.visual /\ ~ui.insert
Insert == Keys /\ ~ui.visual /\ ui.insert

\* The debounce time passes.
Tick == /\ outcome.kind = "open" /\ ui.dirty /\ ui.waiting
        /\ ui' \in LoopHead([ui EXCEPT !.waiting = FALSE]) /\ UNCHANGED <<asked, outcome>>

\* The wheel and the mouse; a second click on a row takes it.
Mouse == /\ outcome.kind = "open"
         /\ \/ \E row \in DOMAIN ui.list : Stays([ui EXCEPT !.sel = row - 1])
            \/ \E row \in DOMAIN ui.list : Resolves([ui EXCEPT !.sel = row - 1], TRUE)
         /\ UNCHANGED asked

\* Arrows, h j k l, pages, gg, G: to any row near or far.
Move == /\ Keys /\ ~ui.visual
        /\ \E row \in {ui.sel - 1, ui.sel + 1, 0, Len(ui.list) - 1} :
             row \in 0..Len(ui.list) - 1 /\ Stays([ui EXCEPT !.sel = row])
        /\ UNCHANGED asked

Type(c) ==
    /\ Insert
    /\ LET s == IF ui.tag THEN [ui EXCEPT !.tagText = Append(@, c), !.sel = 0, !.dirty = TRUE]
                ELSE [ui EXCEPT !.input = Append(@, c), !.filter = Append(@, c),
                                !.sel = 0, !.dirty = TRUE]
       IN /\ {s.tagText, s.filter, s.input} \subseteq Text
          /\ Stays([s EXCEPT !.waiting = s.request.built
                                         /\ ~CanNarrowFrom(Current(s), s.request)])
    /\ UNCHANGED asked

Backspace ==
    /\ Insert
    /\ LET Popped(t) == IF t = <<>> THEN t ELSE Front(t)
           s == IF ui.tag THEN [ui EXCEPT !.tagText = Popped(@)]
                ELSE [ui EXCEPT !.input = Popped(@), !.filter = Popped(@)]
       IN Stays(Broaden([s EXCEPT !.sel = 0]))
    /\ UNCHANGED asked

\* Esc leaves tag mode; else insert mode, and then takes over the input.
LeaveInsert ==
    /\ Insert
    /\ IF ui.tag THEN Stays([ui EXCEPT !.tag = FALSE, !.left = TRUE])
       ELSE Stays(Broaden([ui EXCEPT !.insert = FALSE, !.filter = ui.input, !.input = <<>>]))
    /\ UNCHANGED asked

\* Enter, in either mode.
Enter == /\ Insert \/ Normal
         /\ \E s \in Flush(ui) : Resolves(s, FALSE)
         /\ UNCHANGED asked

EnterInsert == /\ Normal
               /\ \/ Stays([ui EXCEPT !.insert = TRUE, !.input = ui.filter])
                  \/ Stays(Broaden([ui EXCEPT !.insert = TRUE, !.input = <<>>, !.filter = <<>>]))
               /\ UNCHANGED asked

\* y
Copy == /\ Normal
        /\ \E s \in Flush(ui) : IF s.list = <<>> \/ IsSearch THEN Stays(s) ELSE Resolves(s, FALSE)
        /\ UNCHANGED asked

\* d asks; y deletes, any other key does not.
AskDelete == /\ Normal /\ AllowDelete /\ ui.list # <<>>
             /\ Stays([ui EXCEPT !.deleting = Highlighted]) /\ asked' = Highlighted
AnswerDelete ==
    /\ outcome.kind = "open" /\ ui.deleting # None
    /\ \/ Ends(ui, "delete", <<ui.deleting>>, FALSE)
       \/ Stays([ui EXCEPT !.deleting = None])
    /\ UNCHANGED asked

Sort == /\ Normal
        /\ Stays(Resort(ui, "newest"))
        /\ UNCHANGED asked

\* x, c
Clear == /\ Normal
         /\ Stays(Broaden([ui EXCEPT !.filter = <<>>, !.tagText = <<>>, !.tag = FALSE]))
         /\ UNCHANGED asked

\* t
ToggleTag == /\ Normal
             /\ IF ui.tag THEN Stays([ui EXCEPT !.tag = FALSE, !.left = TRUE])
                ELSE Stays(Broaden([ui EXCEPT !.tag = TRUE, !.tagText = <<>>]))
             /\ UNCHANGED asked
---------------------------------------------------------------------------
(* Visual mode *)

EnterVisual == /\ Normal /\ ui.list # <<>>
               /\ \/ Stays([ui EXCEPT !.visual = TRUE, !.start = ui.sel, !.end = ui.sel])
                  \/ Stays([ui EXCEPT !.visual = TRUE, !.start = ui.sel,
                                      !.end = Len(ui.list) - 1, !.sel = Len(ui.list) - 1])
               /\ UNCHANGED asked

Extend == /\ Keys /\ ui.visual
          /\ \/ /\ ui.sel + 1 < Len(ui.list)
                /\ Stays([ui EXCEPT !.sel = @ + 1,
                                    !.end = IF ui.sel < @ THEN @ ELSE ui.sel + 1])
             \/ /\ ui.sel > 0
                /\ IF ui.sel > ui.start THEN Stays([ui EXCEPT !.sel = @ - 1])
                   ELSE ui.start > 0 /\ Stays([ui EXCEPT !.start = @ - 1, !.sel = ui.start - 1])
          /\ UNCHANGED asked

LeaveVisual == /\ Keys /\ ui.visual
               /\ Stays([ui EXCEPT !.visual = FALSE, !.start = 0, !.end = 0])
               /\ UNCHANGED asked

Low(s) == IF s.start < s.end THEN s.start ELSE s.end
High(s) == IF s.start < s.end THEN s.end ELSE s.start
Within(s, row) == IF row < Len(s.list) THEN row ELSE Len(s.list) - 1
\* y: the rows of the range, as far as there are any.
Yank == /\ Keys /\ ui.visual
        /\ LET s == [ui EXCEPT !.visual = FALSE, !.start = 0, !.end = 0]
               rows == IF ui.list = <<>> THEN <<>>
                       ELSE SubSeq(ui.list, Within(ui, Low(ui)) + 1, Within(ui, High(ui)) + 1)
           IN IF IsSearch THEN Stays(s)
              ELSE IF ui.list = <<>> THEN Ends(s, "empty", <<>>, FALSE)
              ELSE Ends(s, "copied", rows, FALSE)
        /\ UNCHANGED asked

\* q and Ctrl-C; a signal.
Quit == /\ outcome.kind = "open" /\ Ends(ui, "cancelled", <<>>, FALSE) /\ UNCHANGED asked

Next == \/ Tick \/ Mouse \/ Move \/ \E c \in Char : Type(c)
        \/ Backspace \/ LeaveInsert \/ Enter \/ EnterInsert \/ Copy \/ AskDelete \/ AnswerDelete
        \/ Sort \/ Clear \/ ToggleTag \/ EnterVisual \/ Extend \/ LeaveVisual \/ Yank \/ Quit

Spec == Init /\ [][Next]_vars
---------------------------------------------------------------------------
(* Properties *)

\* When no rebuild is due the list shows what the filter asks for: matching a
\* longer filter against the previous list only has lost nothing.  Leaving
\* tag mode changes the filter and rebuilds nothing.
ListIsCurrent == outcome.kind = "open" /\ ~ui.dirty /\ ~ui.left /\ ui.request.built =>
                    ui.request = Current(ui) /\ Range(ui.list) = Matching(Current(ui))

\* Enter and y take a snippet that the filter, as typed, matches, however
\* fast the keys came; the snippet that is deleted is the one that was under
\* the cursor when the user asked, whatever happened to the list while the
\* dialog was open.
ActsOnWhatItShows ==
    /\ outcome.kind = "selected" /\ ~outcome.pointed /\ ~ui.left =>
         outcome.picked[1] \in Matching(Current(ui))
    /\ outcome.kind = "delete" => outcome.picked = <<asked>>

\* "rows inside the selection range get the selected background": the rows
\* drawn as selected are the rows a y would copy.
Drawn == {i \in DOMAIN ui.list : ui.list[i] - 1 \in Low(ui)..High(ui)}
Copied == Within(ui, Low(ui)) + 1..Within(ui, High(ui)) + 1
VisualRangeIsDrawn == outcome.kind = "open" /\ ui.visual /\ ui.list # <<>> => Drawn = Copied
=============================================================================
