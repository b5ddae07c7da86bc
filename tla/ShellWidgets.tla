---------------------------- MODULE ShellWidgets ----------------------------
(***************************************************************************)
(* The functions `snp shell init` prints for bash, zsh and fish            *)
(* (src/src/commands/shell_cmd.rs), with the `snp select` and `snp new`    *)
(* they run (select_cmd.rs, new_cmd.rs): what a key does to the line the   *)
(* user is editing, and what reaches the library.  A text is a sequence of *)
(* characters, of which only space and newline matter.                     *)
(***************************************************************************)
EXTENDS Naturals, FiniteSets, Sequences, SequencesExt

CONSTANTS Text,     \* what lines, commands and snippets may be
          MaxUses   \* bound: functions called, commands run

VARIABLES shell,     \* "bash", "zsh" or "fish"
          edit,      \* [text, cursor]: READLINE_LINE, BUFFER, commandline
          history,   \* the events, the newest last
          widget,    \* the function that runs
          chosen,    \* what the user took in `snp select`
          library,   \* the commands added by `snp new`
          result,    \* of the last function
          uses
widgetVars == <<shell, edit, history, widget, chosen, library, result, uses>>

\* An event that is a call of snp_new_previous itself.
Itself == <<"!">>
\* "$old_cmdline" joins the lines that fish took apart.
Joined(text) == [k \in DOMAIN text |-> IF text[k] = "\n" THEN " " ELSE text[k]]
Event == Text \cup {Joined(t) : t \in Text} \cup {Itself}
NoFile == <<"none">>
Resting == [at |-> "idle", old |-> [text |-> <<>>, cursor |-> 0], file |-> NoFile, rc |-> 0,
            path |-> FALSE, of |-> "none"]
Texts == Event \cup {t \o <<"\n">> : t \in Event}

Edit == [text : Seq({"a", "b", " ", "\n"}), cursor : 0..8]
TypeOK ==
    /\ shell \in {"bash", "zsh", "fish"} /\ edit \in Edit
    /\ history \in Seq(Event) /\ library \in Seq(Texts) /\ uses \in 0..MaxUses
    /\ widget.at \in {"idle", "select", "chosen", "new"} /\ widget.old \in Edit
    /\ widget.file \in Text \cup {NoFile, <<>>} /\ widget.rc \in {0, 1, 4}
    /\ widget.path \in BOOLEAN /\ widget.of \in {"none", "choice", "line", "key", "typed"}
    /\ chosen \in Text \cup {<<>>}
    /\ result \in {"none", "kept", "inserted", "added", "failed"}

Init == /\ shell \in {"bash", "zsh", "fish"}
        /\ \E t \in Text \cup {<<>>} : \E c \in {0, Len(t)} : edit = [text |-> t, cursor |-> c]
        /\ history = <<>> /\ widget = Resting /\ chosen = <<>> /\ library = <<>>
        /\ result = "none" /\ uses = 0

Blank(text) == \A k \in DOMAIN text : text[k] \in {" ", "\n"}

\* A command is accepted, and a new line begins.
Accept == /\ widget.at = "idle" /\ uses < MaxUses /\ uses' = uses + 1
          /\ history' = Append(history, edit.text)
          /\ edit.text # <<>> /\ ~Blank(edit.text)
          /\ \E t \in Text : edit' = [text |-> t, cursor |-> 0]
          /\ widget' = Resting /\ result' = "none"
          /\ UNCHANGED <<shell, chosen, library>>
---------------------------------------------------------------------------
(* __snp_select *)

\* fish places the cursor before it replaces the line, which moves it to its end.
Restored(old) ==
    IF shell = "fish" THEN [text |-> Joined(old.text), cursor |-> Len(old.text)] ELSE old

\* snp is not there, or the line is saved and mktemp makes a file, or fails.
Select == /\ widget.at = "idle" /\ uses < MaxUses /\ uses' = uses + 1
          /\ \/ /\ widget' = [Resting EXCEPT !.old = edit, !.of = "choice"]
                /\ result' = "failed"
             \/ /\ \E made \in BOOLEAN :
                     widget' = [Resting EXCEPT !.at = "select", !.old = edit, !.path = made,
                                               !.file = IF made THEN <<>> ELSE NoFile,
                                               !.of = "choice"]
                /\ result' = "none"
          /\ chosen' = <<>>
          /\ UNCHANGED <<shell, edit, history, library>>

\* `snp select --output-file`: cancelled, failed or killed, before or after it
\* replaced the file; without a path it fails.
Snp_select ==
    /\ widget.at = "select"
    /\ \/ /\ \E code \in {1, 4} : widget' = [widget EXCEPT !.at = "chosen", !.rc = code]
          /\ UNCHANGED chosen
       \/ /\ widget.path
          /\ \E t \in Text : \E code \in {0, 1} :
               /\ widget' = [widget EXCEPT !.at = "chosen", !.file = t, !.rc = code]
               /\ chosen' = t
    /\ UNCHANGED <<shell, edit, history, library, result, uses>>

\* The temporary directory is cleaned.
Clean == /\ widget.at \in {"select", "chosen"} /\ widget.file # NoFile
         /\ widget' = [widget EXCEPT !.file = NoFile]
         /\ UNCHANGED <<shell, edit, history, chosen, library, result, uses>>

\* Mutant: only cancellation is looked for, as the file exists from the start.
FinishedUnlessCancelled == widget.rc # 4 /\ widget.file # NoFile
Finished == widget.rc = 0 /\ widget.file # NoFile

SelectReturns ==
    /\ widget.at = "chosen"
    /\ widget' = [widget EXCEPT !.at = "idle", !.file = NoFile, !.path = FALSE]
    /\ \/ /\ ~Finished /\ edit' = Restored(widget.old)
          /\ result' = IF widget.rc = 4 THEN "kept" ELSE "failed"
       \/ /\ Finished /\ result' = "inserted"
          /\ edit' = [text |-> widget.file, cursor |-> Len(widget.file)]
    /\ UNCHANGED <<shell, history, chosen, library, uses>>
---------------------------------------------------------------------------
(* snp new *)

\* run and validate_exact_command_bytes: standard input needs a description
\* and text that is not blank, and is stored as it is; nothing is stored of a
\* command that fails.
New(text) ==
    \E described, stored \in BOOLEAN :
        IF described /\ stored /\ ~Blank(text)
        THEN library' = Append(library, text) /\ result' = "added"
        ELSE result' = "failed" /\ UNCHANGED library

\* snp_new_current: the line is given to snp and put back.
NewCurrent ==
    /\ widget.at = "idle" /\ uses < MaxUses /\ uses' = uses + 1
    /\ \/ result' = "failed" /\ UNCHANGED library
       \/ New(edit.text)
    /\ widget' = [Resting EXCEPT !.old = edit, !.of = "line"]
    /\ UNCHANGED <<shell, edit, history, chosen>>

\* Mutant: a function that a key calls takes itself for an event.
EventOfCommand(key) ==
    IF Len(history) < 2 THEN <<>> ELSE history[Len(history) - 1]
\* The event before the call, which is one itself unless a key made it; fish
\* looks at the text instead.
EventBefore(key) ==
    LET n == Len(history)
        own == IF shell = "fish" THEN n > 0 /\ history[n] = Itself ELSE ~key
        at == IF own THEN n - 1 ELSE n
    IN IF at < 1 THEN <<>> ELSE history[at]

\* snp_new_previous, called by a key or typed: `fc` ends what it prints with a
\* newline.  There is nothing to store without an event, or when `fc` or
\* mktemp fails.
PreviousNew(key) ==
    LET t == EventBefore(key)
    IN /\ \/ result' = "failed" /\ UNCHANGED library
          \/ t # <<>> /\ New(IF shell = "fish" THEN t ELSE t \o <<"\n">>)
       /\ widget' = [Resting EXCEPT !.old = edit, !.of = IF key THEN "key" ELSE "typed"]
NewPrevious ==
    /\ widget.at = "idle" /\ uses < MaxUses /\ uses' = uses + 1
    /\ PreviousNew(TRUE)
    /\ UNCHANGED <<shell, edit, history, chosen>>
TypePrevious ==
    /\ widget.at = "idle" /\ uses < MaxUses /\ uses' = uses + 1
    /\ history' = Append(history, Itself)
    /\ widget' = [Resting EXCEPT !.at = "new", !.of = "typed"]
    /\ edit' = [text |-> <<>>, cursor |-> 0] /\ result' = "none"
    /\ UNCHANGED <<shell, chosen, library>>
PreviousTyped == /\ widget.at = "new" /\ PreviousNew(FALSE)
                 /\ UNCHANGED <<shell, edit, history, chosen, uses>>

Next == \/ Accept \/ Select \/ Snp_select \/ Clean \/ SelectReturns
        \/ NewCurrent \/ NewPrevious \/ TypePrevious \/ PreviousTyped
WidgetSpec == Init /\ [][Next]_widgetVars
---------------------------------------------------------------------------
(* Properties *)

\* shell_cmd.rs: after a function the line is what was selected, with the
\* cursor at its end, if the selection succeeded, and what it was before in
\* every other case; fish gives back only the text of a line that is one.
LineKept ==
    widget.at = "idle" /\ widget.of # "none" =>
        IF result = "inserted" /\ widget.rc = 0
        THEN edit = [text |-> chosen, cursor |-> Len(chosen)]
        ELSE \/ edit = widget.old
             \/ /\ shell = "fish" /\ widget.of = "choice"
                /\ edit.text = Joined(widget.old.text)

\* shell_cmd.rs, new_cmd.rs: what a function adds to the library is the line,
\* or the newest event before the call; but for fish, which passes over one
\* call of the function.  Nothing is changed but that `fc` ends a line.
CapturedWhole ==
    result = "added" =>
        LET before == IF widget.of = "typed" THEN Front(history) ELSE history
            event == IF shell = "fish" /\ widget.of = "key" /\ Last(before) = Itself
                     THEN Last(Front(before)) ELSE Last(before)
        IN IF widget.of = "line" THEN Last(library) = edit.text
           ELSE Last(library) = event \o (IF shell = "fish" THEN <<>> ELSE <<"\n">>)

\* What the user gets when nothing fails.
ShellFaithful == LineKept /\ CapturedWhole

\* USER_GUIDE.md: "on cancellation (exit code 4) the original buffer is
\* restored exactly".  Refuted: fish joins the lines and moves the cursor.
RestoredExactly ==
    widget.at = "idle" /\ widget.of = "choice" /\ result = "kept" => edit = widget.old
=============================================================================
