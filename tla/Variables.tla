----------------------------- MODULE Variables -----------------------------
(***************************************************************************)
(* Variables of a command, <name>, <name=default> and <name=choices>: the  *)
(* readers of src/src/utils/variables.rs, the prompt of                    *)
(* src/src/ui/variables.rs and `snp get --expanded` of                     *)
(* src/src/commands/get_cmd.rs, which reads commands with code of its own. *)
(* A command is a sequence of characters; "?" stands for a well-formed     *)
(* list of choices.  Blanks, which both sides trim, are left out.          *)
(***************************************************************************)
EXTENDS Integers, SequencesExt, FiniteSetsExt

CONSTANTS Command,   \* the commands of the snippets
          Letter,    \* what is typed
          Option,    \* the choices "?" stands for, in their order
          MaxKeys    \* bound: keys pressed in the prompt

VARIABLES command,   \* the snippet's
          prompt,    \* the dialog
          edited,    \* history: the fields the user has typed into
          ran        \* the command handed to the shell

vars == <<command, prompt, edited, ran>>

Bs == "\\"
Special == {Bs, "<", ">"}
Before(s, c) == SelectInSeq(s, LAMBDA d : d = c)
---------------------------------------------------------------------------
(* The readers of utils/variables.rs *)

\* strip_escape_sequences
Strip(s) ==
    LET Next1(st, c) ==
          IF st.esc THEN [out |-> st.out \o (IF c \in Special THEN <<c>> ELSE <<Bs, c>>),
                          esc |-> FALSE]
          ELSE IF c = Bs THEN [st EXCEPT !.esc = TRUE]
          ELSE [st EXCEPT !.out = Append(@, c)]
        end == FoldLeft(Next1, [out |-> <<>>, esc |-> FALSE], s)
    IN end.out \o (IF end.esc THEN <<Bs>> ELSE <<>>)

\* Mutant of InBody: an escaped bracket still counts.
InBodyUnescaped(st, c) ==
    CASE c = "<" -> [st EXCEPT !.depth = @ + 1, !.body = Append(@, c)]
      [] c = ">" /\ st.depth = 1 -> [st EXCEPT !.depth = 0, !.body = <<>>, !.esc = FALSE,
                                               !.out = Append(@, [kind |-> "token", text |-> st.body])]
      [] c = ">" /\ st.depth > 1 -> [st EXCEPT !.depth = @ - 1, !.body = Append(@, c)]
      [] OTHER -> [st EXCEPT !.body = Append(@, c)]
\* Between "<" and the ">" that closes it.
InBody(st, c) ==
    CASE st.esc -> [st EXCEPT !.esc = FALSE,
                              !.body = @ \o (IF c \in Special THEN <<c>> ELSE <<Bs, c>>)]
      [] ~st.esc /\ c = Bs -> [st EXCEPT !.esc = TRUE]
      [] ~st.esc /\ c = "<" -> [st EXCEPT !.depth = @ + 1, !.body = Append(@, c)]
      [] ~st.esc /\ c = ">" /\ st.depth = 1 ->
            [st EXCEPT !.depth = 0, !.body = <<>>,
                       !.out = Append(@, [kind |-> "token", text |-> st.body])]
      [] ~st.esc /\ c = ">" /\ st.depth > 1 -> [st EXCEPT !.depth = @ - 1, !.body = Append(@, c)]
      [] OTHER -> [st EXCEPT !.body = Append(@, c)]

\* Between tokens; the backslash before another character than "<" or another
\* backslash is dropped.
Outside(st, c) ==
    IF c = Bs /\ ~st.esc THEN [st EXCEPT !.esc = TRUE]
    ELSE IF c = "<" /\ ~st.esc THEN [st EXCEPT !.depth = 1]
    ELSE [st EXCEPT !.esc = FALSE, !.out = Append(@, [kind |-> "literal", text |-> <<c>>])]

\* A command as literals and tokens; the last may be a token that is not closed.
Scan(s) ==
    LET end == FoldLeft(LAMBDA st, c : IF st.depth = 0 THEN Outside(st, c) ELSE InBody(st, c),
                        [out |-> <<>>, body |-> <<>>, depth |-> 0, esc |-> FALSE], s)
        rest == IF end.esc THEN <<Bs>> ELSE <<>>
    IN IF end.depth > 0 THEN Append(end.out, [kind |-> "open", text |-> end.body \o rest])
       ELSE IF end.esc THEN Append(end.out, [kind |-> "literal", text |-> rest]) ELSE end.out

\* The name and the kind of a token's text.
Variable(text) ==
    LET at == Before(text, "=")
        default == IF at = 0 THEN <<>> ELSE SubSeq(text, at + 1, Len(text))
    IN [name |-> IF at = 0 THEN text ELSE SubSeq(text, 1, at - 1), content |-> text,
        kind |-> IF default = <<>> THEN "required" ELSE IF default = <<"?">> THEN "choices"
                 ELSE "default",
        default |-> IF default = <<"?">> THEN Option[1] ELSE default]

\* extract_variable_tokens; a token without a name is none.
Tokens(s) == LET closed == SelectSeq(Scan(s), LAMBDA g : g.kind = "token")
                 found == [i \in DOMAIN closed |-> Variable(closed[i].text)]
             IN SelectSeq(found, LAMBDA v : v.name # <<>>)

\* has_unmatched_angle_bracket, with a loop of its own: a backslash outside a
\* token takes the next character with it.
Unmatched(s) ==
    LET Next1(st, c) ==
          CASE st.esc -> [st EXCEPT !.esc = FALSE]
            [] ~st.esc /\ c = Bs -> [st EXCEPT !.esc = TRUE]
            [] ~st.esc /\ c = "<" -> [st EXCEPT !.depth = @ + 1]
            [] ~st.esc /\ c = ">" /\ st.depth > 0 -> [st EXCEPT !.depth = @ - 1]
            [] OTHER -> st
    IN FoldLeft(Next1, [depth |-> 0, esc |-> FALSE], s).depth > 0

\* expand_command: each token takes the next value of its name; a token that
\* the two scanners do not agree on stays as it is.
Expand(s, tokens, values) ==
    LET Named(name) == SelectSeq(values, LAMBDA v : v.name = name)
        Filled(st, g) ==
          LET here == {i \in st.next..Len(tokens) : tokens[i].content = g.text}
              i == Min(here)
              used == Cardinality({j \in 1..(i - 1) : tokens[j].name = tokens[i].name}) + 1
              mine == Named(tokens[i].name)
          IN CASE g.kind = "literal" -> [st EXCEPT !.out = @ \o g.text]
               [] g.kind # "literal" /\ here = {} ->
                    [st EXCEPT !.out = @ \o <<"<">> \o g.text
                                         \o (IF g.kind = "token" THEN <<">">> ELSE <<>>)]
               [] OTHER ->
                    [next |-> i + 1,
                     out |-> st.out \o (IF used <= Len(mine) THEN mine[used].value
                                        ELSE IF tokens[i].kind = "required" THEN tokens[i].name
                                        ELSE tokens[i].default)]
    IN FoldLeft(Filled, [next |-> 1, out |-> <<>>], Scan(s)).out
---------------------------------------------------------------------------
(* snp get *)

\* find_variable_token_end: 0 when nothing closes the token.
TokenEnd(s, start) ==
    LET end[i \in 1..(Len(s) + 2), depth \in 1..(Len(s) + 1)] ==
          IF i > Len(s) THEN 0
          ELSE CASE s[i] = Bs -> end[i + 2, depth]
                 [] s[i] = "<" -> end[i + 1, depth + 1]
                 [] s[i] = ">" -> IF depth = 1 THEN i ELSE end[i + 1, depth - 1]
                 [] OTHER -> end[i + 1, depth]
    IN end[start + 1, 1]

\* resolve_token_replacement and what it leaves of the variables; a required
\* one without an assignment stays in the text.
Replacement(found, from, name, assigned) ==
    LET here == {i \in from..Len(found) : found[i].name = name}
        v == found[Min(here)]
        known == {a \in assigned : a.name = name}
    IN IF here = {} THEN [next |-> from, text |-> {}]
       ELSE [next |-> Min(here) + 1,
             text |-> IF known # {} THEN {a.value : a \in known}
                      ELSE IF v.kind = "required" THEN {} ELSE {v.default}]

\* expand_without_prompt
GetExpanded(s, found, assigned) ==
    LET rest[i \in 1..(Len(s) + 2), k \in 1..(Len(found) + 1)] ==
          IF i > Len(s) THEN <<>>
          ELSE IF s[i] = Bs THEN SubSeq(s, i, Min({i + 1, Len(s)})) \o rest[i + 2, k]
          ELSE IF s[i] # "<" \/ TokenEnd(s, i) = 0 THEN <<s[i]>> \o rest[i + 1, k]
          ELSE LET end == TokenEnd(s, i)
                   body == Strip(SubSeq(s, i + 1, end - 1))
                   r == Replacement(found, k, Variable(body).name, assigned)
               IN (IF r.text = {} THEN SubSeq(s, i, end) ELSE CHOOSE t \in r.text : TRUE)
                    \o rest[end + 1, r.next]
    IN IF found = <<>> THEN Strip(s) ELSE Strip(rest[1, 1])

\* output_match, of the command
Printed(mode, s, found, assigned) == CASE mode = "raw" -> s
                                       [] mode = "expanded" -> GetExpanded(s, found, assigned)
                                       [] OTHER -> Strip(s)

\* VariableAssignments::from_pairs: none when two pairs of a name differ.
Assignments(pairs) == IF \E p, q \in pairs : p.name = q.name /\ p.value # q.value THEN {} ELSE pairs
---------------------------------------------------------------------------
(* The prompt *)

\* One field for each name, in the order of their first tokens.
Names(found) == FoldLeft(LAMBDA ns, v : IF v.name \in Range(ns) THEN ns ELSE Append(ns, v.name),
                         <<>>, found)
FirstOf(found, name) == found[Min({i \in DOMAIN found : found[i].name = name})]
Field(v) == [name |-> v.name, kind |-> IF v.kind = "choices" THEN "choice" ELSE "text",
             value |-> IF v.kind = "choices" THEN <<>> ELSE v.default,
             cursor |-> IF v.kind = "choices" THEN 0 ELSE Len(v.default),
             option |-> 1, default |-> v.default]

\* expand_snippet_command: a command without variables needs no prompt.
Init == /\ command \in Command /\ edited = {}
        /\ \E found \in {Tokens(command)} :
             /\ prompt = [at |-> IF found = <<>> THEN "done" ELSE "open", found |-> found,
                          fields |-> [i \in DOMAIN Names(found) |->
                                        Field(FirstOf(found, Names(found)[i]))],
                          selected |-> 1, insert |-> TRUE, keys |-> 0, values |-> <<>>]
             /\ ran = IF found = <<>> THEN Strip(command) ELSE <<>>

Current == prompt.fields[prompt.selected]
Pressed == /\ prompt.at = "open" /\ prompt.keys < MaxKeys
           /\ UNCHANGED <<command, ran>>
Sets(p) == prompt' = [p EXCEPT !.keys = @ + 1]
SetsField(f) == Sets([prompt EXCEPT !.fields[prompt.selected] = f])

\* i, Esc, a, A, I
SwitchMode == /\ Pressed /\ UNCHANGED edited
              /\ \E at \in IF prompt.insert THEN {Current.cursor}
                           ELSE {Current.cursor, 0, Len(Current.value)}
                                  \cup ({Current.cursor + 1} \cap 0..Len(Current.value)) :
                   Sets([prompt EXCEPT !.insert = ~@, !.fields[prompt.selected].cursor = at])

\* Left, Right, h, l, 0, $
MoveCursor == /\ Pressed /\ UNCHANGED edited /\ Current.kind = "text"
              /\ \E at \in {Current.cursor - 1, Current.cursor + 1}
                             \cup (IF prompt.insert THEN {} ELSE {0, Len(Current.value)}) :
                   /\ at \in 0..Len(Current.value)
                   /\ SetsField([Current EXCEPT !.cursor = at])

\* Backspace in both modes, x in normal mode.
Erase == /\ Pressed /\ Current.kind = "text"
         /\ \/ /\ Current.cursor > 0
               /\ SetsField([Current EXCEPT !.value = RemoveAt(@, Current.cursor), !.cursor = @ - 1])
            \/ /\ ~prompt.insert /\ Current.cursor < Len(Current.value)
               /\ SetsField([Current EXCEPT !.value = RemoveAt(@, Current.cursor + 1)])
         /\ edited' = edited \cup {prompt.selected}

\* A letter in insert mode: the first over the default replaces it.  What makes
\* it the first is that the text still is the default.
Type == /\ Pressed /\ prompt.insert /\ Current.kind = "text"
        /\ \E c \in Letter :
             LET clears == /\ Current.cursor = Len(Current.value) /\ Current.default # <<>>
                           /\ Current.value = Current.default
                 f == IF clears THEN [Current EXCEPT !.value = <<>>, !.cursor = 0] ELSE Current
             IN SetsField([f EXCEPT !.value = InsertAt(@, f.cursor + 1, c), !.cursor = @ + 1])
        /\ edited' = edited \cup {prompt.selected}

\* Up, Down, j, k: within a choice, else to another field; Tab, Ctrl-D, Ctrl-U.
MoveField == /\ Pressed /\ UNCHANGED edited
             /\ \E i \in DOMAIN prompt.fields :
                  /\ i - prompt.selected \in {-1, 1} \/ (prompt.selected = Len(prompt.fields) /\ i = 1)
                  /\ Sets([prompt EXCEPT !.selected = i])
Choose1 == /\ Pressed /\ UNCHANGED edited /\ Current.kind = "choice"
           /\ \E o \in {Current.option - 1, Current.option + 1} \cap DOMAIN Option :
                SetsField([Current EXCEPT !.option = o])

\* Mutant of Values: one value for a name, as there is one field for it.
ValuesOfNames(p) ==
    [i \in DOMAIN p.fields |->
       LET f == p.fields[i]
       IN [name |-> f.name, value |-> IF f.kind = "choice" THEN Option[f.option]
                                      ELSE IF f.value = <<>> THEN f.default ELSE f.value]]
\* A value for each token; an empty field stands for the default.
Values(p) ==
    LET Of(name) == CHOOSE f \in Range(p.fields) : f.name = name
    IN [i \in DOMAIN p.found |->
          LET f == Of(p.found[i].name)
          IN [name |-> f.name, value |-> IF f.kind = "choice" THEN Option[f.option]
                                         ELSE IF f.value = <<>> THEN f.default ELSE f.value]]

Enter == /\ prompt.at = "open"
         /\ prompt' = [prompt EXCEPT !.at = "done", !.values = Values(prompt)]
         /\ ran' = Expand(command, prompt.found, prompt'.values) /\ UNCHANGED <<command, edited>>

\* q in normal mode; Ctrl-C or a signal.
Back == prompt.at = "open" /\ ~prompt.insert
        /\ prompt' = [prompt EXCEPT !.at = "back"] /\ UNCHANGED <<command, edited, ran>>
Cancel == prompt.at = "open"
          /\ prompt' = [prompt EXCEPT !.at = "cancelled"] /\ UNCHANGED <<command, edited, ran>>

Next == \/ SwitchMode \/ MoveCursor \/ Erase \/ Type \/ MoveField \/ Choose1
        \/ Enter \/ Back \/ Cancel
Spec == Init /\ [][Next]_vars
---------------------------------------------------------------------------
TypeOK == /\ command \in Command /\ prompt.at \in {"open", "done", "back", "cancelled"}
          /\ prompt.keys \in 0..MaxKeys
          /\ \A i \in DOMAIN prompt.fields : prompt.fields[i].cursor \in 0..Len(prompt.fields[i].value)

\* Outside tokens, escapes of "<", ">" and backslashes only: run drops the
\* backslash of any other, get keeps it.
KnownEscapes(s) ==
    ~FoldLeft(LAMBDA st, c : [esc |-> c = Bs /\ ~st.esc, depth |-> st.depth,
                              odd |-> st.odd \/ (st.esc /\ c \notin Special)],
              [esc |-> FALSE, depth |-> 0, odd |-> FALSE], s).odd

\* expand_command and expand_without_prompt: what the prompt's answers run is
\* what get prints for the same assignments, and the warning of an unmatched
\* bracket (has_unmatched_angle_bracket) names the commands whose tail is read
\* as text.  Where a value has a backslash get unescapes it.
ReadersAgree ==
    /\ Unmatched(command) <=> (Scan(command) # <<>> /\ Last(Scan(command)).kind = "open")
    /\ (/\ prompt.at = "done" /\ KnownEscapes(command)
        /\ \A i \in DOMAIN prompt.values : Bs \notin Range(prompt.values[i].value))
       => /\ ran = Printed("expanded", command, prompt.found,
                               Assignments(Range(prompt.values)))
          /\ prompt.fields = <<>> => ran = Printed("plain", command, <<>>, {})

\* get_cmd.rs: --expanded matches the interactive expansion, whatever a value is.
GetMatchesRun ==
    prompt.at = "done" /\ KnownEscapes(command)
      => ran = GetExpanded(command, prompt.found, Assignments(Range(prompt.values)))

\* ui/variables.rs: what is typed is inserted; only an untouched default gives way.
TypedIsInserted ==
    [][Type /\ prompt.selected \in edited
         => Len(prompt'.fields[prompt.selected].value) = Len(Current.value) + 1]_vars
=============================================================================
