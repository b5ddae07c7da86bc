----------------------------- MODULE LocalStore -----------------------------
(***************************************************************************)
(* The snippets of one installation on disk: the legacy file, the library  *)
(* it is migrated to, and the commands that read and rewrite them, several *)
(* at a time (src/src/library, src/src/commands, src/src/selector.rs).     *)
(* The local-data lock covers the load, change and save of a command, not  *)
(* what it looked at before, and not the user's editor.                    *)
(***************************************************************************)
EXTENDS Naturals, SequencesExt

CONSTANTS Shell,        \* terminals, each runs one command after the other
          Content,      \* contents: description, command, tags, output
          MaxCommands   \* bound: commands started

VARIABLES store,    \* the files
          locker,   \* the terminal with the local-data lock
          shell,    \* what each terminal's command knows
          owed,     \* history: the contents the user was told are stored
          started   \* commands so far

vars == <<store, locker, shell, owed, started>>

NoShell == "nobody"
Kinds == {"new", "delete", "annotate", "note", "editor", "merge", "create",
          "replace", "sync"}
Missing == <<>>
Record(id, text) == [id |-> id, text |-> text, deleted |-> FALSE]
Uuid(n) == <<"uuid", n>>
Legacy(text, k) == <<"legacy", text, k>>
Duplicate(id, text, k) == <<"duplicate", id, text, k>>

Idle == [at |-> "idle", nr |-> 0, kind |-> "new", index |-> FALSE, created |-> FALSE, id |-> Missing,
         row |-> 0, copy |-> <<>>]

TypeOK == /\ store.dir \in BOOLEAN /\ store.made \in BOOLEAN /\ store.index \in BOOLEAN
          /\ store.raced \in BOOLEAN /\ owed \subseteq Content /\ started \in 0..MaxCommands
          /\ locker \in Shell \cup {NoShell}
          /\ \A s \in Shell : /\ shell[s].kind \in Kinds
                              /\ shell[s].at \in {"idle", "migrate", "moving", "resolve", "load",
                                                  "save", "editing"}

Live(file) == SelectSeq(file, LAMBDA r : ~r.deleted)
Texts(file) == {r.text : r \in Range(Live(file))}
Ids(file) == {r.id : r \in Range(file)}
---------------------------------------------------------------------------
(* normalize_snippet_ids *)

\* The first occurrence of a derived id that is not taken.
FreeFrom(n, taken, derive) == CHOOSE k \in n..(n + Cardinality(taken)) :
                                /\ derive[k] \notin taken
                                /\ \A j \in n..(k - 1) : derive[j] \in taken

\* Mutant of Reserved: an id further down the file may be handed out above it.
ReservedNone(file) == {}
Reserved(file) == Ids(file) \ {Missing}

\* A record without an id gets one from its content, and so does the second
\* of an id; both count the occurrences of a content together.
Normalized(file) ==
    LET Named(st, r) ==
          LET n == st.next[r.text]
              Ids0 == [k \in n..(n + Len(file)) |->
                         IF r.id = Missing THEN Legacy(r.text, k) ELSE Duplicate(r.id, r.text, k)]
              k0 == FreeFrom(n, st.taken, Ids0)
          IN IF r.id # Missing /\ r.id \notin st.kept
             THEN [st EXCEPT !.kept = @ \cup {r.id}, !.file = Append(@, r)]
             ELSE [st EXCEPT !.taken = @ \cup {Ids0[k0]}, !.next[r.text] = k0 + 1,
                             !.file = Append(@, [r EXCEPT !.id = Ids0[k0]])]
    IN FoldLeft(Named, [file |-> <<>>, taken |-> Reserved(file), kept |-> {},
                        next |-> [t \in Content |-> 0]], file).file
---------------------------------------------------------------------------
(* Which file a command works on *)

\* readonly_library_sources: in single-file mode the legacy file; afterwards
\* the libraries of the index and nothing else.
Shown == IF ~store.dir THEN Normalized(store.legacy)
         ELSE IF store.index THEN Normalized(store.lib) ELSE <<>>

\* An installation from before libraries, a new one, or one with a library, its
\* records with identifiers of either kind.
Init == /\ \E legacy \in {<<>>} \cup {<<Record(Missing, t)>> : t \in Content},
              lib \in {<<>>} \cup {<<Record(Legacy(t, 0), t)>> : t \in Content}
                             \cup {<<Record(Uuid(0), t), Record(Legacy(t, 0), t)>> : t \in Content} :
             /\ lib = <<>> \/ legacy = <<>>
             /\ store = [dir |-> lib # <<>>, legacy |-> legacy, lib |-> lib, made |-> lib # <<>>,
                         index |-> lib # <<>>, raced |-> FALSE]
             /\ owed = Texts(legacy) \cup Texts(lib)
        /\ locker = NoShell /\ shell = [s \in Shell |-> Idle] /\ started = 0

Goes(s, st) == shell' = [shell EXCEPT ![s] = st]
Ends(s) == Goes(s, Idle)

\* LibraryManager::new and ensure_library_mode's look at the directory.
Begin(s) ==
    /\ shell[s].at = "idle" /\ started < MaxCommands /\ started' = started + 1
    /\ \E kind \in Kinds :
         Goes(s, [Idle EXCEPT !.kind = kind, !.nr = started', !.index = store.index,
                              !.at = IF store.dir THEN "resolve" ELSE "migrate"])
    /\ UNCHANGED <<store, locker, owed>>

\* migrate_from_single_file: an empty file stays where it is.
Migrate(s) ==
    /\ shell[s].at = "migrate" /\ locker = NoShell
    /\ IF store.legacy = <<>>
       THEN Goes(s, [shell[s] EXCEPT !.at = "resolve"]) /\ UNCHANGED <<store, locker>>
       ELSE /\ locker' = s /\ store' = [store EXCEPT !.dir = TRUE]
            /\ Goes(s, [shell[s] EXCEPT !.at = "moving", !.created = ~store.dir,
                                        !.copy = store.legacy])
    /\ UNCHANGED <<owed, started>>

\* register_migrated_library: the file, then the index.  A terminal that waited
\* for another's migration writes the legacy file over its library.
Move(s) ==
    /\ shell[s].at = "moving"
    /\ store' = [store EXCEPT !.lib = shell[s].copy, !.made = TRUE, !.index = TRUE,
                              !.raced = FALSE]
    /\ owed' = owed \cap Texts(shell[s].copy)
    /\ Goes(s, [shell[s] EXCEPT !.at = "resolve", !.index = TRUE, !.copy = <<>>])
    /\ locker' = NoShell /\ UNCHANGED started

\* The write fails: a directory made for it goes again.
MoveFails(s) ==
    /\ shell[s].at = "moving"
    /\ store' = IF shell[s].created
                THEN [store EXCEPT !.dir = FALSE, !.lib = <<>>, !.made = FALSE, !.raced = FALSE]
                ELSE [store EXCEPT !.raced = FALSE]
    /\ Ends(s) /\ locker' = NoShell /\ UNCHANGED <<owed, started>>

\* A command dies.  In the middle of a migration it may have written the
\* library, and leaves the directory: what is not in the index is not shown.
Crash(s) ==
    /\ shell[s].at \in {"moving", "save"}
    /\ \E wrote \in BOOLEAN :
         IF shell[s].at = "moving" /\ wrote
         THEN /\ store' = [store EXCEPT !.lib = shell[s].copy, !.made = TRUE, !.raced = FALSE]
              /\ owed' = IF store.index THEN owed \cap Texts(shell[s].copy) ELSE {}
         ELSE /\ store' = [store EXCEPT !.raced = FALSE]
              /\ owed' = IF shell[s].at = "moving" /\ ~store.index THEN {} ELSE owed
    /\ Ends(s) /\ locker' = NoShell /\ UNCHANGED started
---------------------------------------------------------------------------
(* Before the lock *)

\* The file of a command without --library: `new` and `edit` fall back to the
\* legacy file when the index they read had no library.
OnLibrary(s) == shell[s].index \/ shell[s].kind \in {"merge", "create", "replace"}
File(s) == IF OnLibrary(s) THEN store.lib ELSE store.legacy

Proceeds(s, st) == Goes(s, st) /\ UNCHANGED <<store, locker, owed, started>>
At(s, kinds) == shell[s].at = "resolve" /\ shell[s].kind \in kinds

\* What a command sees of the library when it looks for its target.
Candidates(s) == IF shell[s].index THEN Normalized(store.lib) ELSE <<>>
LiveRows(file) == {i \in DOMAIN file : ~file[i].deleted}
Targets(s, i) == [shell[s] EXCEPT !.at = "load", !.id = Candidates(s)[i].id, !.row = i]

\* SnippetSelector::resolve with the policy Unique: an id, or a content that
\* only one live record has.
Lookup(s) ==
    /\ At(s, {"delete", "annotate"})
    /\ \/ \E i \in LiveRows(Candidates(s)) : Proceeds(s, Targets(s, i))
       \/ \E t \in Content :
            LET found == {i \in LiveRows(Candidates(s)) : Candidates(s)[i].text = t}
            IN IF Cardinality(found) = 1
               THEN \E i \in found : Proceeds(s, Targets(s, i))
               ELSE Proceeds(s, Idle)

\* run_snippet_selection: the row under the cursor of a list drawn some time ago.
Pick(s) ==
    /\ At(s, {"delete"})
    /\ \E i \in LiveRows(Candidates(s)) : Proceeds(s, Targets(s, i))

\* edit_cmd.rs run: the editor opens the file; no lock is taken.
StartEditor(s) == /\ At(s, {"editor"})
                  /\ Proceeds(s, [shell[s] EXCEPT !.at = "editing", !.copy = File(s)])

\* run_import_pet, phase 5, looks at the destination; a new snippet, a note by
\* a filter, a merge and a sync look at nothing.
CheckDestination(s) ==
    /\ At(s, Kinds \ {"delete", "annotate", "editor"})
    /\ LET goes == CASE shell[s].kind = "create" -> ~store.made
                     [] shell[s].kind = "replace" -> store.made
                     [] shell[s].kind \in {"sync", "note"} -> shell[s].index
                     [] OTHER -> TRUE
       IN Proceeds(s, IF goes THEN [shell[s] EXCEPT !.at = "load"] ELSE Idle)

\* The editor saves the file it opened, with a record taken out, one written at
\* its head, or one copied there with its id and given another content.
Edit(s) ==
    /\ shell[s].at = "editing"
    /\ LET old == shell[s].copy
           ids == {Missing} \cup Ids(old)
       IN \E new \in {RemoveAt(old, i) : i \in DOMAIN old}
                     \cup {<<Record(id, t)>> \o old : id \in ids, t \in Content} :
            /\ store' = [store EXCEPT !.lib = IF OnLibrary(s) THEN new ELSE @,
                                      !.made = IF OnLibrary(s) THEN TRUE ELSE @,
                                      !.legacy = IF OnLibrary(s) THEN @ ELSE new,
                                      !.raced = locker # NoShell]
            /\ owed' = IF OnLibrary(s) = store.dir THEN Texts(new)
                       ELSE IF store.index THEN owed ELSE owed \cap Texts(new)
    /\ Ends(s) /\ UNCHANGED <<locker, started>>
---------------------------------------------------------------------------
(* Under the lock *)

\* Mutant of Load: only the write is serialised.
LoadUnlocked(s) == /\ shell[s].at = "load" /\ locker' = s
                   /\ Goes(s, [shell[s] EXCEPT !.at = "save", !.copy = Normalized(File(s))])
                   /\ UNCHANGED <<store, owed, started>>
\* update_library and update_snippets read the file again; save_library, for
\* an import, does not.
Load(s) ==
    /\ shell[s].at = "load" /\ locker = NoShell /\ locker' = s
    /\ Goes(s, [shell[s] EXCEPT !.at = "save",
                                !.copy = IF shell[s].kind \in {"create", "replace"} THEN <<>>
                                         ELSE IF OnLibrary(s) THEN Normalized(store.lib)
                                         ELSE store.legacy])
    /\ UNCHANGED <<store, owed, started>>

\* Mutant of TargetRow: by the place it was shown at.
TargetByRow(s) == {shell[s].row} \cap DOMAIN shell[s].copy
\* delete_snippet, run_edit_output_by_id: by its id, among what is not deleted.
TargetRow(s) == {i \in DOMAIN shell[s].copy : /\ shell[s].copy[i].id = shell[s].id
                                              /\ ~shell[s].copy[i].deleted}

\* What is written: a sequence, or nothing (the command fails, changing nothing);
\* and what the user is told: contents stored, contents deleted.
Added(s) ==
    {[file |-> <<Record(Uuid(shell[s].nr), t)>> \o shell[s].copy,
      plus |-> {t}, minus |-> {}] : t \in Content}

Changed(s, rows) ==
    {LET file == shell[s].copy
         row == IF shell[s].kind = "delete" THEN [file[i] EXCEPT !.deleted = TRUE] ELSE file[i]
     IN [file |-> <<row>> \o RemoveAt(file, i), plus |-> {},
         minus |-> IF shell[s].kind = "delete"
                   THEN {r.text : r \in {q \in Range(file) : q.id = shell[s].id}} ELSE {}]
        : i \in rows}

\* run_edit_output: a filter is looked for under the lock, and must be of one.
NoteRows(s) == {i \in LiveRows(shell[s].copy) :
                  \A j \in LiveRows(shell[s].copy) : shell[s].copy[j].text = shell[s].copy[i].text
                                                       => i = j}

\* run_import_pet: a merge skips an entry that is there, or was deleted there.
Imported(s) ==
    {LET file == shell[s].copy
     IN IF \E r \in Range(file) : r.text = t
        THEN [file |-> file, plus |-> {}, minus |-> {}]
        ELSE [file |-> Append(file, Record(Uuid(shell[s].nr), t)), plus |-> {t}, minus |-> {}]
       : t \in Content}
Replaced(s) ==
    {[file |-> <<Record(Uuid(shell[s].nr), t)>>, plus |-> {t}, minus |-> Content \ {t}] : t \in Content}

\* merge_snippets: the rows of the answer in their order, then what it does not
\* name.  A row may come twice, from two pages.
Merge(file, rows) ==
    LET Local(row) == {r \in Range(file) : r.id = row.id}
        Merged(row) == IF Local(row) = {} THEN (IF row.deleted THEN <<>> ELSE <<row>>)
                       ELSE LET r == CHOOSE r \in Local(row) : TRUE
                            IN IF row.deleted \/ r.deleted THEN <<[r EXCEPT !.deleted = TRUE]>>
                               ELSE <<row>>
    IN FlattenSeq([i \in DOMAIN rows |-> Merged(rows[i])])
       \o SelectSeq(file, LAMBDA r : \A i \in DOMAIN rows : rows[i].id # r.id)

Synced(s) ==
    LET file == shell[s].copy
        rows == {Record(id, t) : id \in Ids(file) \cup {Uuid(shell[s].nr)}, t \in Content}
                  \cup {[r EXCEPT !.deleted = TRUE] : r \in Range(file)}
    IN {[file |-> Merge(file, answer),
         plus |-> Texts(answer) \cap Texts(Merge(file, answer)),
         minus |-> {r.text : r \in {q \in Range(file) : q.id = answer[1].id}}]
           : answer \in UNION {{<<row>>, <<row, row>>} : row \in rows}}

Outcomes(s) == CASE shell[s].kind = "new" -> Added(s)
                 [] shell[s].kind \in {"delete", "annotate"} -> Changed(s, TargetRow(s))
                 [] shell[s].kind = "note" -> Changed(s, NoteRows(s))
                 [] shell[s].kind = "merge" -> Imported(s)
                 [] shell[s].kind \in {"create", "replace"} -> Replaced(s)
                 [] shell[s].kind = "sync" -> Synced(s)

\* The write.  An import registers the library afterwards.  Not owed are what
\* the command removes, what an editor wrote under the lock, and what stands in
\* a file no command shows.
Save(s) ==
    /\ shell[s].at = "save"
    /\ \E o \in Outcomes(s) :
         LET shown == OnLibrary(s) \/ ~store.dir
         IN /\ store' = [store EXCEPT
                   !.lib = IF OnLibrary(s) THEN o.file ELSE @,
                   !.legacy = IF OnLibrary(s) THEN @ ELSE o.file,
                   !.dir = @ \/ OnLibrary(s), !.made = @ \/ OnLibrary(s),
                   !.index = @ \/ OnLibrary(s), !.raced = FALSE]
            /\ owed' = IF ~shown THEN owed
                       ELSE LET kept == (owed \ o.minus) \cup o.plus
                            IN IF store.raced \/ (OnLibrary(s) /\ ~store.dir)
                               THEN kept \cap Texts(o.file) ELSE kept
    /\ Ends(s) /\ locker' = NoShell /\ UNCHANGED started

\* The target is gone: the mutation fails before the save.
Refuse(s) == /\ shell[s].at = "save" /\ Outcomes(s) = {}
             /\ Ends(s) /\ locker' = NoShell
             /\ store' = [store EXCEPT !.raced = FALSE] /\ UNCHANGED <<owed, started>>

Next == \E s \in Shell : \/ Begin(s) \/ Migrate(s) \/ Move(s) \/ MoveFails(s) \/ Crash(s)
                         \/ Lookup(s) \/ Pick(s) \/ StartEditor(s) \/ CheckDestination(s)
                         \/ Edit(s) \/ Load(s) \/ Save(s) \/ Refuse(s)
Spec == Init /\ [][Next]_vars
---------------------------------------------------------------------------
\* Whatever the terminals do at once, what the user was told is stored is shown,
\* live, and every record shown has an id of its own (update_library,
\* normalize_snippet_ids, delete_snippet, merge_snippets).  Nothing is shown in
\* the middle of a migration; the exceptions are those that owed names.
SnippetsKept ==
    (\A s \in Shell : shell[s].at # "moving") =>
        /\ owed \subseteq Texts(Shown)
        /\ \A i, j \in DOMAIN Shown : Shown[i].id = Shown[j].id => i = j

\* register_migrated_library: a migration takes nothing away from the library
\* that another command already uses.
MigrationLosesNothing ==
    [][\A s \in Shell : shell[s].at = "moving" /\ shell'[s].at = "resolve"
                          => Texts(Shown) \subseteq Texts(Shown')]_vars
=============================================================================
