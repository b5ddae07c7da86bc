------------------------------ MODULE Backups ------------------------------
(***************************************************************************)
(* Backups of the local data and what a restore makes of them              *)
(* (backup_cmd.rs, backup_archive.rs, restore_cmd.rs), between the         *)
(* commands that change the data and the repair that prunes the usage      *)
(* index.  Each command holds the local data lock for its changes; how a   *)
(* restore survives its own failure is Transaction.  A backup lies on a    *)
(* disk where others may change it, and may come from elsewhere.           *)
(***************************************************************************)
EXTENDS Naturals, SequencesExt, FiniteSetsExt, Functions

CONSTANTS LibraryName,  \* names of libraries
          SnippetId,    \* ids of snippets
          Lower,        \* [names -> their lower case]
          DeviceNames,  \* names of Windows devices
          Elsewhere,    \* archives made by other programs
          MaxStamp, MaxDamage  \* bounds

\* What is listed in an archive is a file of a known kind, whose content is one
\* of its kind; anything else does not parse as a manifest.
Kinds == {"index", "usage", "sync"}
Versions == [ok : BOOLEAN, at : [SnippetId -> Nat]]
Listing(e) == e.kind \in Kinds \cup {"library"} /\ (e.kind = "library" => e.body \in Versions)
ASSUME BackupsAssumption ==
    /\ MaxStamp \in Nat
    /\ \A a \in Elsewhere : /\ DOMAIN a = {"own", "manifest", "files"}
                            /\ IsFiniteSet(DOMAIN a.manifest)
                            /\ \A i \in DOMAIN a.manifest : Listing(a.manifest[i])

VARIABLES disk,      \* the files of the configuration directory: place -> content
          archive,   \* a backup
          restore,   \* the run of `snp restore`
          copied,    \* the copy it made of what it replaces
          time, damages

backupVars == <<disk, archive, restore, copied, time, damages>>

\* A place is a directory and a name: a library's file, one whose name begins
\* with "libraries\", or one of three files at the top.
Lib(l) == <<"libraries/", l>>
Top(kind) == <<"", kind>>
Names(files) == {p[2] : p \in {q \in DOMAIN files : q[1] = "libraries/"}}
\* A library is well-formed or not, and has versions of snippets; 0: none.
Empty == [ok |-> TRUE, at |-> [i \in SnippetId |-> 0]]
WithFile(files, place, body) ==
    [p \in DOMAIN files \cup {place} |-> IF p = place THEN body ELSE files[p]]
WithoutFile(files, place) == Restrict(files, DOMAIN files \ {place})
Listed(files) == IF Top("index") \in DOMAIN files THEN files[Top("index")].listed ELSE {}
Index(files, listed, primary) ==
    WithFile(files, Top("index"), [listed |-> listed, primary |-> primary])
Primary(files) == IF Top("index") \in DOMAIN files THEN files[Top("index")].primary ELSE {}

NoArchive == [own |-> FALSE, manifest |-> <<>>, files |-> <<>>]
Idle == [at |-> "idle", mode |-> "merge", manifest |-> <<>>]

\* A directory as it is after the first snippet.
BackupsInit ==
    /\ \E l \in LibraryName :
         disk = Index(WithFile(<<>>, Lib(l), [ok |-> TRUE, at |-> [i \in SnippetId |-> 1]]),
                      {l}, {l})
    /\ archive = NoArchive /\ restore = Idle /\ copied = <<>> /\ time = 1 /\ damages = 0

BackupsTypeOK ==
    /\ restore.at \in {"idle", "checked", "done"} /\ time \in 0..MaxStamp
    /\ \A l \in Names(disk) : disk[Lib(l)].at \in [SnippetId -> 0..MaxStamp]
    /\ Listed(disk) \subseteq DOMAIN Lower /\ damages \in 0..MaxDamage
---------------------------------------------------------------------------
(* The commands that change the data *)

\* Every command has a time of its own.
Later == time < MaxStamp /\ time' = time + 1
Changes(files) == disk' = files /\ UNCHANGED <<archive, restore, copied, damages>>

Edit(l, i) == /\ Later /\ l \in Names(disk) /\ disk[Lib(l)].ok
              /\ Changes([disk EXCEPT ![Lib(l)].at[i] = time'])

\* create_library: the file, then the index; the process may die between.
CreateLibrary(l) ==
    /\ Later /\ Lib(l) \notin DOMAIN disk /\ \A k \in Listed(disk) : Lower[k] # Lower[l]
    /\ LET file == WithFile(disk, Lib(l), Empty)
           both == Index(file, Listed(disk) \cup {l},
                         IF Listed(disk) = {} THEN {l} ELSE Primary(disk))
       IN Changes(file) \/ Changes(both)

\* delete_library: the index, then the file.
DeleteLibrary(l) ==
    /\ Later /\ l \in Listed(disk)
    /\ \E p \in SUBSET (Listed(disk) \ {l}) :
         /\ IF l \in Primary(disk) THEN Cardinality(p) = Cardinality({x \in {l} : Listed(disk) # {l}})
            ELSE p = Primary(disk)
         /\ LET index == Index(disk, Listed(disk) \ {l}, p)
            IN Changes(index) \/ Changes(WithoutFile(index, Lib(l)))

\* A run is recorded; a registration stores its key.
Use(i) == /\ Later /\ \E l \in Names(disk) : disk[Lib(l)].at[i] > 0
          /\ Changes(WithFile(disk, Top("usage"),
                          IF Top("usage") \in DOMAIN disk THEN disk[Top("usage")] \cup {i} ELSE {i}))
Register == Later /\ Changes(WithFile(disk, Top("sync"), "key"))

\* A library is edited by hand.
HandEdit(l) == /\ Later /\ l \in Names(disk)
               /\ Changes([disk EXCEPT ![Lib(l)].ok = ~@])

\* collect_active_snippet_ids: a library that cannot be loaded has none.
Active == {i \in SnippetId : \E l \in Names(disk) : disk[Lib(l)].ok /\ disk[Lib(l)].at[i] > 0}
\* PruneOrphanedUsage, the one repair of the data that is safe to apply.
Prune == /\ Later /\ Top("usage") \in DOMAIN disk
         /\ Changes([disk EXCEPT ![Top("usage")] = @ \cap Active])
---------------------------------------------------------------------------
(* Backups *)

\* The redacted settings; any other file as it is.
Captured(p) == IF p = Top("sync") THEN "redacted" ELSE disk[p]
KindOf(p) == IF p[1] = "" THEN p[2] ELSE "library"
Entry(p) == [dir |-> p[1], stem |-> p[2], toml |-> TRUE, kind |-> KindOf(p), body |-> Captured(p)]

\* Every library file, listed or not; a library that is no TOML fails it.
Backup ==
    /\ Later /\ \A l \in Names(disk) : disk[Lib(l)].ok
    /\ \E kinds \in SUBSET {"usage", "sync"} :
         LET places == {p \in DOMAIN disk : KindOf(p) \in {"library", "index"} \cup kinds}
         IN archive' = [own |-> TRUE, manifest |-> SetToSeq({Entry(p) : p \in places}),
                        files |-> [p \in places |-> [link |-> FALSE, body |-> Captured(p)]]]
    /\ UNCHANGED <<disk, restore, copied, damages>>

Obtain == /\ Later /\ archive' \in Elsewhere
          /\ UNCHANGED <<disk, restore, copied, damages>>

\* A file of the backup is lost, replaced by a link, or exchanged for another
\* of its kind.
Damage ==
    /\ damages < MaxDamage /\ damages' = damages + 1
    /\ \E p \in DOMAIN archive.files :
         \/ archive' = [archive EXCEPT !.files = WithoutFile(@, p)]
         \/ archive' = [archive EXCEPT !.files[p].link = TRUE]
         \/ /\ KindOf(p) = "library"
            /\ \E t \in {0, MaxStamp} :
                  archive' = [archive EXCEPT !.files[p].body.at = [i \in SnippetId |-> t]]
    /\ UNCHANGED <<disk, restore, copied, time>>
---------------------------------------------------------------------------
(* What a restore accepts *)

\* validate_backup_path, on Unix: a backslash separates nothing there.
ValidPath(e) ==
    /\ e.dir \in {"", "libraries/", "libraries\\"}
    /\ e.dir # "libraries\\" => e.stem \notin DeviceNames
    /\ IF e.kind = "library" THEN e.toml ELSE e.dir = "" /\ e.stem = e.kind

\* resolve_backup_path, and the path under the configuration directory.
PlaceOf(e) == IF e.kind # "library" THEN Top(e.kind)
              ELSE IF e.dir = "libraries\\" THEN <<e.dir, e.stem>> ELSE Lib(e.stem)

\* Mutant of CollisionKey: names as they are.
CollisionKeyExact(e) == IF e.kind = "library" THEN Lib(e.stem) ELSE Top(e.kind)
\* portable_destination_key: separators and case do not tell two files apart.
CollisionKey(e) == IF e.kind = "library" THEN Lib(Lower[e.stem]) ELSE Top(e.kind)

Entries(m) == {m[i] : i \in DOMAIN m}

\* validate_manifest_contract: known kinds, at most one of each but libraries.
Contract(m) ==
    /\ \A i \in DOMAIN m : ValidPath(m[i])
    /\ \A i, j \in DOMAIN m : i # j => CollisionKey(m[i]) # CollisionKey(m[j])

\* The artifacts: regular files, of the declared size and hash.  A library that
\* cannot be parsed is refused.
Described(m) ==
    \A e \in Entries(m) : /\ PlaceOf(e) \in DOMAIN archive.files
                          /\ archive.files[PlaceOf(e)] = [link |-> FALSE, body |-> e.body]
                          /\ e.kind = "library" => e.body.ok

\* file_stem
Stems(m) == {e.stem : e \in {f \in Entries(m) : f.kind = "library" /\ f.dir # "libraries\\"}}

\* validate_manifest_semantics, of the index as it is read once more.
Consistent(m, mode) ==
    LET index == IF Top("index") \in DOMAIN archive.files THEN archive.files[Top("index")].body
                 ELSE [listed |-> {}, primary |-> {}]
    IN (\E e \in Entries(m) : e.kind = "index") =>
         /\ \A k, l \in index.listed : Lower[k] = Lower[l] => k = l
         /\ Cardinality(index.primary) <= 1
         /\ index.listed \subseteq Stems(m)
         /\ mode = "replace" =>
              \A e \in Entries(m) : e.kind = "library" => PlaceOf(e)[2] \in index.listed

Accepts(mode) == /\ archive # NoArchive /\ Contract(archive.manifest)
                 /\ Described(archive.manifest) /\ Consistent(archive.manifest, mode)

\* A dry run ends after the checks.
Check == /\ restore.at # "checked"
         /\ \E mode \in {"dry-run", "merge", "replace"} :
              restore' = IF ~Accepts(mode) \/ mode = "dry-run" THEN Idle
                         ELSE [at |-> "checked", mode |-> mode, manifest |-> archive.manifest]
         /\ UNCHANGED <<disk, archive, copied, time, damages>>
---------------------------------------------------------------------------
(* What it does *)

\* compute_library_intended_bytes: the newer version of each snippet.
Merged(old, new) ==
    [ok |-> TRUE, at |-> [i \in SnippetId |-> IF new.at[i] > old.at[i] THEN new.at[i]
                                             ELSE old.at[i]]]

\* What exists stays, libraries are merged; a replacement takes the backup's.
Intended(e, body) ==
    IF restore.mode = "replace" \/ PlaceOf(e) \notin DOMAIN disk THEN body
    ELSE IF e.kind = "library" THEN Merged(disk[PlaceOf(e)], body) ELSE disk[PlaceOf(e)]

\* An index, usage or settings file that exists is not read by a merge.
Reads(e) == e.kind = "library" \/ restore.mode = "replace" \/ PlaceOf(e) \notin DOMAIN disk

\* Mutant of Verified: read without a look at the hash.
VerifiedAtTheGate(e) == PlaceOf(e) \in DOMAIN archive.files
\* read_verified_backup_bytes: the hash of the bytes that are staged.
Verified(e) == PlaceOf(e) \in DOMAIN archive.files /\ archive.files[PlaceOf(e)].body = e.body

\* A library that exists and cannot be parsed fails a merge.
Stageable(e) ==
    /\ Reads(e) => Verified(e)
    /\ e.kind = "library" /\ restore.mode = "merge" /\ PlaceOf(e) \in DOMAIN disk => disk[PlaceOf(e)].ok

\* create_pre_restore_backup: everything a replacement can overwrite.
PreRestore == Restrict(disk, {p \in DOMAIN disk : KindOf(p) \in {"library"} \cup Kinds})

\* Every place that has an entry gets what is intended for it.
EntryAt(es, p) == CHOOSE e \in es : PlaceOf(e) = p
Bytes(e) == IF Reads(e) THEN archive.files[PlaceOf(e)].body ELSE e.body
Installed(es) ==
    LET places == {PlaceOf(e) : e \in es}
    IN [p \in DOMAIN disk \cup places |->
          IF p \in places THEN Intended(EntryAt(es, p), Bytes(EntryAt(es, p))) ELSE disk[p]]

\* Staged, then installed in one transaction under the local data lock.
Apply ==
    /\ restore.at = "checked"
    /\ IF \A e \in Entries(restore.manifest) : Stageable(e)
       THEN /\ disk' = Installed(Entries(restore.manifest))
            /\ restore' = [restore EXCEPT !.at = "done"]
            /\ copied' = IF restore.mode = "replace" THEN PreRestore ELSE copied
       ELSE restore' = Idle /\ UNCHANGED <<disk, copied>>
    /\ UNCHANGED <<archive, time, damages>>

BackupsNext == \/ \E l \in LibraryName, i \in SnippetId : Edit(l, i)
               \/ \E l \in LibraryName : CreateLibrary(l) \/ DeleteLibrary(l) \/ HandEdit(l)
               \/ \E i \in SnippetId : Use(i)
               \/ Register \/ Prune \/ Backup \/ Obtain \/ Damage \/ Check \/ Apply
BackupsSpec == BackupsInit /\ [][BackupsNext]_backupVars
---------------------------------------------------------------------------
Apart(p, q) == p[1] # q[1] \/ (p[1] = "libraries/" => Lower[p[2]] # Lower[q[2]])

\* restore_cmd.rs: whatever happens to the backup after it was checked, and to
\* the data meanwhile, a restore leaves no version of a snippet that neither
\* the data nor the checked manifest had; a merge takes no version back and
\* keeps the index, the usage and the settings; no entry overwrites another's
\* file, on a disk that ignores case either.
RestoreFaithful ==
    [][Apply /\ restore'.at = "done" =>
         LET es == Entries(restore.manifest)
             Had(p, i) == (IF p \in DOMAIN disk THEN {disk[p].at[i]} ELSE {0})
                            \cup {e.body.at[i] : e \in {f \in es : PlaceOf(f) = p}}
         IN /\ \A l \in Names(disk'), i \in SnippetId : disk'[Lib(l)].at[i] \in Had(Lib(l), i)
            /\ restore.mode = "merge" => \A p \in DOMAIN disk :
                 IF KindOf(p) \in Kinds THEN disk'[p] = disk[p]
                 ELSE \A i \in SnippetId : disk'[p].at[i] >= disk[p].at[i]
            /\ \A i, j \in DOMAIN restore.manifest : i # j =>
                 LET p == PlaceOf(restore.manifest[i])
                     q == PlaceOf(restore.manifest[j])
                 IN p # q /\ Apart(p, q)]_backupVars

\* A backup that was taken can be restored.
EveryBackupRestores == archive.own /\ damages = 0 => Accepts("replace")

\* docs/USER_GUIDE.md: a merge adds the snippets that only exist in the backup:
\* to libraries that the commands can see.
RestoredIsListed ==
    restore.at = "done" /\ restore.mode = "merge" =>
      \A e \in Entries(restore.manifest) : e.kind = "library" => e.stem \in Listed(disk)

\* repair_cmd.rs: pruning spares the usage of snippets that exist.
PruneSpares ==
    [][Prune => \A i \in disk[Top("usage")] :
                  (\E l \in Names(disk) : disk[Lib(l)].at[i] > 0) => i \in disk'[Top("usage")]]_backupVars
=============================================================================
