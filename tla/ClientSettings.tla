--------------------------- MODULE ClientSettings ---------------------------
(***************************************************************************)
(* sync.toml and the API key of a client (src/src/config/sync_settings.rs) *)
(* under the commands that load, change and save them: `snp register`,     *)
(* `snp sync config`, and every sync, whose migration stores the key that  *)
(* it has loaded and writes the file again.  The key is in the keychain of *)
(* the system and the file holds a marker; one local-data lock is held     *)
(* while the file is written, and none from the load to the save.          *)
(***************************************************************************)
EXTENDS Naturals, FiniteSets

CONSTANTS Shell,       \* processes
          MaxAccounts, \* accounts the server opens
          MaxUpsets    \* files damaged or removed, keychains locked or unlocked

ASSUME SettingsAssumption == MaxAccounts \in Nat \ {0}

VARIABLES syncToml,  \* the file
          keychain,  \* whether it answers, and its entry
          writer,    \* who holds the local-data lock
          tasks,     \* the commands that run
          accounts,  \* opened so far; an account is its number, and so are its key and device
          uses,      \* history: what the syncs have used
          torn,      \* history: a registration was overlapped, or ended between key and file
          blind,     \* history: a registration began from a lower revision than a sync had used
          upsets
settingsVars == <<syncToml, keychain, writer, tasks, accounts, uses, torn, blind, upsets>>

None == 0                    \* an empty key or device, and no entry
Marker == MaxAccounts + 1    \* "@keychain"
Settings == [key : 0..Marker, device : 0..MaxAccounts, revision : 0..MaxAccounts, auto : BOOLEAN]
Default == [key |-> None, device |-> None, revision |-> 0, auto |-> FALSE]
NoTask == [at |-> "idle", op |-> "none", force |-> FALSE, seen |-> Default]

SettingsTypeOK ==
    /\ syncToml \in [is : {"absent", "legacy", "whole", "corrupt"}, holds : Settings]
    /\ keychain \in [up : BOOLEAN, key : 0..MaxAccounts]
    /\ writer \subseteq Shell
    /\ tasks \in [Shell -> [at : {"idle", "store", "mark", "load", "rpc", "save",
                                  "marking", "writing"},
                            op : {"none", "register", "config", "sync"},
                            force : BOOLEAN, seen : Settings]]
    /\ accounts \in 0..MaxAccounts /\ torn \in BOOLEAN /\ blind \in BOOLEAN
    /\ uses \subseteq [key : 1..MaxAccounts, device : 1..MaxAccounts,
                       revision : 0..MaxAccounts]
    /\ upsets \in 0..MaxUpsets

\* Nothing yet, or a file of before the integrity line and the keychain.
SettingsInit ==
    /\ keychain \in [up : BOOLEAN, key : {None}] /\ accounts \in 0..1
    /\ syncToml = IF accounts = 0 THEN [is |-> "absent", holds |-> Default]
                  ELSE [is |-> "legacy", holds |-> [Default EXCEPT !.key = 1, !.device = 1]]
    /\ writer = {} /\ tasks = [c \in Shell |-> NoTask]
    /\ uses = {} /\ torn = FALSE /\ blind = FALSE /\ upsets = 0
---------------------------------------------------------------------------
(* Loading and saving *)

\* load_sync_settings: defaults without a file; a file that cannot be read,
\* or whose marker the keychain does not answer, is an error and is left as it is.
Readable == syncToml.is # "corrupt"   \* the integrity line, or none, and the rest of the file
Loads == /\ Readable
         /\ syncToml.holds.key = Marker => keychain.up /\ keychain.key # None
Loaded == IF syncToml.holds.key = Marker
          THEN [syncToml.holds EXCEPT !.key = keychain.key] ELSE syncToml.holds

\* What the file shows of a key: never the key.
\* Mutant: a new key goes into the file as it is.
KeyInFilePlain(key) == key
KeyInFile(key) == IF key = None THEN None ELSE Marker

GoOn(c, at) == tasks' = [tasks EXCEPT ![c].at = at]
GoLoad(c) == tasks' = [tasks EXCEPT ![c].at = "load", ![c].seen = Default]
EndTask(c) == tasks' = [tasks EXCEPT ![c] = NoTask]

\* save_sync_settings until the file: an interrupted transaction, or a lock
\* that stays taken, refuses it; writing the key down puts it in the keychain.
Serialize(c) ==
    LET task == tasks[c]
        new == task.seen.key \notin {None, Marker}
    IN /\ task.at \in {"mark", "save"}
       /\ \/ /\ writer = {} /\ (new => keychain.up)
             /\ writer' = {c}
             /\ keychain' = IF new THEN [keychain EXCEPT !.key = task.seen.key] ELSE keychain
             /\ GoOn(c, IF task.at = "mark" THEN "marking" ELSE "writing")
          \/ /\ IF task.at = "mark" THEN GoLoad(c) ELSE EndTask(c)
             /\ UNCHANGED <<writer, keychain>>
       /\ UNCHANGED <<syncToml, accounts, uses, torn, blind, upsets>>

\* ... and the file, replaced at once, or not at all.
Write(c) ==
    LET task == tasks[c]
    IN /\ task.at \in {"marking", "writing"} /\ writer' = {}
       /\ IF task.at = "marking" THEN GoLoad(c) ELSE EndTask(c)
       /\ \/ /\ syncToml' = [is |-> "whole",
                             holds |-> [task.seen EXCEPT !.key = KeyInFile(task.seen.key)]]
             /\ UNCHANGED torn
          \/ /\ torn' = (torn \/ (task.op = "register" /\ task.at = "writing"))
             /\ UNCHANGED syncToml
       /\ UNCHANGED <<keychain, accounts, uses, blind, upsets>>
---------------------------------------------------------------------------
(* The commands *)

Busy == {c \in Shell : tasks[c].at # "idle"}

\* Bound: nothing starts once a registration is torn; what runs goes on.
Start(c, op) ==
    /\ tasks[c].at = "idle" /\ ~torn
    /\ torn' = ((op = "register" /\ Busy # {}) \/ \E b \in Busy : tasks[b].op = "register")
    /\ UNCHANGED <<syncToml, keychain, writer, accounts, uses, blind, upsets>>

\* migrate_plaintext_api_key_to_keychain, which a sync and a registration begin
\* with.  What is loaded through the marker is a key as well: it is stored and
\* the file is written again, each time.
Migrate(c, op) ==
    /\ Start(c, op)
    /\ \E force \in BOOLEAN :
         /\ force => op = "register"
         /\ tasks' = [tasks EXCEPT ![c] =
                        IF Loads /\ Loaded.key # None
                        THEN [at |-> "store", op |-> op, force |-> force, seen |-> Loaded]
                        ELSE [NoTask EXCEPT !.at = "load", !.op = op, !.force = force]]

StoreKey(c) ==
    /\ tasks[c].at = "store"
    /\ IF keychain.up
       THEN /\ keychain' = [keychain EXCEPT !.key = tasks[c].seen.key]
            /\ tasks' = [tasks EXCEPT ![c].at = "mark", ![c].seen.key = Marker]
       ELSE GoLoad(c) /\ UNCHANGED keychain
    /\ UNCHANGED <<syncToml, writer, accounts, uses, torn, blind, upsets>>

\* A sync that is enabled and has a key runs with what it has loaded.
LoadToSync(c) ==
    /\ tasks[c].at = "load" /\ tasks[c].op = "sync" /\ EndTask(c)
    /\ uses' = IF Loads /\ Loaded.device # None /\ Loaded.key # None
               THEN uses \cup {[key |-> Loaded.key, device |-> Loaded.device,
                                revision |-> Loaded.revision]}
               ELSE uses
    /\ UNCHANGED <<syncToml, keychain, writer, accounts, torn, blind, upsets>>

\* run_config: --auto-sync on or off.
Change(c) ==
    /\ Start(c, "config") /\ Loads
    /\ tasks' = [tasks EXCEPT ![c] = [at |-> "save", op |-> "config", force |-> FALSE,
                                      seen |-> [Loaded EXCEPT !.auto = ~@]]]

\* register_cmd: settings that cannot be loaded do not stop it, --force or not.
LoadToRegister(c) ==
    /\ tasks[c].at = "load" /\ tasks[c].op = "register"
    /\ IF ~tasks[c].force /\ Loads /\ Loaded.device # None THEN EndTask(c) /\ UNCHANGED blind
       ELSE /\ tasks' = [tasks EXCEPT ![c].at = "rpc",
                                      ![c].force = FALSE,
                                      ![c].seen.revision = IF Loads THEN Loaded.revision ELSE 0]
            /\ blind' = (blind \/ \E u \in uses : u.revision > tasks'[c].seen.revision)
    /\ UNCHANGED <<syncToml, keychain, writer, accounts, uses, torn, upsets>>

Registered(old, account) ==
    [key |-> account, device |-> account, revision |-> old.revision + 1, auto |-> FALSE]

\* One attempt: refused, or an account whose answer may be lost.
AskAccount(c) ==
    /\ tasks[c].at = "rpc"
    /\ \/ EndTask(c) /\ accounts' \in {accounts, accounts + 1} /\ accounts' <= MaxAccounts
       \/ /\ accounts < MaxAccounts /\ accounts' = accounts + 1
          /\ tasks' = [tasks EXCEPT ![c].at = "save",
                                    ![c].seen = Registered(tasks[c].seen, accounts + 1)]
    /\ UNCHANGED <<syncToml, keychain, writer, uses, torn, blind, upsets>>

\* The lock of a dead process is taken over.
Die(c) ==
    /\ tasks[c].at # "idle" /\ EndTask(c)
    /\ writer' = writer \ {c}
    /\ torn' = (torn \/ (tasks[c].op = "register" /\ tasks[c].at = "writing"))
    /\ UNCHANGED <<syncToml, keychain, accounts, uses, blind, upsets>>

\* The user, the disk and the system.
Upset ==
    /\ upsets < MaxUpsets /\ ~torn /\ upsets' = upsets + 1
    /\ \/ /\ syncToml.is # "absent"
          /\ syncToml' \in [is : {"corrupt", "absent"}, holds : {Default}]
          /\ UNCHANGED keychain
       \/ keychain' = [keychain EXCEPT !.up = ~keychain.up] /\ UNCHANGED syncToml
    /\ UNCHANGED <<writer, tasks, accounts, uses, torn, blind>>

SettingsNext ==
    \/ \E c \in Shell :
         \/ \E op \in {"register", "sync"} : Migrate(c, op)
         \/ Change(c) \/ StoreKey(c) \/ Serialize(c) \/ Write(c)
         \/ LoadToSync(c) \/ LoadToRegister(c) \/ AskAccount(c) \/ Die(c)
    \/ Upset

SettingsSpec == SettingsInit /\ [][SettingsNext]_settingsVars
---------------------------------------------------------------------------
(* Properties *)

\* Syncs overlap each other and changes of the settings, and any of them dies,
\* is refused or loses the keychain between its load and its save; yet as long
\* as no registration was overlapped, or cut short after it stored its key,
\* every sync runs with the key and the device of one account.  If besides no
\* registration began behind, a new key shows in the revision, which is what
\* releases deferred failures.  And no key is written to the file.
CredentialsTogether ==
    /\ ~torn => \A u \in uses : u.key = u.device
    /\ ~torn /\ ~blind => \A u, v \in uses : u.key # v.key => u.revision # v.revision
    /\ syncToml.is = "whole" => syncToml.holds.key \in {None, Marker}

\* "It must advance whenever the credential changes": also when the settings
\* before could not be loaded.  (The code starts again from 1.)
RevisionTells == ~torn => \A u, v \in uses : u.key # v.key => u.revision # v.revision

\* "Migrates a plaintext API key in sync.toml": a migration changes the key of
\* the file and nothing else.  (It writes back what it loaded before.)
MigrationWritesOnlyTheKey ==
    [][\A c \in Shell : tasks[c].at = "marking" /\ Write(c) =>
         syncToml'.holds.auto = syncToml.holds.auto]_settingsVars

\* The key and the device of the file belong together at rest, whatever
\* overlapped or died.
AccountWhole == Busy = {} /\ syncToml.is = "whole" /\ keychain.key # None =>
                  syncToml.holds.device \in {None, keychain.key}
=============================================================================
