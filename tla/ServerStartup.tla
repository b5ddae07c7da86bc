--------------------------- MODULE ServerStartup ---------------------------
(***************************************************************************)
(* The start of the server: its configuration, its transport policy, and   *)
(* the statements that bring a database of an older version up to date,    *)
(* one by one, for nothing but the migration of the keys is a transaction. *)
(* The host may lose power between any two of them.                        *)
(*                                                                         *)
(* One library is modelled (sequences are per library), one limit of the   *)
(* configuration stands for all of them, and one host for both listeners.  *)
(***************************************************************************)
EXTENDS Naturals, FiniteSetsExt

CONSTANTS Rows,        \* the rows of an older database are 1..Rows
          Users,       \* its users are 1..Users
          Batch,       \* MIGRATION_BATCH_SIZE
          MaxStarts, MaxPushes

ASSUME StartupAssumption ==
    /\ Rows \in Nat /\ Users \in Nat /\ Batch \in Nat \ {0}
    /\ MaxStarts \in Nat /\ MaxPushes \in Nat

VARIABLES config,    \* the limit in the file and in the environment; transport
          columns,   \* what the table of snippets has beside its first columns
          table,     \* [updated, seq] of each row
          users,     \* how each user's key is stored
          given,     \* as it was before the first start
          counter,   \* the library's row of library_sequences
          indexed,   \* the unique index is there
          pushed,    \* rows written since the first start
          serving,   \* the statement it has come to
          starts
startupVars == <<config, columns, table, users, given, counter, indexed, pushed, serving, starts>>

Row == 1..Rows
Owner == 1..Users
StoredKey == [stored: {"plain", "hash"}, prefix: {"none", "of key", "of hash"}]
Config == [file: {"absent", "broken", "zero", "set"}, env: {"unset", "garbage", "zero", "set"},
           tls: BOOLEAN, http: BOOLEAN, loopback: BOOLEAN]
Statement == {"down", "open", "index", "sequence", "backfill", "seed", "unique", "keys",
              "visible", "bind", "serving"}

StartupTypeOK ==
    /\ config \in Config
    /\ columns \subseteq {"visible_at", "sequence"}
    /\ table \in [Row -> [updated: 1..2, seq: 0..(Rows + MaxPushes)]]
    /\ {users, given} \subseteq [Owner -> StoredKey]
    /\ counter \in 0..(Rows + MaxPushes) /\ indexed \in BOOLEAN /\ pushed \in 0..MaxPushes
    /\ serving \in [at: Statement, last: 0..(Users + Batch), why: Statement \cup {"", "config"}]
    /\ starts \in 0..MaxStarts

Down(why) == [at |-> "down", last |-> 0, why |-> why]
At(statement) == [serving EXCEPT !.at = statement]

\* Databases of all versions, and configurations of all kinds for a current one.
Usual == [file |-> "set", env |-> "unset", tls |-> FALSE, http |-> TRUE, loopback |-> TRUE]
Hashed == [stored |-> "hash", prefix |-> "of key"]
StartupInit ==
    /\ columns \in {{}, {"visible_at"}, {"visible_at", "sequence"}}
    /\ IF "sequence" \in columns
       THEN table = [r \in Row |-> [updated |-> 1, seq |-> r]] /\ counter = Rows /\ indexed = TRUE
       ELSE table \in [Row -> [updated: 1..2, seq: {0}]] /\ counter = 0 /\ indexed = FALSE
    /\ users \in [Owner -> {Hashed, [stored |-> "plain", prefix |-> "none"],
                           [stored |-> "hash", prefix |-> "none"]}]
    /\ config \in Config
    /\ config = Usual \/ ("sequence" \in columns /\ \A u \in Owner : users[u] = Hashed)
    /\ given = users /\ pushed = 0
    /\ serving = Down("") /\ starts = 0
---------------------------------------------------------------------------
(* Configuration: the environment, the file, the default; never a guess *)

\* What an absent file becomes when bootstrap writes the default one.
ConfigFile == IF config.file = "absent" THEN "set" ELSE config.file
Value == IF config.env # "unset" THEN config.env ELSE ConfigFile
Parses == ConfigFile # "broken" /\ config.env # "garbage"
ConfigLoads == Parses /\ Value # "zero"
TransportAllowed == config.tls \/ (config.http /\ config.loopback)

Load ==
    /\ serving.at = "down" /\ starts < MaxStarts
    /\ starts' = starts + 1
    /\ \/ /\ ~config.tls /\ ~config.http
          /\ serving' = Down("config") /\ config' = config
       \/ /\ config.tls \/ config.http
          /\ config' = [config EXCEPT !.file = ConfigFile]
          /\ serving' = IF ConfigLoads /\ TransportAllowed THEN [Down("") EXCEPT !.at = "open"]
                       ELSE Down("config")
    /\ UNCHANGED <<columns, table, users, given, counter, indexed, pushed>>
---------------------------------------------------------------------------
(* Database::connect *)

Sequences == {table[r].seq : r \in Row}
Distinct == \A q, r \in Row : table[q].seq = table[r].seq => q = r

\* CREATE TABLE IF NOT EXISTS and the first indexes.
OpenTables ==
    /\ serving.at = "open"
    /\ serving' = At("index")
    /\ UNCHANGED <<config, columns, table, users, given, counter, indexed, pushed, starts>>

\* CREATE INDEX ... (visible_at) fails on a table without the column.
IndexVisible ==
    /\ serving.at = "index"
    /\ serving' = IF "visible_at" \in columns THEN At("sequence") ELSE Down("index")
    /\ UNCHANGED <<config, columns, table, users, given, counter, indexed, pushed, starts>>

AddSequence ==
    /\ serving.at = "sequence"
    /\ columns' = columns \cup {"sequence"}
    /\ serving' = At(IF "sequence" \in columns THEN "seed" ELSE "backfill")
    /\ UNCHANGED <<config, table, users, given, counter, indexed, pushed, starts>>

\* ROW_NUMBER() ordered by updated_at, then id.
Rank(r) == Cardinality({q \in Row : \/ table[q].updated < table[r].updated
                                    \/ table[q].updated = table[r].updated /\ q <= r})
Backfill ==
    /\ serving.at = "backfill"
    /\ table' = [r \in Row |-> [table[r] EXCEPT !.seq = Rank(r)]]
    /\ serving' = At("seed")
    /\ UNCHANGED <<config, columns, users, given, counter, indexed, pushed, starts>>

Seed ==
    /\ serving.at = "seed"
    /\ counter' = Max({counter} \cup Sequences)
    /\ serving' = At("unique")
    /\ UNCHANGED <<config, columns, table, users, given, indexed, pushed, starts>>

UniqueIndex ==
    /\ serving.at = "unique"
    /\ indexed' = (indexed \/ Distinct)
    /\ serving' = IF indexed' THEN At("keys") ELSE Down("unique")
    /\ UNCHANGED <<config, columns, table, users, given, counter, pushed, starts>>
---------------------------------------------------------------------------
(* The rest of serve_inner *)

\* Mutant: the prefix comes from what is stored, whatever that was.
MigratedFromHash(key) ==
    [stored |-> "hash", prefix |-> IF key.prefix = "none" THEN "of hash" ELSE key.prefix]
Migrated(key) ==
    [stored |-> "hash",
     prefix |-> IF key.prefix # "none" THEN key.prefix
                ELSE IF key.stored = "plain" THEN "of key" ELSE "of hash"]

\* One transaction per batch of users, in the order of their ids.
MigrateKeys ==
    /\ serving.at = "keys"
    /\ users' = [u \in Owner |-> IF u \in serving.last + 1 .. serving.last + Batch
                                THEN Migrated(users[u]) ELSE users[u]]
    /\ serving' = IF serving.last >= Users THEN At("visible")
                 ELSE [serving EXCEPT !.last = @ + Batch]
    /\ UNCHANGED <<config, columns, table, given, counter, indexed, pushed, starts>>

MigrateVisible ==
    /\ serving.at = "visible"
    /\ columns' = columns \cup {"visible_at"}
    /\ serving' = At("bind")
    /\ UNCHANGED <<config, table, users, given, counter, indexed, pushed, starts>>

Bind ==
    /\ serving.at = "bind"
    /\ serving' \in {At("serving"), Down("bind")}
    /\ UNCHANGED <<config, columns, table, users, given, counter, indexed, pushed, starts>>

\* A push takes the next sequence; its row gets it, and the client's time, unless the
\* row that is stored is as late.
PushRow(r, time) ==
    /\ serving.at = "serving" /\ pushed < MaxPushes
    /\ pushed' = pushed + 1
    /\ counter' = counter + 1
    /\ \/ /\ time >= table[r].updated
          /\ table' = [table EXCEPT ![r] = [updated |-> time, seq |-> counter + 1]]
       \/ time <= table[r].updated /\ UNCHANGED table
    /\ UNCHANGED <<config, columns, users, given, indexed, serving, starts>>

\* Power loss, or a stop.
Crash ==
    /\ serving.at # "down"
    /\ serving' = Down("")
    /\ UNCHANGED <<config, columns, table, users, given, counter, indexed, pushed, starts>>

StartupNext ==
    \/ Load \/ OpenTables \/ IndexVisible \/ AddSequence \/ Backfill \/ Seed \/ UniqueIndex
    \/ MigrateKeys \/ MigrateVisible \/ Bind \/ Crash
    \/ \E r \in Row, time \in 1..2 : PushRow(r, time)

StartupSpec == StartupInit /\ [][StartupNext]_startupVars
---------------------------------------------------------------------------
(* What a server that serves may rely on *)

\* db.rs get_user_by_api_key: found by the key's prefix, then compared with the hash.
Authenticates(u) == users[u] = Hashed
Usable(key) == key = Hashed \/ key.stored = "plain"

\* A server that serves, however often earlier starts died, lets in every user
\* whose key can be checked; no two rows share a sequence and the next one is
\* new; until something is written the sequences are in the order of the times;
\* and nothing but a loopback address is served without TLS.
ServedWhole ==
    serving.at = "serving" =>
        /\ \A u \in Owner : Usable(given[u]) => Authenticates(u)
        /\ Distinct /\ \A s \in Sequences : s <= counter
        /\ pushed = 0 => \A q, r \in Row : table[q].updated < table[r].updated
                                              => table[q].seq < table[r].seq
        /\ config.loopback \/ config.tls
        /\ Value # "zero"

\* db.rs, migrate_snippet_visible_at: a database without the column is served
\* after its migration. The code breaks this: connect indexes the column first.
OldDatabaseServed == serving.why # "index"

\* db.rs, migrate_snippet_sequence, "Idempotent: it is safe to run on every
\* start". The code breaks this: the column is added, and the power lost,
\* before the rows have their sequences.
InterruptedMigrationCompletes == serving.why # "unique"
=============================================================================
