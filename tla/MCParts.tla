------------------------------ MODULE MCParts ------------------------------
(***************************************************************************)
(* Small instances for TLC of machines that share nothing and of which     *)
(* only the safety is checked: a behaviour picks one at its start and runs *)
(* it alone, from each of its initial states; the others rest.             *)
(***************************************************************************)
EXTENDS RateLimiter, SelfUpdate, ServerStartup, ServerRequests, PayloadKeys, FileCache,
        ClientSettings, SyncClient, Backups

CONSTANTS Char,                        \* of Selector
          Theme, Broken,               \* of ThemePicker
          Content, MaxCommands,        \* of LocalStore
          MaxKeys                      \* of Variables

VARIABLES part,   \* the one that runs
          ui, asked, outcome,
          picker, rendered, saved, before, openings,
          store, locker, shell, owed, started,
          command, prompt, edited, ran,
          host, crontab, unit, recorded, install, lines, apart, commands, edits,
          sent, pipe, open, listening, buffer, line, discarding, state, replies, at,
          terminal, edit, events, widget, chosen, library, result, used

\* Two snippets; the tags of one hold text of the other.
List == INSTANCE Selector WITH Text <- {<<>>, <<"a">>, <<"b">>, <<"a", "b">>},
                               Display <- <<<<"a">>, <<"a", "b">>>>,
                               Tags <- <<{<<"b">>}, {}>>,
                               IsSearch <- FALSE, AllowDelete <- TRUE
\* A filter matches all themes, all but the first, or none.
Themes == INSTANCE ThemePicker WITH Filter <- {Theme, Theme \ {1}, {}}
Shells == INSTANCE LocalStore
\* Three pieces in a row, and the shortest texts of the characters that matter.
Piece == {<<"<", "x", ">">>, <<"<", "x", "=", "v", ">">>, <<"<", "y", "=", "?", ">">>,
          <<"<", "x", "=", "\\", ">">>, <<"<", "x", "=", "\\", "\\", ">">>,
          <<"\\">>, <<"<">>, <<">">>, <<"x">>, <<>>}
Commands == {a \o b \o c : a, b, c \in Piece} \cup [1..3 -> {"\\", "<", ">", "=", "x"}]
Prompt == INSTANCE Variables
            WITH Command <- Commands, Letter <- {"v"}, Option <- <<<<"v">>, <<"w">>>>
\* Backups of other programs: two libraries of one name but for the case, a
\* device's name, and an index of a library that is not there.
Alien(entries) ==
    [own |-> FALSE,
     manifest |-> [i \in DOMAIN entries |->
                     [dir |-> entries[i][1], stem |-> entries[i][2], toml |-> TRUE,
                      kind |-> IF entries[i][2] = "index" THEN "index" ELSE "library",
                      body |-> entries[i][3]]],
     files |-> [p \in {<<IF entries[i][1] = "" /\ entries[i][2] # "index" THEN "libraries/"
                          ELSE entries[i][1], entries[i][2]>> : i \in DOMAIN entries} |->
                  [link |-> FALSE,
                   body |-> entries[CHOOSE i \in DOMAIN entries : entries[i][2] = p[2]][3]]]]
Copy(t) == [ok |-> TRUE, at |-> [i \in {1} |-> t]]
OtherBackups == {Alien(<<<<"", "a", Copy(1)>>, <<"libraries/", "A", Copy(2)>>>>),
                 Alien(<<<<"libraries\\", "con", Copy(1)>>>>),
                 Alien(<<<<"", "con", Copy(1)>>>>),
                 Alien(<<<<"", "b", Copy(2)>>,
                           <<"", "index", [listed |-> {"a"}, primary |-> {"a"}]>>>>)}
LowerCase == [n \in {"a", "A", "b", "con"} |-> IF n = "A" THEN "a" ELSE n]

\* An edit; a deletion of the same time that wins by its tie; a row of the version
\* that is stored, deleted, beside one that wins by its tie; a deletion with a row of
\* the future; and one without a time.  A row of id 2 fills a response.
RowOf(t, tie, deleted) == [time |-> t, tie |-> tie, deleted |-> deleted]
Pushes == {[i \in {1} |-> RowOf(2, 1, FALSE)], [i \in {1} |-> RowOf(2, 2, TRUE)],
           [i \in {1, 2} |-> RowOf(1, i, i = 1)], [i \in {1, 2} |-> RowOf(i + 1, 1, i = 1)],
           [i \in {2} |-> RowOf(0, 1, FALSE)]}
Managers == INSTANCE Registrations WITH MaxCommands <- 3, MaxEdits <- 2
\* Lines that fit, but for one that is longer than a whole buffer.
Message(name, id, sound, length) ==
    [method |-> name, id |-> id, sound |-> sound, length |-> length]
Mcp == INSTANCE McpServer
         WITH MaxBytes <- 2, MaxLines <- 3,
              Line <- {Message("initialize", TRUE, TRUE, 2), Message("initialized", FALSE, TRUE, 2),
                       Message("ping", TRUE, TRUE, 2), Message("tools/list", TRUE, TRUE, 2),
                       Message("snippet_get", TRUE, TRUE, 2), Message("snippet_get", TRUE, TRUE, 4),
                       Message("other", FALSE, TRUE, 2), Message("text", FALSE, TRUE, 2)}
\* A line, two lines, and a blank.
Widgets == INSTANCE ShellWidgets WITH Text <- {<<"a">>, <<"a", "\n", "b">>, <<" ">>},
                                      MaxUses <- 3, shell <- terminal, history <- events,
                                      uses <- used
\* Of both versions, with one salt and either key; and three that do not open.
Ciphertext(version, salt, key, long, intact) ==
    [version |-> version, salt |-> salt, long |-> long, intact |-> intact,
     sealed |-> <<key, salt, IF version = 2 THEN "unknown" ELSE "current">>]
FromElsewhere == {Ciphertext(v, 1, k, TRUE, TRUE) : v \in {0, 1}, k \in {"k", "l"}}
                 \cup {Ciphertext(2, 2, "k", TRUE, TRUE), Ciphertext(1, 2, "k", FALSE, FALSE),
                       Ciphertext(1, 2, "k", TRUE, FALSE)}

listVars == <<ui, asked, outcome>>
themeVars == <<picker, rendered, saved, before, openings>>
storeVars == <<store, locker, shell, owed, started>>
promptVars == <<command, prompt, edited, ran>>
registrationVars == <<host, crontab, unit, recorded, install, lines, apart, commands, edits>>
mcpVars == <<sent, pipe, open, listening, buffer, line, discarding, state, replies, at>>
widgetVars == <<terminal, edit, events, widget, chosen, library, result, used>>
\* In three groups, for the steps of a part of another group.
firstVars == <<vars, updateVars, listVars, themeVars, storeVars, promptVars, clientVars,
               backupVars>>
secondVars == <<startupVars, requestVars, registrationVars, settingsVars, cacheVars>>
thirdVars == <<mcpVars, widgetVars, keyVars>>
allVars == <<part, firstVars, secondVars, thirdVars>>

PartsInit ==
    /\ part \in {"limiter", "update", "list", "themes", "store", "prompt", "client", "backups",
                 "startup", "requests", "registrations", "settings", "cache", "mcp",
                 "widgets", "payloads"}
    /\ ClientInit
    /\ part # "client" => call.op = "download" /\ ~call.limited
    /\ Init
    /\ part # "limiter" =>
         \E p \in Peer : request = [r \in Request |-> [at |-> "unsent", kind |-> "known",
                                                       peer |-> p, now |-> 0]]
    /\ UpdateInit
    /\ part # "update" => program = "snp" /\ platform = "unix" /\ method = "direct"
    /\ List!Init
    /\ part # "list" => ui.filter = <<>> /\ ui.sort = "none"
    /\ Themes!Init
    /\ part # "themes" => saved = 0
    /\ Shells!Init
    /\ part # "store" => owed = {}
    /\ BackupsInit
    /\ part # "backups" => <<"libraries/", "a">> \in DOMAIN disk
    /\ StartupInit
    /\ part # "startup" => config = Usual /\ "sequence" \in columns
                           /\ \A u \in DOMAIN users : users[u] = Hashed
    /\ RequestsInit
    /\ part # "requests" => snippets = [i \in {} |-> 0]
    /\ Managers!Init
    /\ part # "registrations" => crontab = <<>> /\ unit = "none"
                                 /\ host = [systemd |-> TRUE, crontab |-> TRUE, root |-> TRUE,
                                            allowed |-> TRUE]
    /\ SettingsInit
    /\ part # "settings" => keychain.up /\ accounts = 0
    /\ CacheInit
    /\ Mcp!Init
    /\ Widgets!Init
    /\ part # "widgets" => terminal = "bash" /\ edit.text = <<>>
    /\ KeysInit
    /\ part # "payloads" => apiKey = "k"
    /\ \/ part = "prompt"
       \/ part # "prompt" /\ command = <<>>
    /\ Prompt!Init

PartsNext ==
    \/ /\ part = "limiter" /\ Next
       /\ UNCHANGED <<part, updateVars, listVars, themeVars, storeVars, promptVars,
                      clientVars, backupVars, secondVars, thirdVars>>
    \/ /\ part = "update" /\ UpdateNext
       /\ UNCHANGED <<part, vars, listVars, themeVars, storeVars, promptVars,
                      clientVars, backupVars, secondVars, thirdVars>>
    \/ /\ part = "list" /\ List!Next
       /\ UNCHANGED <<part, vars, updateVars, themeVars, storeVars, promptVars,
                      clientVars, backupVars, secondVars, thirdVars>>
    \/ /\ part = "themes" /\ Themes!Next
       /\ UNCHANGED <<part, vars, updateVars, listVars, storeVars, promptVars,
                      clientVars, backupVars, secondVars, thirdVars>>
    \/ /\ part = "store" /\ Shells!Next
       /\ UNCHANGED <<part, vars, updateVars, listVars, themeVars, promptVars,
                      clientVars, backupVars, secondVars, thirdVars>>
    \/ /\ part = "prompt" /\ Prompt!Next
       /\ UNCHANGED <<part, vars, updateVars, listVars, themeVars, storeVars,
                      clientVars, backupVars, secondVars, thirdVars>>
    \/ /\ part = "client" /\ ClientNext
       /\ UNCHANGED <<part, vars, updateVars, listVars, themeVars, storeVars,
                      promptVars, backupVars, secondVars, thirdVars>>
    \/ /\ part = "backups" /\ BackupsNext
       /\ UNCHANGED <<part, vars, updateVars, listVars, themeVars, storeVars,
                      promptVars, clientVars, secondVars, thirdVars>>
    \/ /\ part = "startup" /\ StartupNext
       /\ UNCHANGED <<part, firstVars, requestVars, registrationVars, settingsVars, cacheVars,
                      thirdVars>>
    \/ /\ part = "requests" /\ RequestsNext
       /\ UNCHANGED <<part, firstVars, startupVars, registrationVars, settingsVars, cacheVars,
                      thirdVars>>
    \/ /\ part = "registrations" /\ Managers!Next
       /\ UNCHANGED <<part, firstVars, startupVars, requestVars, settingsVars, cacheVars,
                      thirdVars>>
    \/ /\ part = "settings" /\ SettingsNext
       /\ UNCHANGED <<part, firstVars, startupVars, requestVars, registrationVars, cacheVars,
                      thirdVars>>
    \/ /\ part = "cache" /\ CacheNext
       /\ UNCHANGED <<part, firstVars, startupVars, requestVars, registrationVars, settingsVars,
                      thirdVars>>
    \/ /\ part = "mcp" /\ Mcp!Next
       /\ UNCHANGED <<part, firstVars, secondVars, widgetVars, keyVars>>
    \/ /\ part = "widgets" /\ Widgets!Next
       /\ UNCHANGED <<part, firstVars, secondVars, mcpVars, keyVars>>
    \/ /\ part = "payloads" /\ KeysNext
       /\ UNCHANGED <<part, firstVars, secondVars, mcpVars, widgetVars>>

PartsSpec == PartsInit /\ [][PartsNext]_allVars
---------------------------------------------------------------------------
(* The properties of the parts, under their names *)

\* Every variable of the part that runs keeps to its type.
Types == /\ part = "limiter" => TypeOK
         /\ part = "update" => UpdateTypeOK
         /\ part = "list" => List!TypeOK
         /\ part = "themes" => Themes!TypeOK
         /\ part = "store" => Shells!TypeOK
         /\ part = "prompt" => Prompt!TypeOK
         /\ part = "client" => ClientTypeOK
         /\ part = "backups" => BackupsTypeOK
         /\ part = "startup" => StartupTypeOK
         /\ part = "requests" => RequestsTypeOK
         /\ part = "registrations" => Managers!TypeOK
         /\ part = "settings" => SettingsTypeOK
         /\ part = "cache" => CacheTypeOK
         /\ part = "mcp" => Mcp!TypeOK
         /\ part = "widgets" => Widgets!TypeOK
         /\ part = "payloads" => KeysTypeOK

\* ui/mod.rs: without a pending rebuild the list is the one the filter
\* describes; what is taken matches what was typed, what is deleted is what the
\* user was asked about, and the first theme picker keeps the theme to put back;
\* shell_cmd.rs: a key in a shell leaves the line or what was selected, and adds
\* the command it is for; utils/variables.rs, get_cmd.rs: what the prompt's
\* answers run is what get prints for the same assignments; mcp/protocol.rs:
\* every message of an MCP client is answered once, in turn, and by what it says.
InterfacesFaithful ==
    /\ part = "list" => List!ListIsCurrent /\ List!ActsOnWhatItShows
    /\ part = "themes" => Themes!OriginalKept
    /\ part = "widgets" => Widgets!ShellFaithful
    /\ part = "prompt" => Prompt!ReadersAgree
    /\ part = "mcp" => Mcp!AnsweredInTurn

\* library, commands: what the user was told is stored is shown, and every
\* record has an id of its own, whatever commands run at once; snip-sync
\* startup.rs: the user's crontab is kept and a removal is one.
UserDataKept == /\ part = "store" => Shells!SnippetsKept
                /\ part = "registrations" => Managers!RegistrationsClean
=============================================================================
