--------------------------- MODULE ServerRequests --------------------------
(***************************************************************************)
(* The server's requests, several at a time: each authenticates, resolves  *)
(* its library, and then acts in one transaction, and others act between   *)
(* these steps.  The exchange of sync writes as push does and reads pages  *)
(* as get does; its cursors are in LibrarySync, the budgets of requests in *)
(* RateLimiter.                                                            *)
(***************************************************************************)
EXTENDS Naturals, FiniteSets, FiniteSetsExt

CONSTANTS Handler, User, Id,
          Batches,     \* what clients push: versions of snippets, deleted or not, by id
          Heavy,       \* ids of rows that fill a whole response
          PageLimit,   \* rows of a page
          MaxLibraries,
          Newest,      \* bound on the times
          Latest       \* the server's time plus the 300 seconds of tolerance

\* A version of a snippet.  At equal times the tie stands for what the device id, the
\* command and the description decide together.
Item == [time: Nat, tie: Nat, deleted: BOOLEAN]

\* Ids are numbers, for their order decides between rows of one time.
ASSUME RequestsAssumption ==
    /\ User # {} /\ Id \subseteq Nat /\ IsFiniteSet(Id)
    /\ \A b \in Batches : DOMAIN b \subseteq Id /\ \A i \in DOMAIN b : b[i] \in Item
    /\ PageLimit \in Nat \ {0} /\ MaxLibraries \in Nat /\ MaxLibraries >= 2
    /\ Latest \in Nat \ {0} /\ Newest \in Nat /\ Latest <= Newest

VARIABLES libraries,   \* by id: owner, name, deleted; the name 0 is the default's
          snippets,    \* the table of snippets, by id
          handler, quiet
requestVars == <<libraries, snippets, handler, quiet>>

Name == 0..1
Library == [owner: User, name: Name, deleted: BOOLEAN]
Stored == [owner: User, lib: 1..MaxLibraries, time: 1..Newest, tie: Nat, deleted: BOOLEAN]
Op == {"push", "get", "create", "delete"}
NoItems == [i \in {} |-> 0]
Unsent == [op |-> "get", key |-> CHOOSE u \in User : TRUE, target |-> 0, items |-> NoItems,
           at |-> "unsent", lib |-> 0, ids |-> {}, wrote |-> {}, offset |-> 0]

RequestsTypeOK ==
    /\ \E n \in 0..MaxLibraries : libraries \in [1..n -> Library]
    /\ DOMAIN snippets \subseteq Id /\ \A i \in DOMAIN snippets : snippets[i] \in Stored
    /\ \A r \in Handler :
         /\ handler[r].op \in Op /\ handler[r].key \in User
         /\ handler[r].target \in 0..MaxLibraries /\ handler[r].lib \in 0..MaxLibraries
         /\ handler[r].items \in Batches \cup {NoItems} /\ handler[r].offset \in 0..Cardinality(Id)
         /\ handler[r].ids \subseteq Id /\ handler[r].wrote \subseteq handler[r].ids
         /\ handler[r].at \in {"unsent", "resolve", "act", "done", "refused"}
    /\ quiet \in [Handler -> BOOLEAN]

RequestsInit ==
    /\ libraries = [l \in 1..2 |-> [owner |-> Unsent.key, name |-> l - 1, deleted |-> FALSE]]
    /\ \E S \in SUBSET Id : snippets \in [S -> {[owner |-> Unsent.key, lib |-> l, time |-> 1,
                                             tie |-> 1, deleted |-> FALSE] : l \in 1..2}]
    /\ handler = [r \in Handler |-> Unsent]
    /\ quiet = [r \in Handler |-> TRUE]

Account(u) == \E l \in DOMAIN libraries : libraries[l].owner = u
Own(u) == {l \in DOMAIN libraries : libraries[l].owner = u /\ ~libraries[l].deleted}
Defaults(u) == {l \in Own(u) : libraries[l].name = 0}

\* Of an answer without content only the fact is kept.
Answer(r, at) == handler' = [handler EXCEPT ![r] = [Unsent EXCEPT !.at = at]]
\* A write disturbs the downloads that are under way.
Disturb == quiet' = [r \in Handler |-> FALSE]
---------------------------------------------------------------------------
(* What every handler does first *)

\* extract_api_key, authenticate_and_rate_limit
Authenticate(r, op, key, target, items) ==
    /\ handler[r].at = "unsent"
    /\ op # "push" => items = NoItems
    /\ \/ /\ Account(key)
          /\ handler' = [handler EXCEPT ![r] = [Unsent EXCEPT !.op = op, !.key = key,
                              !.target = target, !.items = items, !.at = "resolve"]]
          /\ quiet' = [quiet EXCEPT ![r] = TRUE]
       \/ ~Account(key) /\ Answer(r, "refused") /\ UNCHANGED quiet
    /\ UNCHANGED <<libraries, snippets>>

\* get_default_library, verify_library_ownership
Resolved(u, target) == IF target = 0 THEN Defaults(u) ELSE Own(u) \cap {target}

Resolve(r) ==
    LET found == Resolved(handler[r].key, handler[r].target)
    IN /\ handler[r].at = "resolve" /\ handler[r].op \in {"push", "get"}
       /\ \/ found = {} /\ Answer(r, "refused")
          \/ \E l \in found : handler' = [handler EXCEPT ![r].at = "act", ![r].lib = l]
       /\ UNCHANGED <<libraries, snippets, quiet>>
---------------------------------------------------------------------------
(* Uploads *)

\* validate_snippet, for what concerns its times.
Valid(time) == time \in 1..Latest

Scope(i) == <<snippets[i].owner, snippets[i].lib>>
\* Mutant: the update has no condition on the scope of the row it meets.
ForeignToNone(items, u, l) == {}
Foreign(items, u, l) == {i \in DOMAIN items \cap DOMAIN snippets : Scope(i) # <<u, l>>}
Kept(items, u, l) == {i \in DOMAIN items : Valid(items[i].time)} \ Foreign(items, u, l)
\* The WHERE of the upsert: strictly later, whether either is a deletion or not.
Wins(a, b) == a.time > b.time \/ (a.time = b.time /\ a.tie > b.tie)
\* UpsertOutcome::Written; the others are Stale, and count as accepted too.
Taken(items, u, l) ==
    {i \in Kept(items, u, l) : i \in DOMAIN snippets => Wins(items[i], snippets[i])}
\* Mutant: the statement does not set the column of deletions.
UpdatedLive(row, item) == [row EXCEPT !.time = item.time, !.tie = item.tie]
\* The owner and the library of a row are not among the columns set.
Updated(row, item) ==
    [row EXCEPT !.time = item.time, !.tie = item.tie, !.deleted = item.deleted]
Written(items, u, l) ==
    LET taken == Taken(items, u, l)
    IN [i \in DOMAIN snippets \cup taken |->
          IF i \notin taken THEN snippets[i]
          ELSE IF i \in DOMAIN snippets THEN Updated(snippets[i], items[i])
          ELSE [owner |-> u, lib |-> l, time |-> items[i].time, tie |-> items[i].tie,
                deleted |-> items[i].deleted]]

\* One transaction; a failure takes all of it back.  The answer carries the counts
\* only: which rows were accepted, and which of them written, is kept for the properties.
Push(r) ==
    LET q == handler[r]
    IN /\ q.at = "act" /\ q.op = "push"
       /\ \/ /\ snippets' = Written(q.items, q.key, q.lib)
             /\ handler' = [handler EXCEPT ![r].at = "done",
                                           ![r].ids = Kept(q.items, q.key, q.lib),
                                           ![r].wrote = Taken(q.items, q.key, q.lib)]
             /\ Disturb
          \/ Answer(r, "refused") /\ UNCHANGED <<snippets, quiet>>
       /\ UNCHANGED libraries
---------------------------------------------------------------------------
(* Downloads *)

InLibrary(u, l) == {i \in DOMAIN snippets : Scope(i) = <<u, l>> /\ ~snippets[i].deleted}
Ahead(j, i) == snippets[j].time > snippets[i].time \/ (snippets[j].time = snippets[i].time /\ j > i)
Place(i, S) == Cardinality({j \in S : Ahead(j, i)})
Page(S, offset) == {i \in S : Place(i, S) \in offset .. offset + PageLimit - 1}
\* A page keeps its first row, and the others while they fit in the response.
Fits(i, page) == LET before == {j \in page : Ahead(j, i)}
                 IN before = {} \/ (before \cup {i}) \cap Heavy = {}
Sent(page) == {i \in page : Fits(i, page)}

Get(r) ==
    LET q == handler[r]
        S == InLibrary(q.key, q.lib)
        sent == Sent(Page(S, q.offset))
        more == q.offset + Cardinality(sent) < Cardinality(S)
    IN /\ q.at = "act" /\ q.op = "get"
       /\ handler' = [handler EXCEPT ![r].ids = @ \cup sent,
                                     ![r].offset = @ + Cardinality(sent),
                                     ![r].at = IF more THEN "resolve" ELSE "done"]
       /\ UNCHANGED <<libraries, snippets, quiet>>
---------------------------------------------------------------------------
(* Accounts and libraries *)

Added(u, name) == [l \in 1..(Cardinality(DOMAIN libraries) + 1) |->
                     IF l \in DOMAIN libraries THEN libraries[l]
                     ELSE [owner |-> u, name |-> name, deleted |-> FALSE]]

\* create_user: the user and the default library, or neither.
CreateUser(r, u) ==
    /\ handler[r].at = "unsent"
    /\ \/ /\ ~Account(u) /\ Cardinality(DOMAIN libraries) < MaxLibraries
          /\ libraries' = Added(u, 0)
          /\ Answer(r, "done")
       \/ Answer(r, "refused") /\ UNCHANGED libraries
    /\ UNCHANGED <<snippets, quiet>>

\* INSERT OR IGNORE against the unique pair of user and name.
Create(r, name) ==
    LET u == handler[r].key
    IN /\ handler[r].at = "resolve" /\ handler[r].op = "create"
       /\ \/ /\ \A l \in DOMAIN libraries : ~(libraries[l].owner = u /\ libraries[l].name = name)
             /\ Cardinality(DOMAIN libraries) < MaxLibraries
             /\ libraries' = Added(u, name)
             /\ Answer(r, "done")
          \/ Answer(r, "refused") /\ UNCHANGED libraries
       /\ UNCHANGED <<snippets, quiet>>

\* Only the caller's live libraries, and never the default one.
Deletable(u, target) == (Own(u) \ Defaults(u)) \cap {target}

Delete(r) ==
    LET found == Deletable(handler[r].key, handler[r].target)
    IN /\ handler[r].at = "resolve" /\ handler[r].op = "delete"
       /\ \/ /\ found = {} /\ Answer(r, "refused") /\ UNCHANGED <<libraries, snippets, quiet>>
          \/ \E l \in found :
               /\ libraries' = [libraries EXCEPT ![l].deleted = TRUE]
               /\ snippets' = [i \in DOMAIN snippets |->
                             IF snippets[i].lib = l /\ ~snippets[i].deleted
                             THEN [snippets[i] EXCEPT !.deleted = TRUE,
                                                  !.time = Max({@, Latest - 1})]
                             ELSE snippets[i]]
               /\ Answer(r, "done") /\ Disturb

RequestsNext ==
    \E r \in Handler :
       \/ \E op \in Op, key \in User, target \in 0..MaxLibraries, items \in Batches \cup {NoItems} :
            Authenticate(r, op, key, target, items)
       \/ Resolve(r) \/ Push(r) \/ Get(r) \/ Delete(r)
       \/ \E u \in User : CreateUser(r, u)
       \/ \E name \in Name : Create(r, name)

RequestsSpec == RequestsInit /\ [][RequestsNext]_requestVars
---------------------------------------------------------------------------
(* What the answers promise *)

\* A row stays with the user and in the library it was first stored for.
Scoped == \A i \in DOMAIN snippets : libraries[snippets[i].lib].owner = snippets[i].owner

Upheld(row, item) ==
    \/ row.deleted = item.deleted \/ Wins(row, item)
    \/ row.deleted /\ libraries[row.lib].deleted

\* What a push counted as accepted is there, under its user and library, in that
\* version or a later one.  What it wrote, a deletion included, is undone by nothing
\* but a strictly later version, or the deletion of the library.
AcceptedIsStored(r) ==
    handler[r].op = "push" /\ handler[r].at = "done" =>
       \A i \in handler[r].ids : /\ i \in DOMAIN snippets
                                 /\ Scope(i) = <<handler[r].key, handler[r].lib>>
                                 /\ ~Wins(handler[r].items[i], snippets[i])
                                 /\ i \in handler[r].wrote => Upheld(snippets[i], handler[r].items[i])

\* A download holds the caller's rows only and, if nothing was written while it
\* went on, all of its library's, whatever their size.
DownloadIsWhole(r) ==
    handler[r].op = "get" =>
       /\ \A i \in handler[r].ids : snippets[i].owner = handler[r].key
       /\ handler[r].at = "done" /\ quiet[r] =>
             handler[r].ids = InLibrary(handler[r].key, handler[r].lib)

\* Every account has one library that requests without one use.
DefaultStays == \A u \in User : Account(u) => Cardinality(Defaults(u)) = 1

AnswersTrue == /\ Scoped /\ DefaultStays
               /\ \A r \in Handler : AcceptedIsStored(r) /\ DownloadIsWhole(r)

\* db.rs, delete_library tombstones the rows of the library.  The code breaks
\* this: a push that resolved the library before writes into it afterwards.
DeletedStaysEmpty ==
    \A i \in DOMAIN snippets : libraries[snippets[i].lib].deleted => snippets[i].deleted
=============================================================================
