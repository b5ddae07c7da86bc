---------------------------- MODULE LibrarySync ----------------------------
(***************************************************************************)
(* One library shared by several devices through the snip-sync server:     *)
(* the server's last-writer-wins upsert and its write sequence, the pages  *)
(* and watermarks of the sync RPC, and the client's cursors, merge and     *)
(* tombstones.                                                             *)
(*                                                                         *)
(* A version of a snippet is its modification time, the device that made   *)
(* it (standing for the content; the order of devices is the order of the  *)
(* fingerprints) and the deletion flag.  The device_id of a snippet is     *)
(* stamped at its creation and never changes, so the device_id comparisons *)
(* of server and client always tie.  The counter behind the sequence also  *)
(* counts stale writes; nothing but the order of the sequences of rows is  *)
(* ever compared, so a row here takes the successor of the greatest one.   *)
(*                                                                         *)
(* Left out: other libraries and users, the creation and re-creation of    *)
(* the server library, a second record with a fresh id after a snippet     *)
(* was delivered by two pages of one exchange.                             *)
(***************************************************************************)
EXTENDS Naturals, FiniteSets, FiniteSetsExt

CONSTANTS
    Devices,        \* the devices of the user, as positive numbers
    Ids,            \* snippet ids, as numbers in their order
    Legacy,         \* devices whose cursor was recorded as a timestamp cursor
    PushOnly,       \* devices whose user runs `snp sync --push-only`
    PullOnly,       \* devices whose user runs `snp sync --pull-only`
    PageSize,       \* rows in a page
    BatchSize,      \* rows in an upload batch
    Faults,         \* "skip", "lost", "abort": what may go wrong in a sync
    Churn,          \* may an identical re-upload be written?
    MaxEdits,       \* bound on the number of local edits
    MaxTime,        \* bound on modification times
    MaxSeq          \* bound on the write sequence

ASSUME ConstantsAssumption ==
    /\ Devices \subseteq Nat \ {0} /\ Devices # {} /\ IsFiniteSet(Devices)
    /\ Ids \subseteq Nat /\ IsFiniteSet(Ids)
    /\ Legacy \subseteq Devices
    /\ PushOnly \subseteq Devices /\ PullOnly \subseteq Devices
    /\ PageSize \in Nat \ {0} /\ BatchSize \in Nat \ {0}
    /\ Churn \in BOOLEAN
    /\ MaxEdits \in Nat /\ MaxTime \in Nat /\ MaxSeq \in Nat

Version == [time: 0..MaxTime, by: Devices \cup {0}, deleted: BOOLEAN]
Absent == [time |-> 0, by |-> 0, deleted |-> FALSE]
Library == [Ids -> Version]
EmptyLibrary == [i \in Ids |-> Absent]

Row == [ver: Version, seq: 0..MaxSeq, stamp: 0..MaxTime]
Cursor == [kind: {"unknown", "timestamp", "sequence"}, seq: Nat, stamp: Nat]

VARIABLES
    copies,     \* the library file of every device
    cursor,     \* its sync cursors in libraries.toml
    session,    \* the sync that runs on a device
    rows,       \* the snippets table of the server
    missed,     \* history: rows a cursor may have passed, see SaveCursor
    buried,     \* history: snippets whose deletion a device has seen
    edits       \* number of local edits, for the bound

vars == <<copies, cursor, session, rows, missed, buried, edits>>

Session == [phase: {"idle", "upload", "page", "answer", "merge", "cursor"},
            dir: {"both", "push", "pull"},
            mine: Library,              \* what is still to upload
            got: [Ids -> SUBSET Version], \* rows received
            read: Nat,                  \* the offset reached
            raced: SUBSET Ids,          \* history: written meanwhile, or discarded
            skipped: BOOLEAN,
            seq: Nat, stamp: Nat]       \* the watermarks answered

NoSession == [phase |-> "idle", dir |-> "both", mine |-> EmptyLibrary,
              got |-> [i \in Ids |-> {}], read |-> 0, raced |-> {},
              skipped |-> FALSE, seq |-> 0, stamp |-> 0]

TypeOK ==
    /\ copies \in [Devices -> Library]
    /\ cursor \in [Devices -> Cursor]
    /\ session \in [Devices -> Session]
    /\ rows \in [Ids -> Row]
    /\ missed \in [Devices -> SUBSET Ids]
    /\ buried \in [Devices -> SUBSET Ids]
    /\ edits \in 0..MaxEdits

Init ==
    /\ copies = [d \in Devices |-> EmptyLibrary]
    /\ cursor = [d \in Devices |->
                   [kind |-> IF d \in Legacy THEN "timestamp" ELSE "unknown",
                    seq |-> 0, stamp |-> 0]]
    /\ session = [d \in Devices |-> NoSession]
    /\ rows = [i \in Ids |-> [ver |-> Absent, seq |-> 0, stamp |-> 0]]
    /\ missed = [d \in Devices |-> {}]
    /\ buried = [d \in Devices |-> {}]
    /\ edits = 0

-----------------------------------------------------------------------------
(* Local commands, which may run at any time between the steps of a sync.   *)
(* Clocks of devices differ: an edit only moves the time of its own copy.   *)

Put(d, i, v) ==
    /\ copies' = [copies EXCEPT ![d][i] = v]
    /\ buried' = IF v.deleted THEN [buried EXCEPT ![d] = @ \cup {i}] ELSE buried
    /\ edits < MaxEdits /\ edits' = edits + 1
    /\ UNCHANGED <<cursor, session, rows, missed>>

Create(d, i, t) ==
    /\ rows[i].ver = Absent
    /\ \A e \in Devices : copies[e][i] = Absent
    /\ Put(d, i, [time |-> t, by |-> d, deleted |-> FALSE])

Live(v) == v # Absent /\ ~v.deleted

Edit(d, i, t) ==
    /\ Live(copies[d][i])
    /\ t > copies[d][i].time
    /\ Put(d, i, [time |-> t, by |-> d, deleted |-> FALSE])

Delete(d, i, t) ==
    /\ Live(copies[d][i])
    /\ t > copies[d][i].time
    /\ Put(d, i, [copies[d][i] EXCEPT !.time = t, !.deleted = TRUE])

-----------------------------------------------------------------------------
(* The server. *)

Larger(a, b) == IF a < b THEN b ELSE a
TopSeq == Max({rows[i].seq : i \in Ids} \cup {0})
TopStamp == Max({rows[i].stamp : i \in Ids} \cup {0})

(* upsert_snippet_in_tx: a later modification wins.  At equal times the     *)
(* ciphertexts are compared, and these are random: either may win, even     *)
(* between two encryptions of the same snippet.                             *)
Later(B, mine) == {i \in B : mine[i].time > rows[i].ver.time}
Tied(B, mine) == {i \in B : /\ mine[i].time = rows[i].ver.time
                            /\ Churn \/ mine[i] # rows[i].ver}

(* The rows after the batch has been written in the order of its ids; a     *)
(* row becomes visible no lower than the timestamp watermark it found.      *)
Upserted(W, mine) ==
    [i \in Ids |->
        IF i \in W
        THEN LET before == {j \in W : j <= i}
             IN [ver |-> mine[i],
                 seq |-> TopSeq + Cardinality(before),
                 stamp |-> Max({TopStamp} \cup {mine[j].time : j \in before})]
        ELSE rows[i]]

(* The cursors a device sends with its request. *)
Request(d, pulls) ==
    LET c == cursor[d]
    IN IF c.kind = "unknown" /\ pulls THEN [seq |-> 0, stamp |-> 0]
       ELSE IF c.kind = "sequence" THEN [seq |-> c.seq, stamp |-> c.stamp]
       ELSE [seq |-> 0, stamp |-> c.stamp]

(* Mutant: the sequence filter is exclusive. *)
DeltaExclusive(req) ==
    {i \in Ids : /\ rows[i].ver # Absent
                 /\ IF req.seq # 0 THEN rows[i].seq > req.seq
                    ELSE rows[i].stamp >= req.stamp}

(* DeltaCursor: the inclusive filter of the request. *)
Delta(req) ==
    {i \in Ids : /\ rows[i].ver # Absent
                 /\ IF req.seq # 0 THEN rows[i].seq >= req.seq
                    ELSE rows[i].stamp >= req.stamp}

(* Position of a row in a listing by descending modification time and id.   *)
Before(j, i) == \/ rows[j].ver.time > rows[i].ver.time
                \/ rows[j].ver.time = rows[i].ver.time /\ j > i
Position(i, range) == Cardinality({j \in range : Before(j, i)})

-----------------------------------------------------------------------------
(* One sync of a device. *)

Directions(d) == {"both"} \cup (IF d \in PushOnly THEN {"push"} ELSE {})
                          \cup (IF d \in PullOnly THEN {"pull"} ELSE {})

Fault(f) == f \in Faults

SetSession(d, s) == session' = [session EXCEPT ![d] = s]

(* The library is loaded and encrypted; snippets that fail to encrypt, or   *)
(* that the server refuses, are skipped.                                    *)
BeginSync(d, dir) ==
    /\ session[d].phase = "idle"
    /\ LET all == {i \in Ids : copies[d][i] # Absent}
       IN \E bad \in IF Fault("skip") THEN SUBSET all ELSE {{}} :
            /\ dir = "push" => all # {}
            /\ dir = "pull" => bad = {}
            /\ SetSession(d, [NoSession EXCEPT
                    !.phase = IF dir = "pull" \/ bad = all THEN "page" ELSE "upload",
                    !.dir = dir, !.skipped = bad # {},
                    !.mine = [i \in Ids |-> IF dir = "pull" \/ i \in bad THEN Absent
                                            ELSE copies[d][i]]])
    /\ UNCHANGED <<copies, cursor, rows, missed, buried, edits>>

(* A batch is the first rows of what is left, in the order of their ids. *)
Batch(d) ==
    LET left == {i \in Ids : session[d].mine[i] # Absent}
    IN {i \in left : Cardinality({j \in left : j < i}) < BatchSize}

(* A device has received a page and not yet the watermarks. *)
Reading(e) == \/ session[e].phase = "answer"
              \/ session[e].phase = "page" /\ session[e].read > 0

Uploaded(s, B) ==
    LET left == [i \in Ids |-> IF i \in B THEN Absent ELSE s.mine[i]]
    IN [s EXCEPT !.mine = left,
                 !.phase = IF left = EmptyLibrary THEN "page" ELSE "upload"]

(* One transaction of push_snippets or sync writes a batch; W is what it    *)
(* writes of it.  A client that loses the answer sends the batch again.     *)
WriteBatch(d, W) ==
    /\ session[d].phase = "upload"
    /\ LET s == session[d]
           B == Batch(d)
       IN /\ Later(B, s.mine) \subseteq W
          /\ W \subseteq Later(B, s.mine) \cup Tied(B, s.mine)
          /\ TopSeq + Cardinality(W) <= MaxSeq
          /\ rows' = Upserted(W, s.mine)
          /\ \E next \in {Uploaded(s, B)} \cup (IF Fault("lost") THEN {s} ELSE {}) :
                session' = [e \in Devices |->
                    IF e = d THEN next
                    ELSE IF Reading(e) THEN [session[e] EXCEPT !.raced = @ \cup W]
                    ELSE session[e]]
    /\ UNCHANGED <<copies, cursor, missed, buried, edits>>

Upload(d) == \E W \in SUBSET Batch(d) : WriteBatch(d, W)

(* get_snippets_page at the offset reached; rows that cannot be decrypted   *)
(* are skipped, and a push-only sync discards all.  A row another device    *)
(* wrote since the exchange began is no longer raced when its new version   *)
(* is the only one read; a page read earlier may have held an older one,    *)
(* and the merge then takes both.  The last page is followed by the         *)
(* watermarks.                                                              *)
ReadPage(d) ==
    /\ session[d].phase = "page"
    /\ LET s == session[d]
           range == Delta(Request(d, s.dir # "push"))
           page == {i \in range : Position(i, range) \in s.read..(s.read + PageSize - 1)}
           more == Cardinality(range) > s.read + PageSize
       IN \E bad \in IF Fault("skip") THEN SUBSET page ELSE {{}} :
            SetSession(d, [s EXCEPT
                !.got = [i \in Ids |-> IF i \in page \ bad /\ s.dir # "push"
                                       THEN @[i] \cup {rows[i].ver} ELSE @[i]],
                !.read = IF more THEN @ + Cardinality(page) ELSE 0,
                !.raced = IF s.dir = "push" THEN @ \cup page
                          ELSE @ \ {i \in page \ bad : s.got[i] = {}},
                !.phase = IF more THEN "page" ELSE "answer",
                !.skipped = @ \/ bad # {}])
    /\ UNCHANGED <<copies, cursor, rows, missed, buried, edits>>

(* The watermarks are read after the page, in transactions of their own.    *)
(* A timestamp delta is answered without a sequence.                        *)
Answer(d) ==
    /\ session[d].phase = "answer"
    /\ LET s == session[d]
           req == Request(d, s.dir # "push")
       IN SetSession(d, [s EXCEPT
              !.seq = IF req.seq # 0 \/ req.stamp = 0 THEN Larger(TopSeq, 1) ELSE 0,
              !.stamp = TopStamp,
              !.phase = IF s.dir = "push" THEN "cursor" ELSE "merge"])
    /\ UNCHANGED <<copies, cursor, rows, missed, buried, edits>>

(* choose_version for two live versions. *)
Beats(r, c) == r.time > c.time \/ (r.time = c.time /\ r.by > c.by)

(* Mutant: a local tombstone does not take the later time of a live row. *)
MergedKeepingTime(c, r) ==
    IF c = Absent THEN (IF r.deleted THEN Absent ELSE r)
    ELSE IF c.deleted /\ r.deleted THEN Absent
    ELSE IF c.deleted THEN c
    ELSE IF r.deleted
    THEN [c EXCEPT !.time = Larger(c.time, r.time), !.deleted = TRUE]
    ELSE IF Beats(r, c) THEN r ELSE c

(* merge_snippets for one local copy and one received row: a deletion wins  *)
(* and takes the later time, two tombstones retire the record, and a        *)
(* tombstone of an unknown snippet is dropped.                              *)
Merged(c, r) ==
    IF c = Absent THEN (IF r.deleted THEN Absent ELSE r)
    ELSE IF c.deleted /\ r.deleted THEN Absent
    ELSE IF c.deleted \/ r.deleted
    THEN [c EXCEPT !.time = Larger(c.time, r.time), !.deleted = TRUE]
    ELSE IF Beats(r, c) THEN r ELSE c

(* What the library holds for a snippet after the merge with all received   *)
(* rows of it: the latest, which the file lists first.                      *)
MergedAll(c, got) ==
    LET kept == {Merged(c, r) : r \in got} \ {Absent}
    IN IF got = {} THEN {c}
       ELSE IF kept = {} THEN {Absent}
       ELSE {v \in kept : \A w \in kept : v.time >= w.time}

(* merge_and_save, with the library as it is by now. *)
Merge(d) ==
    /\ session[d].phase = "merge"
    /\ \E lib \in [Ids -> UNION {MergedAll(copies[d][i], session[d].got[i]) : i \in Ids}] :
          /\ \A i \in Ids : lib[i] \in MergedAll(copies[d][i], session[d].got[i])
          /\ copies' = [copies EXCEPT ![d] = lib]
          /\ buried' = [buried EXCEPT ![d] = @ \cup {i \in Ids : lib[i].deleted}]
    /\ missed' = [missed EXCEPT ![d] = {i \in @ : session[d].got[i] = {}}]
    /\ SetSession(d, [session[d] EXCEPT !.phase = "cursor", !.got = NoSession.got])
    /\ UNCHANGED <<cursor, rows, edits>>

(* apply_server_sequence. *)
Applied(c, s) ==
    IF s.dir = "push" THEN [c EXCEPT !.stamp = s.stamp]
    ELSE IF c.kind = "timestamp" THEN [c EXCEPT !.stamp = s.stamp]
    ELSE IF s.seq # 0
    THEN [kind |-> "sequence", seq |-> s.seq, stamp |-> s.stamp]
    ELSE [kind |-> "timestamp", seq |-> IF c.kind = "sequence" THEN 0 ELSE c.seq,
          stamp |-> s.stamp]

(* Mutant: the cursor advances over skipped records. *)
SaveAnyCursor(d) ==
    /\ session[d].phase = "cursor"
    /\ LET s == session[d]
       IN /\ cursor' = [cursor EXCEPT ![d] = Applied(@, s)]
          /\ missed' = IF s.dir = "push" /\ cursor[d].kind # "timestamp"
                       THEN missed ELSE [missed EXCEPT ![d] = @ \cup s.raced]
    /\ SetSession(d, NoSession)
    /\ UNCHANGED <<copies, rows, buried, edits>>

(* update_sync_cursors, unless a record was skipped; the end of the sync.   *)
(* missed takes what others wrote while pages were read, and what a         *)
(* push-only sync discarded while it advances a timestamp cursor.           *)
SaveCursor(d) ==
    /\ session[d].phase = "cursor"
    /\ LET s == session[d]
       IN IF s.skipped THEN UNCHANGED <<cursor, missed>>
          ELSE /\ cursor' = [cursor EXCEPT ![d] = Applied(@, s)]
               /\ missed' = IF s.dir = "push" /\ cursor[d].kind # "timestamp"
                            THEN missed ELSE [missed EXCEPT ![d] = @ \cup s.raced]
    /\ SetSession(d, NoSession)
    /\ UNCHANGED <<copies, rows, buried, edits>>

(* A request fails for good, or the process dies. *)
Abort(d) ==
    /\ Fault("abort")
    /\ session[d].phase # "idle"
    /\ SetSession(d, NoSession)
    /\ UNCHANGED <<copies, cursor, rows, missed, buried, edits>>

SyncStep(d) ==
    Upload(d) \/ ReadPage(d) \/ Answer(d) \/ Merge(d) \/ SaveCursor(d)

Next ==
    \E d \in Devices :
        \/ \E i \in Ids, t \in 1..MaxTime : Create(d, i, t) \/ Edit(d, i, t) \/ Delete(d, i, t)
        \/ \E dir \in Directions(d) : BeginSync(d, dir)
        \/ SyncStep(d)
        \/ Abort(d)

Spec == Init /\ [][Next]_vars

-----------------------------------------------------------------------------
(* Properties. *)

(* A device holds what a row of the server says, or something that wins     *)
(* over it: it needs not be told of this row again.                         *)
Covered(c, r) ==
    IF r.deleted THEN ~Live(c)
    ELSE c # Absent /\ (c.deleted \/ ~Beats(r, c))

(* The rows that the next pull of a device will not be sent. *)
Passed(d) == {i \in Ids : rows[i].ver # Absent} \ Delta(Request(d, TRUE))

(* sync_commands.rs and db.rs, the cursor protocol: a device's cursor passes *)
(* over a row only when the device holds what the row says.  The only rows   *)
(* for which this may fail are those another device wrote between the first  *)
(* page and the watermarks of one exchange, not received or received in two  *)
(* versions of which a live one wins over a later deletion, and those a      *)
(* push-only sync on the timestamp path discarded (a limitation              *)
(* sync.md:402-416 documents).                                               *)
PassedRowsCovered ==
    \A d \in Devices : \A i \in Passed(d) \ missed[d] :
        Covered(copies[d][i], rows[i].ver)

(* The same without the exception: db.rs:917-918 says of the watermark that  *)
(* it "never moves backwards and never skips a row".                         *)
NoRowSkipped ==
    \A d \in Devices : \A i \in Passed(d) : Covered(copies[d][i], rows[i].ver)

(* sync.md:865, "Deletion always wins. No code path resurrects a deleted     *)
(* snippet": a snippet whose deletion a device has seen is not live there    *)
(* again.                                                                    *)
NoResurrection ==
    \A d \in Devices : \A i \in buried[d] : ~Live(copies[d][i])

-----------------------------------------------------------------------------
(* Liveness.  Every device goes on to sync in both directions, whatever its *)
(* user pushes or pulls only in between; when two versions of the same time *)
(* meet, the random order of their ciphertexts does not always favour the   *)
(* one the server has.                                                      *)

TieGoesToUpload(d) ==
    LET B == Batch(d)
        mine == session[d].mine
    IN Tied(B, mine) # {} /\ WriteBatch(d, Later(B, mine) \cup Tied(B, mine))

Fairness ==
    \A d \in Devices :
        /\ SF_vars(BeginSync(d, "both"))
        /\ WF_vars(SyncStep(d))
        /\ SF_vars(TieGoesToUpload(d))

FairSpec == Spec /\ Fairness

(* What `snp list` shows of a library. *)
Shown(d) == [i \in Ids |-> IF Live(copies[d][i]) THEN copies[d][i] ELSE Absent]

(* USER_GUIDE.md:495: once nobody edits any more, devices that keep syncing, *)
(* one at a time, show the same library, whatever they edited and deleted    *)
(* concurrently before.  (Syncs that overlap for ever may go on to take a    *)
(* row from each other by luck.)  Behaviours that reach the bound on the     *)
(* sequence are left out.                                                    *)
OneAtATime == \A d, e \in Devices :
                 session[d].phase # "idle" /\ session[e].phase # "idle" => d = e

Convergence ==
    [](TopSeq < MaxSeq) /\ <>[]OneAtATime
    => <>[](\A d, e \in Devices : Shown(d) = Shown(e))
=============================================================================
