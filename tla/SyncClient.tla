----------------------------- MODULE SyncClient -----------------------------
(***************************************************************************)
(* One call of the sync client (src/src/sync.rs): the exchange of a        *)
(* library, batched and paged, a registration, or a download.  Every       *)
(* request but a registration goes through one retry policy with backoff;  *)
(* an automatic sync also has a deadline.  A request or its answer can be  *)
(* lost, and the server can refuse single records.  What an exchange means *)
(* for the cursors and the merge is LibrarySync.                           *)
(***************************************************************************)
EXTENDS Integers, SequencesExt, FiniteSetsExt

CONSTANTS OwnRows,    \* the client's snippets
          Others,     \* the rows of other devices
          Ceiling,    \* of a request, in the unit of the sizes
          PageSize, MaxPages,
          MaxRetries, MaxDelay,
          Deadline,   \* of an automatic sync
          MaxClock    \* bound

ASSUME CallAssumption == Deadline \in Nat /\ OwnRows \subseteq Nat /\ IsFiniteSet(Others)

VARIABLES call,     \* what is called, with what
          client,   \* how far the call is
          remote,   \* rows in the order of their writes, accounts
          elapsed

clientVars == <<call, client, remote, elapsed>>

Calls == {"sync", "register", "download"}
Sending == {"send", "flight", "sleep"}
Ended == {"ok", "failed"}
Sealed(ids) == SetToSortSeq(ids, LAMBDA a, b : a < b)

ClientTypeOK ==
    /\ call.op \in Calls /\ call.limited \in BOOLEAN
    /\ client.at \in {"encrypt"} \cup Sending \cup Ended
    /\ client.attempt \in 0..MaxRetries /\ client.pages \in 0..(MaxPages + 1)
    /\ Range(remote.rows) \subseteq OwnRows \cup Others /\ elapsed \in 0..MaxClock

\* An exchange of some snippets, each of a size, some refused by the server; a
\* server whose pages never end.
ClientInit ==
    /\ \E limited, endless \in BOOLEAN, own \in SUBSET OwnRows,
          refused \in SUBSET OwnRows, garbled \in SUBSET Others :
         /\ refused \subseteq own /\ (endless => own = {} /\ garbled = {})
         /\ \E op \in Calls, size \in [own -> 1..(Ceiling + 1)] :
              /\ op # "sync" => own = {} /\ ~endless /\ garbled = {}
              /\ call = [op |-> op, limited |-> limited /\ op = "sync", size |-> size,
                         refused |-> refused, garbled |-> garbled, endless |-> endless]
    /\ client = [at |-> IF call.op = "sync" THEN "encrypt" ELSE "send", todo |-> DOMAIN call.size,
                 sealed |-> {}, batches |-> <<>>, next |-> 1, attempt |-> 0, delay |-> 2,
                 wake |-> 0, pages |-> 0, offset |-> 0, got |-> <<>>, skipped |-> <<>>,
                 rejected |-> 0, error |-> "none"]
    /\ remote = [rows |-> SetToSeq(Others), accounts |-> 0]
    /\ elapsed = 0

PastDeadline == call.limited /\ elapsed >= Deadline
Fails(error) == client' = [client EXCEPT !.at = "failed", !.error = error]
---------------------------------------------------------------------------
(* Before the first request *)

\* encrypt_snippets_with: the budget is checked before each snippet.
EncryptNext ==
    /\ client.at = "encrypt" /\ client.todo # {}
    /\ IF PastDeadline THEN Fails("timeout")
       ELSE \E done \in BOOLEAN :
              LET s == Min(client.todo)
              IN client' = [client EXCEPT !.todo = @ \ {s},
                                          !.sealed = IF done THEN @ \cup {s} ELSE @,
                                          !.skipped = IF done THEN @ ELSE Append(@, s)]
    /\ UNCHANGED <<call, remote, elapsed>>

\* build_upload_batches: a batch takes what fits.
Packed(ids) ==
    FoldLeft(LAMBDA bs, s :
               IF bs # <<>> /\ FoldSet(LAMBDA x, y : call.size[x] + y, 0, Last(bs))
                                 + call.size[s] <= Ceiling
               THEN [bs EXCEPT ![Len(bs)] = @ \cup {s}] ELSE Append(bs, {s}),
             <<>>, Sealed(ids))

\* A snippet over the ceiling fails the call before anything is sent.
Build ==
    /\ client.at = "encrypt" /\ client.todo = {}
    /\ IF \E s \in client.sealed : call.size[s] > Ceiling THEN Fails("too large")
       ELSE client' = [client EXCEPT !.at = "send", !.batches = Packed(client.sealed)]
    /\ UNCHANGED <<call, remote, elapsed>>
---------------------------------------------------------------------------
(* Requests *)

\* Several batches are pushed, one after the other; a single one goes with the
\* request for the first page.
Pushing == client.next <= Len(client.batches) /\ Len(client.batches) > 1
Upload == IF client.next <= Len(client.batches) THEN client.batches[client.next] ELSE {}

\* The attempt starts with what is left of the deadline.
Send == /\ client.at = "send"
        /\ IF PastDeadline THEN Fails("timeout") ELSE client' = [client EXCEPT !.at = "flight"]
        /\ UNCHANGED <<call, remote, elapsed>>

\* upsert_snippets; register
Accepted(ids) == SelectSeq(Sealed(ids), LAMBDA s : s \notin call.refused \cup Range(remote.rows))
Serves == remote' = [rows |-> remote.rows \o Accepted(Upload),
                     accounts |-> remote.accounts + (IF call.op = "register" THEN 1 ELSE 0)]

\* A page of the rows after the upload; a server whose pages do not end.
PageOf(rows) == IF call.endless THEN <<rows[1]>>
              ELSE SubSeq(rows, client.offset + 1, Min({client.offset + PageSize, Len(rows)}))
More(rows) == call.endless \/ client.offset + PageSize < Len(rows)

\* Mutant of Pushed: what a batch lost is not counted.
PushedSilently(c) == [c EXCEPT !.next = @ + 1, !.at = "send", !.attempt = 0, !.delay = 2]
\* push_snippets_batch: refused records come as a count.
Pushed(c) == [c EXCEPT !.next = @ + 1, !.at = "send", !.attempt = 0, !.delay = 2,
                       !.rejected = @ + Cardinality(Upload \cap call.refused)]

\* decrypt_snippet: a row that cannot be read is skipped by name.
Opens(r) == r \notin call.garbled

\* accumulate_page, paginate_remaining, build_sync_response
Read(c, rows) ==
    LET page == PageOf(rows)
        d == [c EXCEPT !.got = @ \o SelectSeq(page, Opens), !.pages = @ + 1, !.attempt = 0,
                       !.delay = 2,
                       !.skipped = @ \o Sealed(Upload \cap call.refused)
                                     \o SelectSeq(page, LAMBDA r : ~Opens(r)),
                       !.next = Len(c.batches) + 1]
    IN CASE ~More(rows) \/ page = <<>> -> [d EXCEPT !.at = "ok"]
         [] OTHER -> IF d.pages > MaxPages THEN [d EXCEPT !.at = "failed", !.error = "endless"]
                     ELSE [d EXCEPT !.at = "send", !.offset = @ + Len(page)]

Answered ==
    /\ client.at = "flight" /\ Serves
    /\ client' = CASE call.op # "sync" -> [client EXCEPT !.at = "ok"]
                   [] call.op = "sync" /\ Pushing -> Pushed(client)
                   [] OTHER -> Read(client, remote'.rows)
    /\ UNCHANGED <<call, elapsed>>

\* is_retryable_grpc_error: a verdict is final, anything else may pass.
Refuse == /\ client.at = "flight" /\ Fails("refused")
          /\ UNCHANGED <<call, remote, elapsed>>

\* The jitter multiplies the delay by one half to one and a half.
Jittered(delay) == ((delay + 1) \div 2)..((3 * delay - 1) \div 2)
NextDelay(limit) ==
    IF limit /\ ~Pushing THEN client.delay * 4 ELSE Min({client.delay * 2, MaxDelay})

\* Mutant of Backoff: sleeps as long as the policy says.
BackoffPastDeadline(limit) ==
    \E d \in Jittered(client.delay) :
       client' = [client EXCEPT !.at = "sleep",
                                !.wake = IF call.limited THEN elapsed + d ELSE elapsed,
                                !.delay = NextDelay(limit), !.attempt = @ + 1]
\* The backoff of an automatic sync must end before its deadline.
Backoff(limit) ==
    \E d \in Jittered(client.delay) :
       IF call.limited /\ Deadline - elapsed <= d THEN Fails("timeout")
       ELSE client' = [client EXCEPT !.at = "sleep", !.delay = NextDelay(limit), !.attempt = @ + 1,
                                     !.wake = IF call.limited THEN elapsed + d ELSE elapsed]

\* Mutant of Retries: a registration as well.
RetriesAll == client.attempt < MaxRetries
\* A registration cannot be repeated: it has no key to recognise it by.
Retries == call.op # "register" /\ client.attempt < MaxRetries

\* The request fails or is refused for its rate; or its answer is lost.
Fault ==
    /\ client.at = "flight"
    /\ \E served, limit \in BOOLEAN :
         /\ ~(served /\ limit)
         /\ IF served THEN Serves ELSE UNCHANGED remote
         /\ IF Retries THEN Backoff(limit) ELSE Fails("transient")
    /\ UNCHANGED <<call, elapsed>>

\* tokio::time::timeout: the server may have got the request.
Expire == /\ client.at = "flight" /\ PastDeadline /\ Fails("timeout")
          /\ (Serves \/ UNCHANGED remote) /\ UNCHANGED <<call, elapsed>>

Wake == /\ client.at = "sleep" /\ elapsed = client.wake
        /\ client' = [client EXCEPT !.at = "send"] /\ UNCHANGED <<call, remote, elapsed>>

\* Time passes while a snippet is encrypted, a request is under way, or the
\* client sleeps; a timer that is due fires first.
Elapse == /\ call.limited /\ elapsed < MaxClock
          /\ \/ client.at = "encrypt"
             \/ client.at = "flight" /\ ~PastDeadline
             \/ client.at = "sleep" /\ elapsed < client.wake
          /\ elapsed' = elapsed + 1 /\ UNCHANGED <<call, client, remote>>

ClientNext == \/ EncryptNext \/ Build \/ Send \/ Answered \/ Refuse \/ Fault \/ Expire
              \/ Wake \/ Elapse
ClientSpec == ClientInit /\ [][ClientNext]_clientVars
---------------------------------------------------------------------------
\* build_sync_response, accumulate_page, push_snippets_batch: a call that
\* succeeds accounts for every record, whatever was lost and sent again: what
\* the server does not hold is skipped by name or counted, what it holds was
\* received or is skipped.  A call refused for a size has sent nothing, and a
\* registration leaves one account at most.
RecordsAccounted ==
    call.op = "sync" /\ client.at = "ok" =>
       /\ Cardinality(DOMAIN call.size \ (Range(remote.rows) \cup Range(client.skipped)))
            = client.rejected
       /\ Range(remote.rows) \subseteq Range(client.got) \cup Range(client.skipped)
NothingSentTooLarge == client.error = "too large" => Range(remote.rows) = Others
OneAccount ==
    remote.accounts <= 1 /\ (call.op = "register" /\ client.at = "ok" => remote.accounts = 1)

NothingUnaccounted == RecordsAccounted /\ NothingSentTooLarge /\ OneAccount

\* retry_grpc_unified: an automatic sync waits for nothing beyond its deadline.
KeepsItsDeadline == call.limited /\ client.at \in {"flight", "sleep"} => elapsed <= Deadline
=============================================================================
