---------------------------- MODULE RateLimiter ----------------------------
(***************************************************************************)
(* Admission of requests to the sync server: the windows of RateLimiter    *)
(* (src/snip-sync/src/rate_limiter.rs) and the budgets spent on them by    *)
(* registration and by authenticated calls (lib.rs).  A call reads the     *)
(* clock, then waits for the mutex: windows may start in the past.         *)
(***************************************************************************)
EXTENDS Integers, FiniteSets

CONSTANTS Request,      \* the requests that arrive, once each
          Peer,         \* the addresses they come from
          MaxRequests,  \* rate_limit_per_minute
          Multiplier,   \* PRE_AUTH_RATE_LIMIT_MULTIPLIER
          Window,       \* length of a window, in ticks
          MaxEntries,   \* windows kept
          MaxTime,      \* last tick; bounds the behaviours
          MaxWait       \* ticks a call waits for the mutex; fewer than Window

ASSUME LimiterAssumption ==
    /\ MaxRequests \in Nat \ {0} /\ Multiplier \in Nat \ {0}
    /\ Window \in Nat \ {0} /\ MaxEntries \in Nat \ {0}
    /\ MaxTime \in Nat /\ MaxWait \in 0..(Window - 1)

VARIABLES clock,
          windows,   \* [keys with a window -> [start, count]]
          oldest,    \* oldest_first: the same windows as <<start, key>>
          request,   \* [Request -> progress]
          grants,    \* history: what was granted, when, and in which window
          evicted    \* history: keys whose window made room for another's

vars == <<clock, windows, oldest, request, grants, evicted>>

Time == 0..MaxTime
Bucket == {"pre-auth", "register", "authenticated"}
Key == [peer : Peer, bucket : Bucket]
WindowEntry == [start : Time, count : Nat]

\* A registration, a call with a key the database does not know, or one it knows.
Kind == {"register", "unknown", "known"}
Progress == [at : {"unsent", "admitted", "refused"} \cup Bucket,
             kind : Kind, peer : Peer, now : Time]

Limit(key) == IF key.bucket = "pre-auth" THEN MaxRequests * Multiplier ELSE MaxRequests

\* Mutant of KeyOf: registrations spend the budget of the authenticated calls.
SharedKeyOf(r) ==
    [peer |-> request[r].peer,
     bucket |-> IF request[r].at = "register" THEN "authenticated" ELSE request[r].at]

KeyOf(r) == [peer |-> request[r].peer, bucket |-> request[r].at]
Waiting(r) == request[r].at \in Bucket

TypeOK == /\ clock \in Time
          /\ DOMAIN windows \subseteq Key
          /\ windows \in [DOMAIN windows -> WindowEntry]
          /\ \A k \in DOMAIN windows : windows[k].count <= Limit(k)
          /\ oldest \subseteq Time \X Key
          /\ request \in [Request -> Progress]
          /\ grants \subseteq [key : Key, at : Time, by : Request, window : Time]
          /\ evicted \subseteq Key

Init == /\ clock = 0
        /\ windows = [k \in {} |-> 0]
        /\ oldest = {}
        /\ request \in [Request -> [at : {"unsent"}, kind : Kind, peer : Peer, now : {0}]]
        /\ grants = {} /\ evicted = {}
---------------------------------------------------------------------------
(* One call of allow *)

Without(f, keys) == [k \in DOMAIN f \ keys |-> f[k]]

With(f, key, entry) == [k \in DOMAIN f \cup {key} |-> IF k = key THEN entry ELSE f[k]]

\* The windows to drop before one is added for `key`: none, or an oldest one.
Evictions(key) ==
    IF key \notin DOMAIN windows /\ Cardinality(DOMAIN windows) >= MaxEntries /\ oldest # {}
    THEN {o \in oldest : \A other \in oldest : o[1] <= other[1]}
    ELSE {}

\* Mutant of EntriesOf: the index keeps the window that was replaced.
NoEntries(key) == {}

\* Mutant of Expired: a window of length zero is not clamped.
ExpiredAtOnce(key, now) == key \in DOMAIN windows /\ now - windows[key].start >= 0

\* A window of `key` that `now` finds at its end, and its entry of the index.
Expired(key, now) == key \in DOMAIN windows /\ now - windows[key].start >= Window
EntriesOf(key) == {<<windows[key].start, key>>}

Opened(now) == [start |-> now, count |-> 0]

\* Mutant of Decide: refused calls are counted too.
DecideCountingRefused(r, out) ==
    LET key   == KeyOf(r)
        fresh == key \notin DOMAIN windows \/ Expired(key, request[r].now)
        entry == IF fresh THEN Opened(request[r].now) ELSE windows[key]
    IN  /\ Waiting(r) /\ out = {}
        /\ windows' = With(windows, key, [entry EXCEPT !.count = @ + 1])
        /\ request' = [request EXCEPT ![r].at = IF entry.count < Limit(key)
                                                THEN "admitted" ELSE "refused"]
        /\ UNCHANGED <<clock, oldest, grants, evicted>>

\* Request `r` holds the mutex; `out` is what is evicted for it.
Decide(r, out) ==
    LET key   == KeyOf(r)
        now   == request[r].now
        kept  == Without(windows, {o[2] : o \in out})
        fresh == key \notin DOMAIN kept \/ Expired(key, now)
        entry == IF fresh THEN Opened(now) ELSE kept[key]
        ok    == entry.count < Limit(key)
    IN  /\ Waiting(r)
        /\ windows' = With(kept, key, IF ok THEN [entry EXCEPT !.count = @ + 1] ELSE entry)
        /\ oldest' = ((oldest \ out) \ (IF Expired(key, now) THEN EntriesOf(key) ELSE {}))
                         \cup (IF fresh THEN {<<now, key>>} ELSE {})
        /\ evicted' = evicted \cup {o[2] : o \in out}
        /\ grants' = IF ok THEN grants \cup {[key |-> key, at |-> clock, by |-> r,
                                              window |-> entry.start]}
                     ELSE grants
        /\ request' = [request EXCEPT ![r].at =
               IF ~ok THEN "refused"
               ELSE IF key.bucket # "pre-auth" THEN "admitted"
               ELSE IF request[r].kind = "known" THEN "authenticated"
               ELSE "refused",
               ![r].now = clock]
        /\ UNCHANGED clock

Allow(r) == LET out == Evictions(KeyOf(r))
            IN  IF out = {} THEN Decide(r, {}) ELSE \E o \in out : Decide(r, {o})

---------------------------------------------------------------------------
(* Requests and time *)

\* The clock is read here, before the mutex is asked for.
Arrive(r) == /\ request[r].at = "unsent"
             /\ request' = [request EXCEPT
                    ![r].at = IF request[r].kind = "register"
                              THEN "register" ELSE "pre-auth",
                    ![r].now = clock]
             /\ UNCHANGED <<clock, windows, oldest, grants, evicted>>

Tick == /\ clock < MaxTime
        /\ \A r \in Request : Waiting(r) => clock - request[r].now < MaxWait
        /\ clock' = clock + 1
        /\ UNCHANGED <<windows, oldest, request, grants, evicted>>

Next == Tick \/ \E r \in Request : Arrive(r) \/ (Waiting(r) /\ Allow(r))

Spec == Init /\ [][Next]_vars
---------------------------------------------------------------------------
(* Properties *)

\* The map and the index that eviction goes by hold the same windows: every path
\* that opens, renews or evicts a window changes both.
IndexAgrees == oldest = {<<windows[k].start, k>> : k \in DOMAIN windows}

\* However many callers there are, no more windows than the limit are kept.
EntriesBounded == Cardinality(DOMAIN windows) <= MaxEntries

\* A caller whose window was never evicted is granted at most twice its limit in any
\* span of a window's length and a tick, less the longest wait for the mutex, and at
\* most three times its limit in a window's length more.  Windows start where a call
\* arrived and not where it was decided: a full window's length may meet three of
\* them, and does once calls wait two ticks.
Granted(key, span) == {g \in grants : g.key = key /\ g.at \in span}
RateBounded ==
    \A key \in Key \ evicted, t \in Time, n \in 1..2 :
        Cardinality(Granted(key, t..(t + n * Window - MaxWait))) <= (n + 1) * Limit(key)

\* A call with a known key is refused after authentication only when calls with
\* known keys have spent its address's budget within the last two windows: neither
\* registrations nor unknown keys take it.
OwnGrants(r) == {g \in grants : /\ g.key = KeyOf(r) /\ request[g.by].kind = "known"
                                /\ g.at > clock - 2 * Window}
RefusedByOwnBudget ==
    [][\A r \in Request :
           request[r].at = "authenticated" /\ request'[r].at = "refused"
           => Cardinality(OwnGrants(r)) >= MaxRequests]_vars

=============================================================================
