------------------------- MODULE RateLimiterProofs -------------------------
(***************************************************************************)
(* What RateLimiter guarantees for every limit and every number of         *)
(* callers: the index agrees with the windows; then, from the history of   *)
(* grants, how many calls an address gets through in a span of time.       *)
(***************************************************************************)
EXTENDS RateLimiter, FiniteSetTheorems, WellFoundedInduction, TLAPS

\* The index agrees with the windows, and these are finitely many: so a full map
\* always has an oldest window in the index to make room with.
Sound == /\ IsFiniteSet(DOMAIN windows)
         /\ \A k \in DOMAIN windows : windows[k].start \in Nat
         /\ request \in [Request -> Progress]
         /\ clock \in Time
IInv == Sound /\ IndexAgrees /\ EntriesBounded

\* A set of naturals that is not empty has a least element.
LEMMA LeastElement == ASSUME NEW S \in SUBSET Nat, S # {} PROVE \E n \in S : \A m \in S : n <= m
<1> DEFINE less == {ss \in Nat \X Nat : ss[1] < ss[2]}
<1>1. OpToRel(<, Nat) = less
  BY DEF OpToRel
<1>2. IsWellFoundedOn(less, Nat)
  BY <1>1, NatLessThanWellFounded
<1>3. PICK n \in S : \A m \in S : ~(<<m, n>> \in less)
  BY <1>2, WFMin, Zenon
<1>4. ASSUME NEW m \in S PROVE n <= m
  <2>1. m \in Nat /\ n \in Nat /\ ~(<<m, n>> \in less)
    BY <1>3
  <2> QED
    BY <2>1
<1> QED
  BY <1>4

\* The index after a call is that of the windows after it.
LEMMA DecideKeepsIndex ==
    ASSUME IInv, NEW r \in Request, NEW out, Decide(r, out),
           out = {} \/ \E o \in Evictions(KeyOf(r)) : out = {o}
    PROVE  IndexAgrees'
<1> DEFINE key   == KeyOf(r)
           now   == request[r].now
           kept  == Without(windows, {o[2] : o \in out})
           fresh == key \notin DOMAIN kept \/ Expired(key, now)
<1>1. \A k \in DOMAIN kept : k \in DOMAIN windows /\ kept[k] = windows[k]
  BY DEF Without
<1>2. DOMAIN windows' = DOMAIN kept \cup {key}
  BY DEF Decide, With
<1>3. \A k \in DOMAIN kept : k # key => windows'[k] = kept[k]
  BY DEF Decide, With
<1>4. windows'[key].start = IF fresh THEN now ELSE windows[key].start
  BY <1>1 DEF Decide, With, Opened
<1>5. out # {} => key \notin DOMAIN windows
  BY DEF Evictions
<1>6. oldest \ out = {<<kept[k].start, k>> : k \in DOMAIN kept}
  <2>1. CASE out = {}
    BY <2>1 DEF Without, IInv, IndexAgrees
  <2>2. ASSUME NEW o \in Evictions(key), out = {o} PROVE oldest \ out = {<<kept[k].start, k>> : k \in DOMAIN kept}
    <3>1. o \in oldest
      BY DEF Evictions
    <3>2. PICK e \in DOMAIN windows : o = <<windows[e].start, e>>
      BY <3>1 DEF IInv, IndexAgrees
    <3>3. DOMAIN kept = DOMAIN windows \ {e}
      BY <2>2, <3>2 DEF Without
    <3>4. oldest = {<<windows[k].start, k>> : k \in DOMAIN windows}
      BY DEF IInv, IndexAgrees
    <3>5. \A k \in DOMAIN windows : <<windows[k].start, k>> = o <=> k = e
      BY <3>2
    <3>6. \A k \in DOMAIN kept : kept[k].start = windows[k].start
      BY <1>1
    <3> HIDE DEF kept
    <3> QED
      BY <2>2, <3>3, <3>4, <3>5, <3>6
  <2> QED
    BY <2>1, <2>2
<1>7. oldest' = ((oldest \ out) \ (IF Expired(key, now) THEN EntriesOf(key) ELSE {}))
                    \cup (IF fresh THEN {<<now, key>>} ELSE {})
  BY DEF Decide
<1>8. CASE Expired(key, now)
  <2>1. key \in DOMAIN windows /\ out = {} /\ fresh
    BY <1>5, <1>8 DEF Expired
  <2>2. DOMAIN kept = DOMAIN windows
    BY <2>1 DEF Without
  <2>3. oldest' = ({<<windows[k].start, k>> : k \in DOMAIN windows} \ {<<windows[key].start, key>>})
                      \cup {<<now, key>>}
    BY <1>7, <1>8, <2>1 DEF EntriesOf, IInv, IndexAgrees
  <2>4. \A k \in DOMAIN windows : k # key => windows'[k].start = windows[k].start
    BY <1>1, <1>3, <2>2
  <2>5. windows'[key].start = now /\ DOMAIN windows' = DOMAIN windows
    BY <1>2, <1>4, <2>1, <2>2
  <2> HIDE DEF key, now
  <2> QED
    BY <2>1, <2>3, <2>4, <2>5 DEF IndexAgrees
<1>9. CASE ~Expired(key, now) /\ key \notin DOMAIN kept
  <2>1. oldest' = {<<kept[k].start, k>> : k \in DOMAIN kept} \cup {<<now, key>>}
    BY <1>6, <1>7, <1>9
  <2>2. windows'[key].start = now
    BY <1>4, <1>9
  <2>3. \A k \in DOMAIN kept : windows'[k].start = kept[k].start
    BY <1>3, <1>9
  <2> HIDE DEF kept, key, now
  <2> QED
    BY <1>2, <2>1, <2>2, <2>3 DEF IndexAgrees
<1>10. CASE ~Expired(key, now) /\ key \in DOMAIN kept
  <2>1. oldest' = {<<kept[k].start, k>> : k \in DOMAIN kept}
    BY <1>6, <1>7, <1>10
  <2>2. \A k \in DOMAIN kept : windows'[k].start = kept[k].start
    BY <1>1, <1>3, <1>4, <1>10
  <2>3. DOMAIN windows' = DOMAIN kept
    BY <1>2, <1>10
  <2> HIDE DEF kept
  <2> QED
    BY <2>1, <2>2, <2>3 DEF IndexAgrees
<1> QED
  BY <1>8, <1>9, <1>10

\* A call leaves no more windows than the limit.
LEMMA DecideKeepsBound ==
    ASSUME IInv, NEW r \in Request, NEW out, Decide(r, out),
           \/ out = {} /\ Evictions(KeyOf(r)) = {}
           \/ \E o \in Evictions(KeyOf(r)) : out = {o}
    PROVE  IsFiniteSet(DOMAIN windows') /\ EntriesBounded'
<1> DEFINE key  == KeyOf(r)
           kept == Without(windows, {o[2] : o \in out})
<1>1. DOMAIN windows' = DOMAIN kept \cup {key}
  BY DEF Decide, With
<1>2. DOMAIN kept = DOMAIN windows \ {o[2] : o \in out}
  BY DEF Without
<1>3. IsFiniteSet(DOMAIN windows) /\ Cardinality(DOMAIN windows) \in Nat
  BY FS_CardinalityType DEF IInv, Sound
<1>4. Cardinality(DOMAIN windows) <= MaxEntries
  BY DEF IInv, EntriesBounded
<1>5. CASE key \in DOMAIN windows
  <2>1. out = {}
    BY <1>5 DEF Evictions
  <2>2. DOMAIN windows' = DOMAIN windows
    BY <1>1, <1>2, <1>5, <2>1
  <2> QED
    BY <1>3, <1>4, <2>2 DEF EntriesBounded
<1>6. CASE key \notin DOMAIN windows /\ out = {}
  <2>1. Evictions(key) = {}
    BY <1>6
  <2>2. Cardinality(DOMAIN windows) < MaxEntries
    <3>1. SUFFICES ASSUME Cardinality(DOMAIN windows) >= MaxEntries PROVE FALSE
      BY <1>3, <1>4, LimiterAssumption
    <3>2. DOMAIN windows # {}
      BY <3>1, FS_EmptySet, LimiterAssumption
    <3>3. oldest # {}
      BY <3>2 DEF IInv, IndexAgrees
    <3>4. \E o \in oldest : \A other \in oldest : o[1] <= other[1]
      <4> DEFINE starts == {windows[k].start : k \in DOMAIN windows}
      <4>1. starts # {} /\ starts \subseteq Nat
        BY <3>2 DEF IInv, Sound
      <4>2. PICK n \in starts : \A m \in starts : n <= m
        BY <4>1, LeastElement
      <4>3. PICK k \in DOMAIN windows : windows[k].start = n
        OBVIOUS
      <4>4. <<n, k>> \in oldest
        BY <4>3 DEF IInv, IndexAgrees
      <4>5. \A other \in oldest : other[1] \in starts
        BY DEF IInv, IndexAgrees
      <4> QED
        BY <4>2, <4>4, <4>5
    <3> QED
      BY <1>6, <2>1, <3>1, <3>3, <3>4 DEF Evictions
  <2>3. DOMAIN windows' = DOMAIN windows \cup {key}
    BY <1>1, <1>2, <1>6
  <2>4. /\ IsFiniteSet(DOMAIN windows')
        /\ Cardinality(DOMAIN windows') = Cardinality(DOMAIN windows) + 1
    BY <1>3, <1>6, <2>3, FS_AddElement
  <2> QED
    BY <1>3, <2>2, <2>4, LimiterAssumption DEF EntriesBounded
<1>7. ASSUME key \notin DOMAIN windows, NEW o \in Evictions(key), out = {o}
      PROVE  IsFiniteSet(DOMAIN windows') /\ EntriesBounded'
  <2>1. o \in oldest
    BY DEF Evictions
  <2>2. PICK e \in DOMAIN windows : o[2] = e
    BY <2>1 DEF IInv, IndexAgrees
  <2>3. DOMAIN kept = DOMAIN windows \ {e}
    BY <1>2, <1>7, <2>2
  <2>4. IsFiniteSet(DOMAIN kept) /\ Cardinality(DOMAIN kept) = Cardinality(DOMAIN windows) - 1
    BY <1>3, <2>3, FS_RemoveElement
  <2>5. key \notin DOMAIN kept
    BY <1>7, <2>3
  <2>6. /\ IsFiniteSet(DOMAIN windows')
        /\ Cardinality(DOMAIN windows') = Cardinality(DOMAIN windows)
    <3>1. DOMAIN windows' = DOMAIN kept \cup {key}
      BY <1>1
    <3> HIDE DEF kept, key
    <3>2. /\ IsFiniteSet(DOMAIN kept \cup {key})
          /\ Cardinality(DOMAIN kept \cup {key}) = Cardinality(DOMAIN kept) + 1
      BY <2>4, <2>5, FS_AddElement
    <3> QED
      BY <1>3, <2>4, <3>1, <3>2
  <2> QED
    BY <1>4, <2>6 DEF EntriesBounded
<1> QED
  BY <1>5, <1>6, <1>7

\* Every step keeps them.
LEMMA IndexInvariance == Spec => []IInv
<1>1. Init => IInv
  BY FS_EmptySet, LimiterAssumption DEF Init, Progress, Time, IInv, Sound, IndexAgrees, EntriesBounded
<1>2. IInv /\ [Next]_vars => IInv'
  <2> SUFFICES ASSUME IInv, [Next]_vars PROVE IInv'
    OBVIOUS
  <2>1. CASE UNCHANGED vars
    BY <2>1 DEF vars, IInv, Sound, IndexAgrees, EntriesBounded
  <2>2. CASE Tick
    BY <2>2, LimiterAssumption DEF Tick, Time, IInv, Sound, IndexAgrees, EntriesBounded
  <2>3. ASSUME NEW r \in Request, Arrive(r) PROVE IInv'
    BY <2>3 DEF Arrive, Progress, Bucket, IInv, Sound, IndexAgrees, EntriesBounded
  <2>4. ASSUME NEW r \in Request, Allow(r) PROVE IInv'
    <3>1. PICK out : /\ Decide(r, out)
                     /\ \/ out = {} /\ Evictions(KeyOf(r)) = {}
                        \/ \E o \in Evictions(KeyOf(r)) : out = {o}
      BY <2>4 DEF Allow
    <3>2. IndexAgrees' /\ EntriesBounded' /\ IsFiniteSet(DOMAIN windows')
      BY <3>1, DecideKeepsIndex, DecideKeepsBound
    <3>3. clock' = clock
      BY <3>1 DEF Decide
    <3>4. request' \in [Request -> Progress]
      <4>1. \E at \in {"refused", "admitted", "authenticated"} :
               request' = [request EXCEPT ![r].at = at, ![r].now = clock]
        BY <3>1 DEF Decide
      <4>2. request \in [Request -> Progress] /\ clock \in Time
        BY DEF IInv, Sound
      <4>3. PICK at \in {"refused", "admitted", "authenticated"} :
               request' = [request EXCEPT ![r].at = at, ![r].now = clock]
        BY <4>1
      <4>4. [[request[r] EXCEPT !.at = at] EXCEPT !.now = clock] \in Progress
        BY <4>2 DEF Progress, Bucket
      <4> QED
        BY <4>2, <4>3, <4>4
    <3>5. \A k \in DOMAIN windows' : windows'[k].start \in Nat
      BY <3>1 DEF Decide, With, Without, Opened, IInv, Sound, Progress, Time
    <3> QED
      BY <3>2, <3>3, <3>4, <3>5 DEF IInv, Sound
  <2> QED
    BY <2>1, <2>2, <2>3, <2>4 DEF Next
<1> QED
  BY <1>1, <1>2, PTL DEF Spec

\* The map and the index always hold the same windows, never more than the limit.
THEOREM IndexAndBound == Spec => [](IndexAgrees /\ EntriesBounded)
<1>1. IInv => IndexAgrees /\ EntriesBounded
  BY DEF IInv
<1> QED
  BY <1>1, IndexInvariance, PTL
---------------------------------------------------------------------------
(* How much is granted *)

Of(gs, k) == {g \in gs : g.key = k}
In(gs, k, s) == {g \in gs : g.key = k /\ g.window = s}

\* A waiting call read the clock a short while ago.
Patient(req, time) ==
    \A r \in Request : req[r].at \in Bucket => req[r].now <= time /\ time - req[r].now <= MaxWait

\* A call that was granted its budget does not ask for it again, and only calls
\* with known keys spend the budget of authenticated calls.
Spent(req, gs) ==
    /\ \A r \in Request : req[r].at = "authenticated" => req[r].kind = "known"
    /\ \A g \in gs : /\ g.key.bucket = "pre-auth" => req[g.by].at \in {"authenticated", "admitted", "refused"}
                     /\ g.key.bucket # "pre-auth" => req[g.by].at \in {"admitted", "refused"}
                     /\ g.key.bucket = "authenticated" => req[g.by].kind = "known"

\* Calls are granted in their window, or as long after it as they waited.
Dated(gs, time) == \A g \in gs : g.window <= g.at /\ g.at <= time /\ g.at < g.window + Window + MaxWait

\* Two windows of one key follow each other: the later one starts a window's length
\* after the earlier, and at most a wait before the last grant of the earlier.
After(g, start) == g.window + Window <= start /\ g.at <= start + MaxWait
Chained(gs, k) == \A g, h \in Of(gs, k) : g.window < h.window => After(g, h.window)

\* No window is over its limit, and the one that is kept is the last.
Kept(gs, ws, k) == Of(gs, k) # {} => /\ k \in DOMAIN ws
                                     /\ \A g \in Of(gs, k) : /\ g.window <= ws[k].start
                                                             /\ g.window < ws[k].start => After(g, ws[k].start)
Within(gs, k) == \A s \in Time : Cardinality(In(gs, k, s)) <= Limit(k)
Counted(gs, ws, k) == k \in DOMAIN ws => Cardinality(In(gs, k, ws[k].start)) <= ws[k].count

\* The count of a window never exceeds what was granted in it.
Backed(gs, ws) == \A k \in DOMAIN ws : ws[k].count <= Cardinality(In(gs, k, ws[k].start))

Ledger(gs, ws, k) == Chained(gs, k) /\ Kept(gs, ws, k) /\ Within(gs, k) /\ Counted(gs, ws, k)

GInv == /\ TypeOK /\ IndexAgrees /\ IsFiniteSet(grants)
        /\ Patient(request, clock) /\ Spent(request, grants) /\ Dated(grants, clock)
        /\ \A k \in DOMAIN windows : windows[k].start <= clock
        /\ Backed(grants, windows)
        /\ \A k \in Key \ evicted : Ledger(grants, windows, k)

\* The call that has the mutex.
Entry(ws, k, now) == IF k \notin DOMAIN ws \/ now - ws[k].start >= Window THEN Opened(now) ELSE ws[k]

\* What a decision does, with the eviction left aside: the window of the call's key is
\* the one that counts, and it is granted while the limit is not reached.
LEMMA Decision ==
  ASSUME GInv, NEW r \in Request, NEW out, Decide(r, out), request[r].at \in Bucket,
         out = {} \/ \E o \in Evictions(KeyOf(r)) : out = {o}
  PROVE  LET key   == KeyOf(r)
             entry == Entry(windows, key, request[r].now)
             ok    == entry.count < Limit(key)
         IN /\ key \in Key /\ entry \in WindowEntry /\ entry.count <= Limit(key)
            /\ key \in DOMAIN windows' /\ DOMAIN windows' \subseteq DOMAIN windows \cup {key}
            /\ windows'[key] = IF ok THEN [entry EXCEPT !.count = @ + 1] ELSE entry
            /\ \A k \in DOMAIN windows' : k # key => windows'[k] = windows[k]
            /\ \A k \in DOMAIN windows : k \notin DOMAIN windows' => k \in evicted'
            /\ evicted \subseteq evicted' /\ evicted' \subseteq Key
            /\ grants' = IF ok THEN grants \cup {[key |-> key, at |-> clock, by |-> r,
                                                  window |-> entry.start]} ELSE grants
<1> DEFINE key   == KeyOf(r)
           now   == request[r].now
           kept  == Without(windows, {o[2] : o \in out})
           fresh == key \notin DOMAIN kept \/ Expired(key, now)
           was   == IF fresh THEN Opened(now) ELSE kept[key]
           entry == Entry(windows, key, now)
           ok    == entry.count < Limit(key)
<1>1. request[r] \in Progress /\ key \in Key /\ now \in Time
  BY DEF GInv, TypeOK, Progress, KeyOf, Key
<1>2. /\ windows \in [DOMAIN windows -> WindowEntry] /\ DOMAIN windows \subseteq Key
      /\ \A k \in DOMAIN windows : windows[k].count <= Limit(k)
  BY DEF GInv, TypeOK
<1>3. out # {} => key \notin DOMAIN windows
  BY DEF Evictions
<1>4. {o[2] : o \in out} \subseteq DOMAIN windows
  BY DEF Evictions, GInv, IndexAgrees
<1>5. /\ DOMAIN kept = DOMAIN windows \ {o[2] : o \in out}
      /\ \A k \in DOMAIN kept : kept[k] = windows[k]
      /\ key \in DOMAIN kept <=> key \in DOMAIN windows
  BY <1>3 DEF Without
<1>6. was = entry
  BY <1>5 DEF Entry, Expired
<1>7. /\ windows' = With(kept, key, IF was.count < Limit(key) THEN [was EXCEPT !.count = @ + 1] ELSE was)
      /\ evicted' = evicted \cup {o[2] : o \in out}
      /\ grants' = IF was.count < Limit(key)
                   THEN grants \cup {[key |-> key, at |-> clock, by |-> r, window |-> was.start]} ELSE grants
  BY Zenon DEF Decide
<1>8. Limit(key) \in Nat
  BY LimiterAssumption DEF Limit
<1>9. Opened(now) \in WindowEntry /\ Opened(now).count = 0
  BY <1>1 DEF Opened, WindowEntry
<1>10. entry \in WindowEntry /\ entry.count <= Limit(key)
  BY <1>1, <1>2, <1>8, <1>9 DEF Entry
<1> HIDE DEF kept, was, entry, key, now
<1>11. /\ DOMAIN windows' = DOMAIN kept \cup {key}
       /\ windows'[key] = IF ok THEN [entry EXCEPT !.count = @ + 1] ELSE entry
       /\ \A k \in DOMAIN kept : k # key => windows'[k] = kept[k]
  BY <1>6, <1>7 DEF With
<1>12. evicted' \subseteq Key
  BY <1>2, <1>4, <1>7 DEF GInv, TypeOK
<1>13. grants' = IF ok THEN grants \cup {[key |-> key, at |-> clock, by |-> r, window |-> entry.start]}
                 ELSE grants
  BY <1>6, <1>7
<1> QED
  BY <1>1, <1>5, <1>7, <1>10, <1>11, <1>12, <1>13 DEF key, entry, now

\* The grants of one window are finitely many.
LEMMA FewInWindow ==
  ASSUME NEW gs, IsFiniteSet(gs), NEW k, NEW s
  PROVE  IsFiniteSet(In(gs, k, s)) /\ Cardinality(In(gs, k, s)) \in Nat
BY FS_Subset, FS_CardinalityType DEF In

\* A new grant is one more in its window.
LEMMA OneMore ==
  ASSUME NEW gs, IsFiniteSet(gs), NEW new, new \notin gs
  PROVE  Cardinality(In(gs \cup {new}, new.key, new.window)) = Cardinality(In(gs, new.key, new.window)) + 1
<1> DEFINE old == In(gs, new.key, new.window)
<1>1. IsFiniteSet(old) /\ Cardinality(old) \in Nat
  BY FewInWindow
<1>2. In(gs \cup {new}, new.key, new.window) = old \cup {new} /\ new \notin old
  BY DEF In
<1> HIDE DEF old
<1>3. Cardinality(old \cup {new}) = Cardinality(old) + 1
  BY <1>1, <1>2, FS_AddElement
<1> QED
  BY <1>2, <1>3 DEF old

\* A decision keeps the books: of its own key, and of all others.
LEMMA DecideKeepsBooks ==
  ASSUME GInv, NEW r \in Request, NEW out, Decide(r, out), request[r].at \in Bucket,
         out = {} \/ \E o \in Evictions(KeyOf(r)) : out = {o}
  PROVE  /\ IsFiniteSet(grants') /\ Dated(grants', clock) /\ Backed(grants', windows')
         /\ \A k \in DOMAIN windows' : windows'[k].start <= clock
         /\ \A k \in Key \ evicted' : Ledger(grants', windows', k)
         /\ windows' \in [DOMAIN windows' -> WindowEntry] /\ DOMAIN windows' \subseteq Key
         /\ \A k \in DOMAIN windows' : windows'[k].count <= Limit(k)
         /\ grants' \subseteq [key : Key, at : Time, by : Request, window : Time]
         /\ evicted' \subseteq Key
<1> DEFINE key   == KeyOf(r)
           now   == request[r].now
           entry == Entry(windows, key, now)
           ok    == entry.count < Limit(key)
           new   == [key |-> key, at |-> clock, by |-> r, window |-> entry.start]
<1>1. /\ key \in Key /\ entry \in WindowEntry /\ entry.count <= Limit(key)
      /\ key \in DOMAIN windows' /\ DOMAIN windows' \subseteq DOMAIN windows \cup {key}
      /\ windows'[key] = IF ok THEN [entry EXCEPT !.count = @ + 1] ELSE entry
      /\ \A k \in DOMAIN windows' : k # key => windows'[k] = windows[k]
      /\ \A k \in DOMAIN windows : k \notin DOMAIN windows' => k \in evicted'
      /\ evicted \subseteq evicted' /\ evicted' \subseteq Key
      /\ grants' = IF ok THEN grants \cup {new} ELSE grants
  BY Decision
<1>2. /\ windows \in [DOMAIN windows -> WindowEntry] /\ DOMAIN windows \subseteq Key
      /\ \A k \in DOMAIN windows : windows[k].count <= Limit(k)
      /\ grants \subseteq [key : Key, at : Time, by : Request, window : Time]
      /\ IsFiniteSet(grants) /\ clock \in Time /\ clock \in Nat
      /\ now \in Nat /\ Window \in Nat \ {0} /\ MaxWait \in Nat /\ MaxWait < Window
  BY LimiterAssumption DEF GInv, TypeOK, Progress, Time
<1>3. now <= clock /\ clock - now <= MaxWait
  BY DEF GInv, Patient
<1>4. new \notin grants
  <2>1. ASSUME new \in grants PROVE FALSE
    <3>1. new.key.bucket = request[r].at /\ new.by = r
      BY DEF KeyOf
    <3> HIDE DEF new
    <3> QED
      BY <2>1, <3>1 DEF GInv, Spent, Bucket
  <2> QED
    BY <2>1
<1>5. /\ new.key = key /\ new.at = clock /\ new.by = r /\ new.window = entry.start
      /\ new \in [key : Key, at : Time, by : Request, window : Time]
  BY <1>1, <1>2 DEF WindowEntry
<1> HIDE DEF new
<1>6. /\ \/ entry = windows[key] /\ key \in DOMAIN windows /\ now - windows[key].start < Window
         \/ /\ entry.start = now /\ entry.count = 0
            /\ key \in DOMAIN windows => windows[key].start + Window <= now
      /\ entry.start \in Nat /\ entry.count \in Nat /\ entry.start \in Time
      /\ \A k \in DOMAIN windows : windows[k].start \in Nat
  <2>1. \A k \in DOMAIN windows : windows[k].start \in Nat
    BY <1>2 DEF WindowEntry, Time
  <2>2. entry.start \in Nat /\ entry.count \in Nat /\ entry.start \in Time
    BY <1>1 DEF WindowEntry, Time
  <2> QED
    BY <1>2, <2>1, <2>2 DEF Entry, Opened
<1>7. /\ windows'[key].start = entry.start
      /\ windows'[key].count = IF ok THEN entry.count + 1 ELSE entry.count
      /\ windows'[key] \in WindowEntry
  <2> HIDE DEF entry
  <2> QED
    BY <1>1, <1>6 DEF WindowEntry
<1>8. Limit(key) \in Nat
  BY LimiterAssumption DEF Limit
<1>9. entry.start <= clock /\ clock < entry.start + Window + MaxWait
  <2>1. key \in DOMAIN windows => windows[key].start <= clock
    BY DEF GInv
  <2> HIDE DEF key, now, entry
  <2>2. CASE entry = windows[key] /\ key \in DOMAIN windows /\ now - windows[key].start < Window
    BY <1>2, <1>3, <1>6, <2>1, <2>2
  <2>3. CASE entry.start = now
    BY <1>2, <1>3, <2>3
  <2> QED
    BY <1>6, <2>2, <2>3
<1> HIDE DEF key, now, entry, ok
<1>10. windows'[key].count <= Limit(key)
  <2>1. entry.count <= Limit(key) /\ entry.count \in Nat /\ (ok => entry.count < Limit(key))
    BY <1>1, <1>6 DEF ok
  <2> QED
    BY <1>7, <1>8, <2>1
<1>11. Dated(grants', clock)
  BY <1>1, <1>2, <1>5, <1>9 DEF GInv, Dated
<1>12. \A k \in DOMAIN windows' : windows'[k].start <= clock
  BY <1>1, <1>7, <1>9 DEF GInv
<1>13. \A k, s : ~(k = key /\ s = entry.start) => In(grants', k, s) = In(grants, k, s)
  <2> SUFFICES ASSUME NEW k, NEW s, ~(k = key /\ s = entry.start)
               PROVE  In(grants', k, s) = In(grants, k, s)
    OBVIOUS
  <2>1. ~(new.key = k /\ new.window = s)
    BY <1>5
  <2>2. In(grants \cup {new}, k, s) = In(grants, k, s)
    BY <2>1 DEF In
  <2> QED
    BY <1>1, <2>2
<1>14. /\ Cardinality(In(grants, key, entry.start)) \in Nat
       /\ ok => Cardinality(In(grants', key, entry.start)) = Cardinality(In(grants, key, entry.start)) + 1
       /\ ~ok => grants' = grants
  <2>1. new.key = key /\ new.window = entry.start
    BY <1>5
  <2>2. /\ Cardinality(In(grants, key, entry.start)) \in Nat
        /\ Cardinality(In(grants \cup {new}, key, entry.start))
               = Cardinality(In(grants, key, entry.start)) + 1
    <3>1. Cardinality(In(grants, key, entry.start)) \in Nat
      BY <1>2, FewInWindow
    <3>2. Cardinality(In(grants \cup {new}, new.key, new.window))
              = Cardinality(In(grants, new.key, new.window)) + 1
      BY <1>2, <1>4, OneMore
    <3> QED
      BY <2>1, <3>1, <3>2
  <2> QED
    BY <1>1, <2>2
<1>15. Backed(grants', windows')
  <2> SUFFICES ASSUME NEW k \in DOMAIN windows'
               PROVE  windows'[k].count <= Cardinality(In(grants', k, windows'[k].start))
    BY DEF Backed
  <2>1. CASE k # key
    BY <1>1, <1>13, <2>1 DEF GInv, Backed
  <2>2. CASE k = key
    <3>1. entry.count <= Cardinality(In(grants, key, entry.start))
      BY <1>6, <1>14 DEF GInv, Backed
    <3> QED
      BY <1>6, <1>7, <1>14, <2>2, <3>1
  <2> QED
    BY <2>1, <2>2
<1>16. ASSUME NEW k \in Key \ evicted', k # key PROVE Ledger(grants', windows', k)
  <2>1. Ledger(grants, windows, k)
    BY <1>1 DEF GInv
  <2>2. Of(grants', k) = Of(grants, k)
    BY <1>1, <1>5, <1>16 DEF Of
  <2>3. k \in DOMAIN windows' <=> k \in DOMAIN windows
    BY <1>1, <1>16
  <2>4. k \in DOMAIN windows => windows'[k] = windows[k]
    BY <1>1, <1>16, <2>3
  <2>5. \A s : In(grants', k, s) = In(grants, k, s)
    BY <1>13, <1>16
  <2> QED
    BY <2>1, <2>2, <2>3, <2>4, <2>5 DEF Ledger, Chained, Kept, Within, Counted
<1>17. ASSUME key \notin evicted' PROVE Ledger(grants', windows', key)
  <2>1. Ledger(grants, windows, key)
    BY <1>1, <1>17 DEF GInv
  <2>2. Of(grants', key) \subseteq Of(grants, key) \cup {new} /\ Of(grants, key) \subseteq grants
    BY <1>1 DEF Of
  <2>3. \A g \in grants : g.at <= clock /\ g.at \in Nat /\ g.window \in Nat
    BY <1>2 DEF GInv, Dated, Time
  <2>4. \A g \in Of(grants, key) : g.window <= entry.start /\ (g.window < entry.start => After(g, entry.start))
    <3>1. Kept(grants, windows, key)
      BY <2>1 DEF Ledger
    <3>2. CASE entry = windows[key]
      BY <3>1, <3>2 DEF Kept
    <3>3. CASE entry.start = now /\ (key \in DOMAIN windows => windows[key].start + Window <= now)
      <4> SUFFICES ASSUME NEW g \in Of(grants, key) PROVE g.window < now /\ After(g, now)
        BY <1>2, <2>2, <2>3, <3>3
      <4>1. key \in DOMAIN windows /\ g.window <= windows[key].start
        BY <3>1 DEF Kept
      <4> QED
        BY <1>2, <1>3, <1>6, <2>2, <2>3, <3>3, <4>1 DEF After
    <3> QED
      BY <1>6, <3>2, <3>3
  <2>5. Cardinality(In(grants, key, entry.start)) <= entry.count
    <3>1. CASE entry = windows[key] /\ key \in DOMAIN windows
      BY <2>1, <3>1 DEF Ledger, Counted
    <3>2. CASE entry.start = now /\ entry.count = 0 /\ (key \in DOMAIN windows => windows[key].start + Window <= now)
      <4>1. In(grants, key, entry.start) = {}
        <5> SUFFICES ASSUME NEW g \in grants, g.key = key, g.window = now PROVE FALSE
          BY <3>2 DEF In
        <5>1. key \in DOMAIN windows /\ g.window <= windows[key].start
          BY <2>1 DEF Ledger, Kept, Of
        <5> QED
          BY <1>2, <1>6, <3>2, <5>1
      <4> QED
        BY <3>2, <4>1, FS_EmptySet
    <3> QED
      BY <1>6, <3>1, <3>2
  <2>6. Chained(grants', key)
    <3> SUFFICES ASSUME NEW g \in Of(grants', key), NEW h \in Of(grants', key), g.window < h.window
                 PROVE  After(g, h.window)
      BY DEF Chained
    <3>1. CASE g \in Of(grants, key) /\ h \in Of(grants, key)
      BY <2>1, <3>1 DEF Ledger, Chained
    <3>2. CASE g \in Of(grants, key) /\ h = new
      BY <1>5, <2>4, <3>2
    <3>3. CASE g = new /\ h \in Of(grants, key)
      BY <1>5, <1>6, <2>2, <2>3, <2>4, <3>3
    <3>4. CASE g = new /\ h = new
      BY <1>5, <1>6, <3>4
    <3> QED
      BY <2>2, <3>1, <3>2, <3>3, <3>4
  <2>7. Kept(grants', windows', key)
    <3> SUFFICES ASSUME NEW g \in Of(grants', key)
                 PROVE  /\ g.window <= entry.start
                        /\ g.window < entry.start => After(g, entry.start)
      BY <1>1, <1>7, Zenon DEF Kept
    <3>1. CASE g = new
      BY <1>5, <1>6, <3>1
    <3>2. CASE g \in Of(grants, key)
      BY <2>4, <3>2
    <3> QED
      BY <2>2, <3>1, <3>2
  <2>8. Counted(grants', windows', key)
    BY <1>6, <1>7, <1>14, <2>5 DEF Counted
  <2>9. Within(grants', key)
    <3> SUFFICES ASSUME NEW s \in Time PROVE Cardinality(In(grants', key, s)) <= Limit(key)
      BY DEF Within
    <3>1. CASE s = entry.start
      BY <1>6, <1>7, <1>8, <1>10, <1>14, <2>5, <3>1
    <3>2. CASE s # entry.start
      BY <1>13, <2>1, <3>2 DEF Ledger, Within
    <3> QED
      BY <3>1, <3>2
  <2> QED
    BY <2>6, <2>7, <2>8, <2>9 DEF Ledger
<1>18. IsFiniteSet(grants')
  BY <1>1, <1>2, FS_AddElement
<1>19. /\ windows' \in [DOMAIN windows' -> WindowEntry] /\ DOMAIN windows' \subseteq Key
       /\ \A k \in DOMAIN windows' : windows'[k].count <= Limit(k)
  <2>1. \A k \in DOMAIN windows' : windows'[k] \in WindowEntry /\ windows'[k].count <= Limit(k)
    BY <1>1, <1>2, <1>7, <1>10
  <2>2. windows' = [k \in DOMAIN windows' |-> windows'[k]]
    <3>1. windows' = With(Without(windows, {o[2] : o \in out}), key, windows'[key])
      BY Zenon DEF Decide, With, key
    <3> QED
      BY <3>1 DEF With
  <2> QED
    BY <1>1, <1>2, <2>1, <2>2
<1>20. grants' \subseteq [key : Key, at : Time, by : Request, window : Time]
  BY <1>1, <1>2, <1>5
<1> QED
  BY <1>1, <1>11, <1>12, <1>15, <1>16, <1>17, <1>18, <1>19, <1>20

\* A call is answered from the window that counts.
LEMMA Answer ==
  ASSUME NEW r \in Request, NEW out, Decide(r, out),
         out = {} \/ \E o \in Evictions(KeyOf(r)) : out = {o}
  PROVE  request' = [request EXCEPT ![r] =
             [[request[r] EXCEPT !.at = IF ~(Entry(windows, KeyOf(r), request[r].now).count < Limit(KeyOf(r)))
                                        THEN "refused"
                                        ELSE IF KeyOf(r).bucket # "pre-auth" THEN "admitted"
                                        ELSE IF request[r].kind = "known" THEN "authenticated"
                                        ELSE "refused"] EXCEPT !.now = clock]]
<1> DEFINE key == KeyOf(r)
  <1>1. \A k : k \in DOMAIN Without(windows, {o[2] : o \in out}) => k \in DOMAIN windows
    BY DEF Without
  <1>2. out # {} => key \notin DOMAIN windows
    BY DEF Evictions
  <1>3. /\ key \in DOMAIN Without(windows, {o[2] : o \in out}) <=> key \in DOMAIN windows
        /\ key \in DOMAIN windows => Without(windows, {o[2] : o \in out})[key] = windows[key]
    BY <1>2 DEF Without
  <1> QED
    BY <1>3 DEF Decide, Entry, Expired

\* A decision leaves requests with progress, and spends what it grants.
LEMMA DecideSpends ==
  ASSUME GInv, NEW r \in Request, NEW out, Decide(r, out), request[r].at \in Bucket,
         out = {} \/ \E o \in Evictions(KeyOf(r)) : out = {o}
  PROVE  /\ request' \in [Request -> Progress]
         /\ Patient(request', clock) /\ Spent(request', grants')
<1> DEFINE key == KeyOf(r)
           ok  == Entry(windows, key, request[r].now).count < Limit(key)
           at  == IF ~ok THEN "refused"
                  ELSE IF key.bucket # "pre-auth" THEN "admitted"
                  ELSE IF request[r].kind = "known" THEN "authenticated" ELSE "refused"
           new == [key |-> key, at |-> clock, by |-> r,
                   window |-> Entry(windows, key, request[r].now).start]
           row == [[request[r] EXCEPT !.at = at] EXCEPT !.now = clock]
<1>1. request \in [Request -> Progress] /\ clock \in Time /\ request[r] \in Progress
  BY DEF GInv, TypeOK
<1>2. grants' = IF ok THEN grants \cup {new} ELSE grants
  BY Decision
<1>3. request' = [request EXCEPT ![r] = row]
  BY Answer, Zenon
<1>4. /\ key.bucket = request[r].at /\ row.at = at /\ row.now = clock /\ row.kind = request[r].kind
      /\ row \in Progress /\ at \in {"refused", "admitted", "authenticated"}
      /\ new.key = key /\ new.by = r
  BY <1>1 DEF Progress, KeyOf, Bucket
<1>5. /\ ok /\ key.bucket = "pre-auth" => at \in {"authenticated", "refused"}
      /\ ok /\ key.bucket # "pre-auth" => at = "admitted"
      /\ at = "authenticated" => request[r].kind = "known"
  OBVIOUS
<1> HIDE DEF row, new, at, ok
<1>6. request' \in [Request -> Progress] /\ request'[r] = row /\ \A q \in Request : q # r => request'[q] = request[q]
  BY <1>1, <1>3, <1>4
<1>7. Patient(request', clock)
  BY <1>1, <1>4, <1>6, LimiterAssumption DEF GInv, Patient, Time
<1>8. \A q \in Request : request'[q].at = "authenticated" => request'[q].kind = "known"
  BY <1>4, <1>5, <1>6 DEF GInv, Spent
<1>9. ASSUME NEW g \in grants
      PROVE  /\ g.key.bucket = "pre-auth" => request'[g.by].at \in {"authenticated", "admitted", "refused"}
             /\ g.key.bucket # "pre-auth" => request'[g.by].at \in {"admitted", "refused"}
             /\ g.key.bucket = "authenticated" => request'[g.by].kind = "known"
  <2>1. g.by \in Request
    BY <1>9 DEF GInv, TypeOK
  <2>2. /\ g.key.bucket = "pre-auth" => request[g.by].at \in {"authenticated", "admitted", "refused"}
        /\ g.key.bucket # "pre-auth" => request[g.by].at \in {"admitted", "refused"}
        /\ g.key.bucket = "authenticated" => request[g.by].kind = "known"
    BY <1>9 DEF GInv, Spent
  <2>3. CASE g.by # r
    BY <1>6, <2>1, <2>2, <2>3
  <2>4. CASE g.by = r
    <3>1. g.key.bucket = "pre-auth" /\ request[r].at = "authenticated"
      BY <2>2, <2>4 DEF Bucket
    <3>2. at # "authenticated"
      BY <1>4, <3>1, <1>5, Zenon DEF at
    <3> QED
      BY <1>4, <1>6, <2>4, <3>1
  <2> QED
    BY <2>3, <2>4
<1>10. ok => /\ new.key.bucket = "pre-auth" => request'[new.by].at \in {"authenticated", "admitted", "refused"}
             /\ new.key.bucket # "pre-auth" => request'[new.by].at \in {"admitted", "refused"}
             /\ new.key.bucket = "authenticated" => request'[new.by].kind = "known"
  <2>1. request[r].at = "authenticated" => request[r].kind = "known"
    BY DEF GInv, Spent
  <2> QED
    BY <1>4, <1>5, <1>6, <2>1
<1>11. Spent(request', grants')
  BY <1>2, <1>8, <1>9, <1>10 DEF Spent
<1> QED
  BY <1>6, <1>7, <1>11

\* The clock, arrivals and decisions all keep what is known of the grants.
LEMMA GrantInvariance == Spec => []GInv
<1>1. Init => GInv
  <2> SUFFICES ASSUME Init PROVE GInv
    OBVIOUS
  <2>1. \A k, s : In({}, k, s) = {} /\ Of({}, k) = {}
    BY DEF In, Of
  <2>2. Cardinality({}) = 0 /\ IsFiniteSet({})
    BY FS_EmptySet
  <2>3. /\ clock = 0 /\ grants = {} /\ evicted = {} /\ oldest = {} /\ DOMAIN windows = {}
        /\ windows \in [DOMAIN windows -> WindowEntry] /\ 0 \in Time
    BY LimiterAssumption DEF Init, Time
  <2>4. request \in [Request -> Progress] /\ \A r \in Request : request[r].at = "unsent"
    BY <2>3 DEF Init, Progress
  <2>5. TypeOK /\ IndexAgrees
    BY <2>3, <2>4 DEF TypeOK, IndexAgrees
  <2>6. \A k \in Key : Limit(k) \in Nat
    BY LimiterAssumption DEF Limit
  <2>7. \A k \in Key : Ledger({}, windows, k)
    <3>1. \A k \in Key : Chained({}, k) /\ Kept({}, windows, k)
      BY <2>1 DEF Chained, Kept
    <3>2. \A k \in Key : Within({}, k)
      BY <2>1, <2>2, <2>6 DEF Within
    <3>3. \A k \in Key : Counted({}, windows, k)
      BY <2>3, Zenon DEF Counted
    <3> QED
      BY <3>1, <3>2, <3>3 DEF Ledger
  <2>8. Patient(request, clock) /\ Spent(request, grants) /\ Dated(grants, clock) /\ Backed(grants, windows)
    BY <2>3, <2>4 DEF Patient, Spent, Dated, Backed, Bucket
  <2> QED
    BY <2>2, <2>3, <2>5, <2>7, <2>8 DEF GInv
<1>2. IInv /\ IInv' /\ GInv /\ [Next]_vars => GInv'
  <2> SUFFICES ASSUME IInv, IInv', GInv, [Next]_vars PROVE GInv'
    OBVIOUS
  <2>1. CASE UNCHANGED vars
    BY <2>1, Zenon DEF vars, GInv, TypeOK, IndexAgrees
  <2>2. CASE Tick
    <3>1. /\ clock' = clock + 1 /\ clock \in Nat /\ clock' \in Time
          /\ windows' = windows /\ oldest' = oldest /\ request' = request
          /\ grants' = grants /\ evicted' = evicted
      BY <2>2, LimiterAssumption DEF Tick, GInv, TypeOK, Time
    <3>2. TypeOK' /\ IndexAgrees'
      BY <3>1 DEF GInv, TypeOK, IndexAgrees
    <3>3. Patient(request, clock')
      <4> SUFFICES ASSUME NEW r \in Request, request[r].at \in Bucket
                   PROVE  request[r].now <= clock' /\ clock' - request[r].now <= MaxWait
        BY DEF Patient
      <4>1. clock - request[r].now < MaxWait
        BY <2>2 DEF Tick, Waiting
      <4>2. request[r].now \in Nat /\ request[r].now <= clock
        BY DEF GInv, TypeOK, Patient, Progress, Time
      <4> QED
        BY <3>1, <4>1, <4>2, LimiterAssumption
    <3>4. Dated(grants, clock')
      BY <3>1 DEF GInv, TypeOK, Dated, Time
    <3>5. \A k \in DOMAIN windows : windows[k].start <= clock'
      BY <3>1 DEF GInv, TypeOK, WindowEntry, Time
    <3> QED
      BY <3>1, <3>2, <3>3, <3>4, <3>5 DEF GInv
  <2>3. ASSUME NEW r \in Request, Arrive(r) PROVE GInv'
    <3>1. /\ UNCHANGED <<clock, windows, oldest, grants, evicted>>
          /\ request[r].at = "unsent" /\ request[r] \in Progress /\ clock \in Time
          /\ request \in [Request -> Progress]
      BY <2>3 DEF Arrive, GInv, TypeOK
    <3>2. PICK at \in {"register", "pre-auth"} :
              request' = [request EXCEPT ![r] = [[request[r] EXCEPT !.at = at] EXCEPT !.now = clock]]
      BY <2>3 DEF Arrive
    <3>3. /\ [[request[r] EXCEPT !.at = at] EXCEPT !.now = clock] \in Progress
          /\ [[request[r] EXCEPT !.at = at] EXCEPT !.now = clock].at = at
          /\ [[request[r] EXCEPT !.at = at] EXCEPT !.now = clock].now = clock
          /\ [[request[r] EXCEPT !.at = at] EXCEPT !.now = clock].kind = request[r].kind
      BY <3>1 DEF Progress, Bucket
    <3>4. /\ request' \in [Request -> Progress]
          /\ request'[r].at = at /\ request'[r].now = clock /\ request'[r].kind = request[r].kind
          /\ \A q \in Request : q # r => request'[q] = request[q]
      BY <3>1, <3>2, <3>3
    <3>5. Patient(request', clock)
      BY <3>1, <3>4, LimiterAssumption DEF GInv, Patient, Time
    <3>6. Spent(request', grants)
      <4>1. \A g \in grants : g.by \in Request
        BY DEF GInv, TypeOK
      <4>2. \A g \in grants : g.by # r
        BY <3>1, Zenon DEF GInv, Spent
      <4> QED
        BY <3>2, <3>4, <4>1, <4>2 DEF GInv, Spent
    <3>7. TypeOK' /\ IndexAgrees'
      BY <3>1, <3>4 DEF GInv, TypeOK, IndexAgrees
    <3> QED
      BY <3>1, <3>5, <3>6, <3>7 DEF GInv
  <2>4. ASSUME NEW r \in Request, Waiting(r), Allow(r) PROVE GInv'
    <3>1. PICK out : /\ Decide(r, out)
                     /\ \/ out = {} /\ Evictions(KeyOf(r)) = {}
                        \/ \E o \in Evictions(KeyOf(r)) : out = {o}
      BY <2>4 DEF Allow
    <3>2. request[r].at \in Bucket /\ clock' = clock
      BY <2>4, <3>1 DEF Waiting, Decide
    <3>3. /\ IsFiniteSet(grants') /\ Dated(grants', clock) /\ Backed(grants', windows')
          /\ \A k \in DOMAIN windows' : windows'[k].start <= clock
          /\ \A k \in Key \ evicted' : Ledger(grants', windows', k)
          /\ windows' \in [DOMAIN windows' -> WindowEntry] /\ DOMAIN windows' \subseteq Key
          /\ \A k \in DOMAIN windows' : windows'[k].count <= Limit(k)
          /\ grants' \subseteq [key : Key, at : Time, by : Request, window : Time]
          /\ evicted' \subseteq Key
      BY <3>1, <3>2, DecideKeepsBooks
    <3>4. /\ request' \in [Request -> Progress]
          /\ Patient(request', clock) /\ Spent(request', grants')
      BY <3>1, <3>2, DecideSpends
    <3>5. IndexAgrees'
      BY DEF IInv
    <3>6. oldest' \subseteq Time \X Key
      BY <3>3, <3>5 DEF IndexAgrees, WindowEntry
    <3>7. TypeOK'
      BY <3>2, <3>3, <3>4, <3>6 DEF GInv, TypeOK
    <3> QED
      BY <3>2, <3>3, <3>4, <3>5, <3>7 DEF GInv
  <2> QED
    BY <2>1, <2>2, <2>3, <2>4 DEF Next
<1> QED
  BY <1>1, <1>2, IndexInvariance, PTL DEF Spec

\* The limiter's state is always of its type: no window counts more than its limit.
THEOREM TypeCorrect == Spec => []TypeOK
<1>1. GInv => TypeOK
  BY DEF GInv
<1> QED
  BY <1>1, GrantInvariance, PTL
---------------------------------------------------------------------------
(* The windows that a span meets *)

Later(gs, s) == {g \in gs : g.window > s}

\* Some grants of a key: the first of their windows holds a limit's worth of them,
\* and the others come later.
LEMMA FirstWindow ==
  ASSUME NEW gs, IsFiniteSet(gs), \A g \in gs : g.window \in Time,
         NEW k \in Key, Within(gs, k), NEW some \in SUBSET Of(gs, k), some # {}
  PROVE  \E g \in some : /\ \A h \in some : g.window <= h.window
                         /\ Cardinality(some) \in Nat
                         /\ Cardinality(some) <= Limit(k) + Cardinality(Later(some, g.window))
<1>1. some \subseteq gs /\ IsFiniteSet(some) /\ \A g \in some : g.key = k /\ g.window \in Time /\ g.window \in Nat
  BY FS_Subset DEF Of, Time
<1> DEFINE starts == {g.window : g \in some}
<1>2. starts \in SUBSET Nat /\ starts # {}
  BY <1>1
<1>3. PICK s \in starts : \A n \in starts : s <= n
  <2> HIDE DEF starts
  <2> QED
    BY <1>2, LeastElement
<1>4. PICK g \in some : s = g.window
  BY <1>3
<1>5. \A h \in some : s <= h.window
  BY <1>3
<1> DEFINE first == In(gs, k, s)
           rest  == Later(some, s)
<1>6. some \subseteq first \cup rest
  <2> SUFFICES ASSUME NEW h \in some PROVE h.window = s \/ h.window > s
    BY <1>1 DEF In, Later
  <2>1. s \in Nat /\ h.window \in Nat /\ s <= h.window
    BY <1>1, <1>4, <1>5
  <2> QED
    BY <2>1
<1>7. /\ IsFiniteSet(first) /\ Cardinality(first) \in Nat /\ Cardinality(first) <= Limit(k)
      /\ IsFiniteSet(rest) /\ Cardinality(rest) \in Nat
  <2>1. IsFiniteSet(first) /\ Cardinality(first) \in Nat
    BY FewInWindow
  <2>2. Cardinality(first) <= Limit(k)
    BY <1>1, <1>4 DEF Within
  <2>3. rest \subseteq some
    BY DEF Later
  <2>4. IsFiniteSet(rest) /\ Cardinality(rest) \in Nat
    BY <1>1, <2>3, FS_Subset, FS_CardinalityType
  <2> QED
    BY <2>1, <2>2, <2>4
<1> HIDE DEF first, rest
<1>8. IsFiniteSet(first \cup rest) /\ Cardinality(first \cup rest) <= Cardinality(first) + Cardinality(rest)
  <2>1. /\ IsFiniteSet(first \cup rest) /\ IsFiniteSet(first \cap rest)
        /\ Cardinality(first \cup rest) = Cardinality(first) + Cardinality(rest) - Cardinality(first \cap rest)
    BY <1>7, FS_Union, FS_Intersection
  <2>2. Cardinality(first \cap rest) \in Nat
    BY <2>1, FS_CardinalityType
  <2> QED
    BY <1>7, <2>1, <2>2
<1>9. Cardinality(some) <= Cardinality(first \cup rest) /\ Cardinality(some) \in Nat /\ Cardinality(first \cup rest) \in Nat
  BY <1>1, <1>6, <1>8, FS_Subset, FS_CardinalityType
<1>10. Limit(k) \in Nat
  BY LimiterAssumption DEF Limit
<1>11. Cardinality(some) <= Limit(k) + Cardinality(rest)
  BY <1>7, <1>8, <1>9, <1>10
<1> QED
  BY <1>4, <1>5, <1>9, <1>11 DEF rest

\* Three windows of a key that was never evicted: their grants are spread over more
\* than a window's length, less a wait.
LEMMA Spread ==
  ASSUME GInv, NEW k \in Key \ evicted, NEW g \in Of(grants, k), NEW h \in Of(grants, k), NEW i \in Of(grants, k),
         g.window < h.window, h.window < i.window
  PROVE  /\ i.window >= h.window + Window
         /\ g.at < h.window + MaxWait
         /\ i.at > g.at + Window - MaxWait
<1>1. /\ After(g, h.window) /\ After(h, i.window)
  BY DEF GInv, Ledger, Chained
<1>2. \A x \in {g, h, i} : x \in grants /\ x.at \in Nat /\ x.window \in Nat
  BY DEF Of, GInv, TypeOK, Time
<1>3. \A x \in {g, h, i} : x.window <= x.at /\ x.at < x.window + Window + MaxWait
  BY <1>2 DEF GInv, Dated
<1>4. Window \in Nat /\ MaxWait \in Nat
  BY LimiterAssumption
<1>5. g.window + Window <= h.window /\ h.window + Window <= i.window
  BY <1>1 DEF After
<1> QED
  BY <1>2, <1>3, <1>4, <1>5

\* A caller that keeps its window is granted at most twice its limit in any span of a
\* window's length and a tick, less the longest wait, and at most three times its
\* limit in a window's length more: at most so many windows meet the span.
THEOREM GrantsBounded == Spec => []RateBounded
<1>1. GInv => RateBounded
  <2> SUFFICES ASSUME GInv, NEW k \in Key \ evicted, NEW t \in Time, NEW n \in 1..2
               PROVE  Cardinality(Granted(k, t..(t + n * Window - MaxWait))) <= (n + 1) * Limit(k)
    BY DEF RateBounded
  <2> DEFINE some  == Granted(k, t..(t + n * Window - MaxWait))
  <2>1. /\ IsFiniteSet(grants) /\ Within(grants, k) /\ \A g \in grants : g.window \in Time
        /\ t \in Nat /\ Window \in Nat /\ MaxWait \in Nat /\ MaxWait < Window /\ Limit(k) \in Nat
    BY LimiterAssumption DEF GInv, Ledger, TypeOK, Time, Limit
  <2>2. some \subseteq Of(grants, k)
    BY DEF Granted, Of
  <2>3. /\ \A g \in some : g.at >= t /\ g.at <= t + n * Window - MaxWait
        /\ \A g \in Of(grants, k) : g \in grants /\ g.at \in Nat /\ g.window \in Nat /\ g.window <= g.at
    BY <2>1 DEF Granted, Of, GInv, TypeOK, Time, Dated
  <2>4. Cardinality({}) = 0
    BY FS_EmptySet
  <2> DEFINE bound == (n + 1) * Limit(k)
  <2>5. \/ n = 1 /\ n * Window = Window /\ bound = 2 * Limit(k)
        \/ n = 2 /\ n * Window = 2 * Window /\ bound = 3 * Limit(k)
    <3>1. n = 1 \/ n = 2
      OBVIOUS
    <3> QED
      BY <2>1, <3>1
  <2> SUFFICES Cardinality(some) <= bound
    OBVIOUS
  <2> HIDE DEF some, bound
  <2>6. CASE some = {}
    BY <2>1, <2>4, <2>5, <2>6
  <2>7. CASE some # {}
    <3>1. PICK g \in some : /\ Cardinality(some) \in Nat
                              /\ Cardinality(some) <= Limit(k) + Cardinality(Later(some, g.window))
      BY <2>1, <2>2, <2>7, FirstWindow
    <3> DEFINE second == Later(some, g.window)
    <3>2. second \subseteq some /\ second \subseteq Of(grants, k) /\ \A h \in second : g.window < h.window
      BY <2>2, <2>3 DEF Later
    <3> HIDE DEF second
    <3>3. CASE second = {}
      BY <2>1, <2>4, <2>5, <3>1, <3>3 DEF second
    <3>4. CASE second # {}
      <4>1. PICK h \in second : /\ Cardinality(second) \in Nat
                                  /\ Cardinality(second) <= Limit(k) + Cardinality(Later(second, h.window))
        BY <2>1, <3>2, <3>4, FirstWindow
      <4> DEFINE third == Later(second, h.window)
      <4>2. third \subseteq some /\ third \subseteq Of(grants, k) /\ \A i \in third : h.window < i.window
        BY <2>3, <3>2 DEF Later
      <4> HIDE DEF third
      <4>3. \A i \in third : /\ i.window >= h.window + Window
                             /\ g.at < h.window + MaxWait /\ i.at > g.at + Window - MaxWait
        BY <2>2, <3>2, <4>2, Spread
      <4>4. CASE third = {}
        BY <2>1, <2>4, <2>5, <3>1, <4>1, <4>4 DEF second, third
      <4>5. CASE third # {}
        <5>1. n = 2
          BY <2>1, <2>2, <2>3, <2>5, <4>2, <4>3, <4>5
        <5>2. PICK i \in third : /\ Cardinality(third) \in Nat
                                   /\ Cardinality(third) <= Limit(k) + Cardinality(Later(third, i.window))
          BY <2>1, <4>2, <4>5, FirstWindow
        <5>3. Later(third, i.window) = {}
          <6> SUFFICES ASSUME NEW j \in third, j.window > i.window PROVE FALSE
            BY DEF Later
          <6>1. i.window >= h.window + Window /\ g.at < h.window + MaxWait
            BY <4>3
          <6>2. j.window >= i.window + Window
            BY <2>2, <2>3, <3>2, <4>2, Spread
          <6>3. j.at >= j.window /\ j.at <= t + 2 * Window - MaxWait /\ g.at >= t
            BY <2>3, <4>2, <5>1
          <6>4. \A x \in {g, h, i, j} : x.at \in Nat /\ x.window \in Nat
            BY <2>2, <2>3, <3>2, <4>2
          <6> QED
            BY <2>1, <6>1, <6>2, <6>3, <6>4
        <5> QED
          BY <2>1, <2>4, <2>5, <3>1, <4>1, <5>1, <5>2, <5>3 DEF second, third
      <4> QED
        BY <4>4, <4>5
    <3> QED
      BY <3>3, <3>4
  <2> QED
    BY <2>6, <2>7
<1> QED
  BY <1>1, GrantInvariance, PTL

\* A known caller is refused after authentication only when calls with known keys have
\* spent its address's budget lately.
THEOREM RefusalsEarned == Spec => RefusedByOwnBudget
<1> DEFINE Step == \A r \in Request :
           request[r].at = "authenticated" /\ request'[r].at = "refused"
           => Cardinality(OwnGrants(r)) >= MaxRequests
<1> SUFFICES Spec => [][Step]_vars
  BY DEF RefusedByOwnBudget
<1>1. GInv /\ [Next]_vars => [Step]_vars
  <2> SUFFICES ASSUME GInv, Next, NEW r \in Request,
                      request[r].at = "authenticated", request'[r].at = "refused"
               PROVE  Cardinality(OwnGrants(r)) >= MaxRequests
    OBVIOUS
  <2> DEFINE key   == KeyOf(r)
             entry == Entry(windows, key, request[r].now)
             own   == OwnGrants(r)
  <2>1. request \in [Request -> Progress] /\ clock \in Nat /\ request[r].now \in Nat
    BY DEF GInv, TypeOK, Time, Progress
  <2>2. Waiting(r) /\ Allow(r)
    <3>1. ~Tick
      BY DEF Tick
    <3>2. ASSUME NEW q \in Request, Arrive(q) PROVE FALSE
      BY <2>1, <3>2 DEF Arrive, Progress
    <3>3. ASSUME NEW q \in Request, Allow(q), q # r PROVE FALSE
      <4>1. PICK out : Decide(q, out)
        BY <3>3 DEF Allow
      <4>2. request'[r] = request[r]
        BY <2>1, <3>3, <4>1 DEF Decide
      <4> QED
        BY <4>2
    <3> QED
      BY <3>1, <3>2, <3>3 DEF Next
  <2>3. PICK out : /\ Decide(r, out)
                   /\ out = {} \/ \E o \in Evictions(KeyOf(r)) : out = {o}
    BY <2>2 DEF Allow
  <2>4. key.bucket = "authenticated" /\ Limit(key) = MaxRequests
    BY DEF KeyOf, Limit
  <2>5. ~(entry.count < Limit(key))
    <3> DEFINE at == IF ~(entry.count < Limit(key)) THEN "refused"
                     ELSE IF key.bucket # "pre-auth" THEN "admitted"
                     ELSE IF request[r].kind = "known" THEN "authenticated" ELSE "refused"
    <3>1. request' = [request EXCEPT ![r] = [[request[r] EXCEPT !.at = at] EXCEPT !.now = clock]]
      BY <2>3, Answer, Zenon
    <3>2. [[request[r] EXCEPT !.at = at] EXCEPT !.now = clock].at = at
      <4> HIDE DEF at
      <4> QED
        BY <2>1 DEF Progress
    <3> HIDE DEF entry, key
    <3>3. at = "refused"
      <4> HIDE DEF at
      <4> QED
        BY <2>1, <3>1, <3>2
    <3> QED
      BY <2>4, <3>3
  <2>6. key \in DOMAIN windows /\ entry = windows[key] /\ request[r].now - windows[key].start < Window
    <3>1. Opened(request[r].now).count = 0 /\ MaxRequests \in Nat \ {0}
      BY LimiterAssumption DEF Opened
    <3>2. entry # Opened(request[r].now)
      BY <2>4, <2>5, <3>1
    <3> QED
      <4>1. key \in DOMAIN windows /\ ~(request[r].now - windows[key].start >= Window) /\ entry = windows[key]
        BY <3>2, Zenon DEF Entry
      <4>2. windows[key].start \in Int /\ Window \in Int
        BY <4>1, LimiterAssumption DEF GInv, TypeOK, WindowEntry, Time
      <4> HIDE DEF entry, key
      <4> QED
        BY <2>1, <4>1, <4>2
  <2>7. windows[key].count \in Nat /\ windows[key].start \in Nat
    BY <2>6 DEF GInv, TypeOK, WindowEntry, Time
  <2> DEFINE spent == In(grants, key, windows[key].start)
  <2>8. windows[key].count <= Cardinality(spent)
    BY <2>6 DEF GInv, Backed
  <2>9. IsFiniteSet(spent) /\ Cardinality(spent) \in Nat /\ IsFiniteSet(own) /\ Cardinality(own) \in Nat
    <3>1. IsFiniteSet(grants) /\ own \subseteq grants
      BY DEF GInv, OwnGrants
    <3> QED
      BY <3>1, FewInWindow, FS_Subset, FS_CardinalityType
  <2>10. request[r].now <= clock /\ clock - request[r].now <= MaxWait
    BY <2>2 DEF GInv, Patient, Waiting
  <2>11. spent \subseteq own
    <3> SUFFICES ASSUME NEW g \in grants, g.key = key, g.window = windows[key].start
                 PROVE  request[g.by].kind = "known" /\ g.at > clock - 2 * Window
      BY DEF In, OwnGrants
    <3>1. request[g.by].kind = "known"
      BY <2>4 DEF GInv, Spent
    <3>2. g.window <= g.at /\ g.at \in Nat /\ g.window \in Nat
      BY DEF GInv, Dated, TypeOK, Time
    <3>3. Window \in Nat /\ MaxWait \in Nat /\ MaxWait < Window
      BY LimiterAssumption
    <3> HIDE DEF key, entry
    <3> QED
      BY <2>1, <2>6, <2>7, <2>10, <3>1, <3>2, <3>3
  <2>12. Cardinality(spent) <= Cardinality(own)
    <3> HIDE DEF spent, own
    <3> QED
      BY <2>9, <2>11, FS_Subset
  <2>13. MaxRequests \in Nat
    BY LimiterAssumption
  <2>14. Cardinality(own) >= MaxRequests
    <3> HIDE DEF spent, own, key, entry
    <3> QED
      BY <2>4, <2>5, <2>6, <2>7, <2>8, <2>9, <2>12, <2>13
  <2> QED
    BY <2>14
<1> QED
  BY <1>1, GrantInvariance, PTL DEF Spec
=============================================================================
