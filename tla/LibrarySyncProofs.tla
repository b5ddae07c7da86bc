-------------------------- MODULE LibrarySyncProofs --------------------------
(***************************************************************************)
(* A cursor passes over a row only when its device holds what the row says *)
(* (PassedRowsCovered), for any number of devices and snippets, any size   *)
(* of pages and batches, and any order of edits, syncs and failures.       *)
(***************************************************************************)
EXTENDS LibrarySync, FiniteSetTheorems, WellFoundedInduction, TLAPS

Rows == [Ids -> Row]
Bounds == [seq : Nat, stamp : Nat]

\* What a device with cursor c asks for.
Asked(c, pulls) == IF c.kind = "unknown" /\ pulls THEN [seq |-> 0, stamp |-> 0]
                   ELSE IF c.kind = "sequence" THEN [seq |-> c.seq, stamp |-> c.stamp]
                   ELSE [seq |-> 0, stamp |-> c.stamp]

\* Row r is in the delta of the request, or a cursor passes over it.
InDelta(r, req) == /\ r.ver # Absent
                   /\ IF req.seq # 0 THEN r.seq >= req.seq ELSE r.stamp >= req.stamp
PassedBy(r, c) == r.ver # Absent /\ ~InDelta(r, Asked(c, TRUE))

\* The rows of a request, and the position of one of them in the listing.
DeltaOf(rs, req) == {i \in Ids : InDelta(rs[i], req)}
Listing(rs, s, c) == DeltaOf(rs, Asked(c, s.dir # "push"))
Ahead(rs, j, i) == \/ rs[j].ver.time > rs[i].ver.time
                   \/ rs[j].ver.time = rs[i].ver.time /\ j > i
Rank(rs, i, range) == Cardinality({j \in range : Ahead(rs, j, i)})

\* The watermarks: a row written from now on is in the delta of what is below.
SeqTop(rs) == Max({rs[i].seq : i \in Ids} \cup {0})
StampTop(rs) == Max({rs[i].stamp : i \in Ids} \cup {0})
Below(req, rs) == req.seq <= Larger(SeqTop(rs), 1) /\ req.stamp <= StampTop(rs)

\* The cursor and the watermarks a device was answered are no later than the server.
Timely(s, c, rs) == /\ c.kind = "sequence" => c.seq # 0 /\ c.seq <= Larger(SeqTop(rs), 1)
                    /\ c.stamp <= StampTop(rs)
                    /\ s.phase \in {"merge", "cursor"} => Below(s, rs)

\* What was received is in the delta, and one version of it, if nobody wrote it since.
Fetched(s, c, rs) ==
    /\ s.phase \in {"idle", "upload"} \/ (s.phase = "page" /\ s.read = 0) =>
         s.read = 0 /\ \A i \in Ids : s.got[i] = {}
    /\ s.phase = "merge" => s.dir # "push"
    /\ \A i \in Ids : s.got[i] # {} => s.dir # "push" /\ InDelta(rs[i], Asked(c, TRUE))
    /\ s.phase \in {"page", "answer"} => \A i \in Ids \ s.raced : s.got[i] \subseteq {rs[i].ver}

Seen(s, rs, i) == s.dir # "push" /\ s.got[i] = {rs[i].ver}

\* The pages leave out no row before the offset.
Listed(s, c, rs) ==
    ~s.skipped =>
      /\ s.phase = "page" => \A i \in Listing(rs, s, c) \ s.raced :
                                Rank(rs, i, Listing(rs, s, c)) < s.read => Seen(s, rs, i)
      /\ s.phase = "answer" => \A i \in Listing(rs, s, c) \ s.raced : Seen(s, rs, i)

\* What the next cursor will pass over is received, then merged.
Answered(s, c, rs, copy, miss) ==
    ~s.skipped =>
      /\ s.phase = "merge" => \A i \in Ids \ s.raced : PassedBy(rs[i], Applied(c, s)) =>
                                 Seen(s, rs, i) \/ PassedBy(rs[i], c)
      /\ s.phase = "cursor" /\ (s.dir # "push" \/ c.kind = "timestamp") =>
           \A i \in Ids \ (s.raced \cup miss) : PassedBy(rs[i], Applied(c, s)) =>
              Covered(copy[i], rs[i].ver)

Held(c, rs, copy, miss) ==
    \A i \in Ids \ miss : PassedBy(rs[i], c) => Covered(copy[i], rs[i].ver)

Sound(s, c, rs, copy, miss) ==
    /\ Timely(s, c, rs) /\ Fetched(s, c, rs) /\ Listed(s, c, rs)
    /\ Answered(s, c, rs, copy, miss) /\ Held(c, rs, copy, miss)

IInv == /\ TypeOK
        /\ \A d \in Devices : Sound(session[d], cursor[d], rows, copies[d], missed[d])

---------------------------------------------------------------------------
(* Numbers and sets *)

\* A set of naturals that is not empty has a least element.
LEMMA Least == ASSUME NEW S \in SUBSET Nat, S # {} PROVE \E n \in S : \A m \in S : n <= m
<1> DEFINE less == {ss \in Nat \X Nat : ss[1] < ss[2]}
<1>1. IsWellFoundedOn(less, Nat)
  BY NatLessThanWellFounded DEF OpToRel
<1>2. PICK n \in S : \A m \in S : ~(<<m, n>> \in less)
  BY <1>1, WFMin, Zenon
<1>3. ASSUME NEW m \in S PROVE n <= m
  <2>1. m \in Nat /\ n \in Nat /\ ~(<<m, n>> \in less)
    BY <1>2
  <2> QED
    BY <2>1
<1> QED
  BY <1>3

\* A set of naturals up to n that is not empty has a greatest element.
LEMMA Greatest ==
  ASSUME NEW n \in Nat, NEW S \in SUBSET (0..n), S # {}
  PROVE  Max(S) \in S /\ Max(S) \in 0..n /\ \A y \in S : y <= Max(S)
<1> DEFINE T == {n - y : y \in S}
<1>1. T \in SUBSET Nat /\ T # {}
  <2>1. \A y \in S : n - y \in Nat
    OBVIOUS
  <2> QED
    BY <2>1
<1>2. PICK m \in T : \A k \in T : m <= k
  BY <1>1, Least
<1>3. PICK x \in S : m = n - x
  OBVIOUS
<1>4. ASSUME NEW y \in S PROVE x >= y
  <2>1. m <= n - y
    BY <1>2
  <2> QED
    BY <1>3, <2>1
<1>5. Max(S) \in S /\ \A y \in S : Max(S) >= y
  BY <1>4 DEF Max
<1> QED
  BY <1>5

\* The watermarks are those of some row, or zero, and of no row less.
LEMMA Tops ==
  ASSUME NEW rs \in Rows
  PROVE  /\ SeqTop(rs) \in 0..MaxSeq /\ StampTop(rs) \in 0..MaxTime
         /\ \A i \in Ids : rs[i].seq <= SeqTop(rs) /\ rs[i].stamp <= StampTop(rs)
         /\ SeqTop(rs) = 0 \/ \E i \in Ids : SeqTop(rs) = rs[i].seq
         /\ StampTop(rs) = 0 \/ \E i \in Ids : StampTop(rs) = rs[i].stamp
<1>1. \A i \in Ids : rs[i].seq \in 0..MaxSeq /\ rs[i].stamp \in 0..MaxTime
  BY DEF Rows, Row
<1> DEFINE S == {rs[i].seq : i \in Ids} \cup {0}
           T == {rs[i].stamp : i \in Ids} \cup {0}
<1>2. S \in SUBSET (0..MaxSeq) /\ S # {} /\ T \in SUBSET (0..MaxTime) /\ T # {}
  BY <1>1, ConstantsAssumption
<1>3. SeqTop(rs) = Max(S) /\ StampTop(rs) = Max(T)
  BY DEF SeqTop, StampTop
<1>4. \A i \in Ids : rs[i].seq \in S /\ rs[i].stamp \in T
  OBVIOUS
<1>5. /\ \A x \in S : x = 0 \/ \E i \in Ids : x = rs[i].seq
      /\ \A x \in T : x = 0 \/ \E i \in Ids : x = rs[i].stamp
  OBVIOUS
<1> HIDE DEF S, T
<1>6. Max(S) \in S /\ Max(S) \in 0..MaxSeq /\ \A y \in S : y <= Max(S)
  BY <1>2, Greatest, ConstantsAssumption
<1>7. Max(T) \in T /\ Max(T) \in 0..MaxTime /\ \A y \in T : y <= Max(T)
  BY <1>2, Greatest, ConstantsAssumption
<1> QED
  BY <1>3, <1>4, <1>5, <1>6, <1>7

\* Positions in a listing are distinct, and below its length.
LEMMA Ranks ==
  ASSUME NEW rs \in Rows, NEW range \in SUBSET Ids
  PROVE  /\ IsFiniteSet(range) /\ Cardinality(range) \in Nat
         /\ \A i \in range : Rank(rs, i, range) \in Nat /\ Rank(rs, i, range) < Cardinality(range)
         /\ \A i, j \in range : i # j => Rank(rs, i, range) # Rank(rs, j, range)
<1> DEFINE Preceding(i) == {j \in range : Ahead(rs, j, i)}
<1>1. IsFiniteSet(range) /\ Cardinality(range) \in Nat
  BY FS_Subset, FS_CardinalityType, ConstantsAssumption
<1>2. \A i \in Ids : rs[i].ver.time \in Nat
  BY ConstantsAssumption DEF Rows, Row, Version
<1>3. \A i \in range : i \in Ids /\ i \in Nat
  BY ConstantsAssumption
<1>4. ASSUME NEW i \in range
      PROVE  IsFiniteSet(Preceding(i)) /\ Cardinality(Preceding(i)) \in Nat /\ Cardinality(Preceding(i)) < Cardinality(range)
  <2>1. i \notin Preceding(i)
    BY <1>2, <1>3 DEF Ahead
  <2>2. Preceding(i) \subseteq range
    OBVIOUS
  <2> HIDE DEF Preceding
  <2>3. IsFiniteSet(Preceding(i)) /\ Cardinality(Preceding(i)) <= Cardinality(range) /\ Cardinality(Preceding(i)) \in Nat
        /\ (Cardinality(range) = Cardinality(Preceding(i)) => range = Preceding(i))
    BY <1>1, <2>2, FS_Subset, FS_CardinalityType
  <2> QED
    BY <1>1, <2>1, <2>3
<1>5. ASSUME NEW i \in range, NEW j \in range, Ahead(rs, j, i)
      PROVE  Cardinality(Preceding(j)) < Cardinality(Preceding(i))
  <2>1. Preceding(j) \subseteq Preceding(i)
    BY <1>2, <1>3, <1>5 DEF Ahead
  <2>2. j \in Preceding(i) /\ j \notin Preceding(j)
    BY <1>2, <1>3, <1>5 DEF Ahead
  <2> HIDE DEF Preceding
  <2>3. Cardinality(Preceding(j)) <= Cardinality(Preceding(i))
        /\ (Cardinality(Preceding(i)) = Cardinality(Preceding(j)) => Preceding(i) = Preceding(j))
    BY <1>4, <2>1, FS_Subset
  <2> QED
    BY <1>4, <2>2, <2>3
<1>6. ASSUME NEW i \in range, NEW j \in range, i # j
      PROVE  Cardinality(Preceding(i)) # Cardinality(Preceding(j))
  <2>1. Ahead(rs, i, j) \/ Ahead(rs, j, i)
    BY <1>2, <1>3, <1>6 DEF Ahead
  <2> HIDE DEF Preceding
  <2> QED
    BY <1>4, <1>5, <2>1
<1>7. \A i : Rank(rs, i, range) = Cardinality(Preceding(i))
  BY DEF Rank
<1> QED
  BY <1>1, <1>4, <1>6, <1>7

\* A page holds no more rows than its size.
LEMMA PageBounded ==
  ASSUME NEW rs \in Rows, NEW range \in SUBSET Ids, NEW read \in Nat
  PROVE  LET page == {i \in range : Rank(rs, i, range) \in read..(read + PageSize - 1)}
         IN  IsFiniteSet(page) /\ Cardinality(page) \in Nat /\ Cardinality(page) <= PageSize
<1> DEFINE slots == read..(read + PageSize - 1)
           page == {i \in range : Rank(rs, i, range) \in slots}
           f == [i \in page |-> Rank(rs, i, range)]
<1>1. f \in Injection(page, slots)
  BY Ranks DEF Injection, IsInjective
<1>2. PageSize \in Nat \ {0}
  BY ConstantsAssumption
<1>3. IsFiniteSet(slots) /\ Cardinality(slots) = PageSize
  BY <1>2, FS_Interval
<1> HIDE DEF f, slots, page
<1>4. IsFiniteSet(page) /\ Cardinality(page) <= PageSize
  BY <1>1, <1>3, FS_Injection
<1> QED
  BY <1>4, FS_CardinalityType DEF page, slots
---------------------------------------------------------------------------
(* Rows that are written *)

\* The rows W were written: they are above the watermarks there were.
Grows(W, rs, rs2) ==
    /\ W \subseteq Ids /\ rs2 \in Rows
    /\ \A i \in Ids \ W : rs2[i] = rs[i]
    /\ \A i \in W : /\ rs2[i].ver # Absent /\ rs2[i].ver.time >= rs[i].ver.time
                    /\ rs2[i].seq >= Larger(SeqTop(rs), 1) /\ rs2[i].stamp >= StampTop(rs)

\* A batch is written above the watermarks.
LEMMA UpsertGrows ==
  ASSUME TypeOK, NEW mine \in Library, NEW W \in SUBSET Ids,
         \A i \in W : mine[i] # Absent /\ mine[i].time >= rows[i].ver.time,
         TopSeq + Cardinality(W) <= MaxSeq, rows' = Upserted(W, mine)
  PROVE  Grows(W, rows, rows')
<1> DEFINE before(i) == {j \in W : j <= i}
           stamps(i) == {TopStamp} \cup {mine[j].time : j \in before(i)}
<1>1. rows \in Rows /\ TopSeq = SeqTop(rows) /\ TopStamp = StampTop(rows)
  BY DEF TypeOK, Rows, TopSeq, TopStamp, SeqTop, StampTop
<1>2. TopSeq \in 0..MaxSeq /\ TopStamp \in 0..MaxTime
  BY <1>1, Tops
<1>3. \A i \in Ids : mine[i] \in Version /\ mine[i].time \in 0..MaxTime
  BY DEF Library, Version
<1>4. IsFiniteSet(W) /\ Cardinality(W) \in Nat
  BY FS_Subset, FS_CardinalityType, ConstantsAssumption
<1>5. ASSUME NEW i \in W
      PROVE  Cardinality(before(i)) \in 1..Cardinality(W)
  <2>1. i \in before(i) /\ before(i) \subseteq W
    BY ConstantsAssumption
  <2> HIDE DEF before
  <2>2. /\ IsFiniteSet(before(i)) /\ Cardinality(before(i)) \in Nat
        /\ Cardinality(before(i)) <= Cardinality(W)
    BY <1>4, <2>1, FS_Subset, FS_CardinalityType
  <2>3. Cardinality(before(i)) # 0
    BY <2>1, <2>2, FS_EmptySet
  <2> QED
    BY <1>4, <2>2, <2>3
<1>6. ASSUME NEW i \in W
      PROVE  Max(stamps(i)) \in 0..MaxTime /\ Max(stamps(i)) >= TopStamp
  <2>1. stamps(i) \in SUBSET (0..MaxTime) /\ TopStamp \in stamps(i)
    BY <1>2, <1>3
  <2> HIDE DEF stamps
  <2> QED
    BY <1>2, <2>1, Greatest, ConstantsAssumption
<1>7. \A i \in Ids : rows'[i] = IF i \in W
                                THEN [ver |-> mine[i], seq |-> TopSeq + Cardinality(before(i)),
                                      stamp |-> Max(stamps(i))]
                                ELSE rows[i]
  BY DEF Upserted
<1> HIDE DEF before, stamps
<1>8. ASSUME NEW i \in W
      PROVE  /\ rows'[i] \in Row /\ rows'[i].ver = mine[i]
             /\ rows'[i].seq >= Larger(TopSeq, 1) /\ rows'[i].stamp >= TopStamp
  <2> DEFINE n == Cardinality(before(i))
             m == Max(stamps(i))
  <2>1. rows'[i] = [ver |-> mine[i], seq |-> TopSeq + n, stamp |-> m]
    BY <1>7
  <2>2. n \in 1..Cardinality(W) /\ m \in 0..MaxTime /\ m >= TopStamp
    BY <1>5, <1>6
  <2> HIDE DEF n, m
  <2>3. TopSeq + n \in 0..MaxSeq /\ TopSeq + n >= Larger(TopSeq, 1)
    BY <1>2, <1>4, <2>2, ConstantsAssumption DEF Larger
  <2> QED
    BY <1>3, <2>1, <2>2, <2>3 DEF Row
<1>9. rows' \in Rows
  <2>1. rows' = [i \in Ids |-> rows'[i]]
    BY DEF Upserted
  <2>2. \A i \in Ids : rows'[i] \in Row
    BY <1>1, <1>7, <1>8 DEF Rows
  <2> QED
    BY <2>1, <2>2 DEF Rows
<1> QED
  BY <1>1, <1>7, <1>8, <1>9 DEF Grows

\* Writing moves the watermarks up, takes no row out of a delta, and puts the written
\* ones into the delta of every request below the watermarks there were.
LEMMA DeltaGrows ==
  ASSUME NEW rs \in Rows, NEW rs2, NEW W, Grows(W, rs, rs2)
  PROVE  /\ SeqTop(rs) <= SeqTop(rs2) /\ StampTop(rs) <= StampTop(rs2)
         /\ \A req \in Bounds : Below(req, rs) => Below(req, rs2)
         /\ \A req \in Bounds, i \in Ids : InDelta(rs[i], req) => InDelta(rs2[i], req)
         /\ \A req \in Bounds, i \in W : Below(req, rs) => InDelta(rs2[i], req)
<1>1. rs2 \in Rows /\ W \subseteq Ids
  BY DEF Grows
<1>2. /\ SeqTop(rs) \in Nat /\ StampTop(rs) \in Nat /\ SeqTop(rs2) \in Nat /\ StampTop(rs2) \in Nat
      /\ \A i \in Ids : /\ rs[i].seq \in Nat /\ rs[i].stamp \in Nat
                        /\ rs2[i].seq \in Nat /\ rs2[i].stamp \in Nat
                        /\ rs[i].seq <= SeqTop(rs) /\ rs[i].stamp <= StampTop(rs)
                        /\ rs2[i].seq <= SeqTop(rs2) /\ rs2[i].stamp <= StampTop(rs2)
  BY <1>1, Tops, ConstantsAssumption DEF Rows, Row
<1>3. \A i \in Ids : rs2[i].seq >= rs[i].seq /\ rs2[i].stamp >= rs[i].stamp
  BY <1>2 DEF Grows, Larger
<1>4. SeqTop(rs) <= SeqTop(rs2)
  <2>1. CASE SeqTop(rs) = 0
    BY <1>2, <2>1
  <2>2. ASSUME NEW i \in Ids, SeqTop(rs) = rs[i].seq PROVE SeqTop(rs) <= SeqTop(rs2)
    BY <1>2, <1>3, <2>2
  <2> QED
    BY <2>1, <2>2, Tops
<1>5. StampTop(rs) <= StampTop(rs2)
  <2>1. CASE StampTop(rs) = 0
    BY <1>2, <2>1
  <2>2. ASSUME NEW i \in Ids, StampTop(rs) = rs[i].stamp PROVE StampTop(rs) <= StampTop(rs2)
    BY <1>2, <1>3, <2>2
  <2> QED
    BY <2>1, <2>2, Tops
<1>6. \A req \in Bounds : Below(req, rs) => Below(req, rs2)
  BY <1>2, <1>4, <1>5 DEF Bounds, Below, Larger
<1>7. \A req \in Bounds, i \in Ids : InDelta(rs[i], req) => InDelta(rs2[i], req)
  <2> SUFFICES ASSUME NEW req \in Bounds, NEW i \in Ids, InDelta(rs[i], req) PROVE InDelta(rs2[i], req)
    OBVIOUS
  <2>1. rs2[i].ver # Absent
    BY DEF Grows, InDelta
  <2> QED
    BY <1>2, <1>3, <2>1 DEF InDelta, Bounds
<1>8. \A req \in Bounds, i \in W : Below(req, rs) => InDelta(rs2[i], req)
  BY <1>1, <1>2 DEF Grows, Below, InDelta, Bounds, Larger
<1> QED
  BY <1>4, <1>5, <1>6, <1>7, <1>8

\* A row nobody wrote does not move up in a listing that grows.
LEMMA RankGrows ==
  ASSUME NEW rs \in Rows, NEW rs2, NEW W, Grows(W, rs, rs2),
         NEW range \in SUBSET Ids, NEW range2 \in SUBSET Ids, range \subseteq range2,
         NEW i \in range, i \notin W
  PROVE  Rank(rs, i, range) <= Rank(rs2, i, range2)
<1> DEFINE before == {j \in range : Ahead(rs, j, i)}
           after == {j \in range2 : Ahead(rs2, j, i)}
<1>1. /\ rs2 \in Rows /\ rs2[i] = rs[i]
      /\ \A j \in Ids : /\ rs[j].ver.time \in Nat /\ rs2[j].ver.time \in Nat /\ j \in Nat
                        /\ rs2[j].ver.time >= rs[j].ver.time
  BY ConstantsAssumption DEF Grows, Rows, Row, Version
<1>2. before \subseteq after
  BY <1>1 DEF Ahead
<1>3. IsFiniteSet(after)
  BY FS_Subset, ConstantsAssumption
<1> HIDE DEF before, after
<1>4. Cardinality(before) <= Cardinality(after)
  BY <1>2, <1>3, FS_Subset
<1> QED
  BY <1>4 DEF Rank, before, after

\* The requests of typed cursors, and what they are below of.
LEMMA AskedBelow ==
  ASSUME NEW rs \in Rows, NEW c \in Cursor, NEW s \in Session, NEW pulls \in BOOLEAN, Timely(s, c, rs)
  PROVE  /\ Asked(c, pulls) \in Bounds /\ Below(Asked(c, pulls), rs)
         /\ Applied(c, s) \in Cursor /\ Asked(Applied(c, s), pulls) \in Bounds
         /\ s.phase \in {"merge", "cursor"} => /\ Below(Asked(Applied(c, s), pulls), rs)
                                              /\ Timely(NoSession, Applied(c, s), rs)
<1>1. c.seq \in Nat /\ c.stamp \in Nat /\ s.seq \in Nat /\ s.stamp \in Nat
      /\ c.kind \in {"unknown", "timestamp", "sequence"}
  BY DEF Cursor, Session
<1>2. SeqTop(rs) \in Nat /\ StampTop(rs) \in Nat /\ Larger(SeqTop(rs), 1) >= 0
  BY Tops, ConstantsAssumption DEF Larger
<1>3. Asked(c, pulls) \in Bounds /\ Below(Asked(c, pulls), rs)
  BY <1>1, <1>2 DEF Asked, Bounds, Below, Timely
<1> DEFINE a == Applied(c, s)
<1>4. a \in Cursor
  BY <1>1 DEF Applied, Cursor
<1>5. s.phase \in {"merge", "cursor"} =>
         /\ a.kind = "sequence" => a.seq # 0 /\ a.seq <= Larger(SeqTop(rs), 1)
         /\ a.stamp <= StampTop(rs)
  BY <1>1, <1>2 DEF Applied, Cursor, Timely, Below
<1> HIDE DEF a
<1>6. a.seq \in Nat /\ a.stamp \in Nat /\ a.kind \in {"unknown", "timestamp", "sequence"}
  BY <1>4 DEF Cursor
<1>7. Asked(a, pulls) \in Bounds
  BY <1>6 DEF Asked, Bounds
<1>8. s.phase \in {"merge", "cursor"} => Below(Asked(a, pulls), rs)
  BY <1>2, <1>5, <1>6 DEF Asked, Below
<1>9. s.phase \in {"merge", "cursor"} => Timely(NoSession, a, rs)
  BY <1>5 DEF Timely, NoSession
<1> QED
  BY <1>3, <1>4, <1>7, <1>8, <1>9 DEF a

\* An invariant device remains so when other devices write rows: those it reads
\* meanwhile it remembers.
LEMMA SoundGrows ==
  ASSUME NEW rs \in Rows, NEW rs2, NEW W, Grows(W, rs, rs2), NEW c \in Cursor,
         NEW s \in Session, NEW s2 \in Session, NEW copy, NEW miss, Sound(s, c, rs, copy, miss),
         s2 = IF s.phase = "answer" \/ (s.phase = "page" /\ s.read > 0)
              THEN [s EXCEPT !.raced = @ \cup W] ELSE s
  PROVE  Sound(s2, c, rs2, copy, miss)
<1>1. rs2 \in Rows /\ W \subseteq Ids /\ \A i \in Ids \ W : rs2[i] = rs[i]
  BY DEF Grows
<1>2. /\ s2.phase = s.phase /\ s2.dir = s.dir /\ s2.got = s.got /\ s2.read = s.read
      /\ s2.skipped = s.skipped /\ s2.seq = s.seq /\ s2.stamp = s.stamp
      /\ s.raced \subseteq s2.raced
      /\ s.phase = "answer" \/ (s.phase = "page" /\ s.read > 0) => W \subseteq s2.raced
      /\ s.phase \in {"merge", "cursor"} => s2.raced = s.raced
  BY DEF Session
<1>3. s.read \in Nat /\ s.seq \in Nat /\ s.stamp \in Nat
  BY DEF Session
<1>4. Timely(s, c, rs)
  BY DEF Sound
<1>5. /\ SeqTop(rs) <= SeqTop(rs2) /\ StampTop(rs) <= StampTop(rs2)
      /\ \A req \in Bounds, i \in Ids : InDelta(rs[i], req) => InDelta(rs2[i], req)
      /\ \A req \in Bounds, i \in W : Below(req, rs) => InDelta(rs2[i], req)
  BY DeltaGrows
<1>6. /\ SeqTop(rs) \in Nat /\ StampTop(rs) \in Nat /\ SeqTop(rs2) \in Nat /\ StampTop(rs2) \in Nat
      /\ c.seq \in Nat /\ c.stamp \in Nat
  BY <1>1, Tops, ConstantsAssumption DEF Cursor
<1>7. Timely(s2, c, rs2)
  BY <1>2, <1>3, <1>4, <1>5, <1>6 DEF Timely, Below, Larger
<1>8. Asked(c, TRUE) \in Bounds /\ Below(Asked(c, TRUE), rs)
  BY <1>4, AskedBelow
<1>9. Applied(c, s2) = Applied(c, s)
  BY <1>2 DEF Applied
<1>10. \A i \in Ids : /\ InDelta(rs[i], Asked(c, TRUE)) => InDelta(rs2[i], Asked(c, TRUE))
                      /\ PassedBy(rs2[i], c) => i \notin W /\ PassedBy(rs[i], c)
  BY <1>1, <1>5, <1>8 DEF PassedBy
<1>11. s.phase \in {"merge", "cursor"} =>
          \A i \in Ids : PassedBy(rs2[i], Applied(c, s)) => i \notin W /\ PassedBy(rs[i], Applied(c, s))
  <2>1. s.phase \in {"merge", "cursor"} =>
          Asked(Applied(c, s), TRUE) \in Bounds /\ Below(Asked(Applied(c, s), TRUE), rs)
    BY <1>4, AskedBelow
  <2> QED
    BY <1>1, <1>5, <2>1 DEF PassedBy
<1>12. Held(c, rs2, copy, miss)
  BY <1>1, <1>10 DEF Sound, Held
<1>13. Fetched(s2, c, rs2)
  <2>1. Fetched(s, c, rs)
    BY DEF Sound
  <2>2. \A i \in Ids : s.got[i] # {} => s.dir # "push" /\ InDelta(rs2[i], Asked(c, TRUE))
    BY <1>10, <2>1 DEF Fetched
  <2>3. ASSUME s.phase \in {"page", "answer"}, NEW i \in Ids \ s2.raced
        PROVE  s.got[i] \subseteq {rs2[i].ver}
    <3>1. CASE s.phase = "page" /\ s.read = 0
      BY <2>1, <3>1 DEF Fetched
    <3>2. CASE s.phase = "answer" \/ s.read > 0
      <4>1. i \notin W /\ i \notin s.raced
        BY <1>2, <2>3, <3>2
      <4> QED
        BY <1>1, <2>1, <2>3, <4>1 DEF Fetched
    <3> QED
      BY <1>3, <2>3, <3>1, <3>2
  <2> QED
    BY <1>2, <2>1, <2>2, <2>3 DEF Fetched
<1>14. Listed(s2, c, rs2)
  <2> DEFINE range == Listing(rs, s, c)
             range2 == Listing(rs2, s, c)
  <2>1. Listed(s, c, rs)
    BY DEF Sound
  <2>2. (s.dir # "push") \in BOOLEAN
    OBVIOUS
  <2>3. Asked(c, s.dir # "push") \in Bounds
    BY <1>4, <2>2, AskedBelow
  <2>4. range \subseteq range2 /\ range2 \subseteq Ids
    BY <1>5, <2>3 DEF Listing, DeltaOf
  <2>5. Listing(rs2, s2, c) = range2
    BY <1>2 DEF Listing
  <2>6. \A i \in range2 \ W : i \in range
    BY <1>1 DEF Listing, DeltaOf
  <2> HIDE DEF range, range2
  <2>7. ASSUME ~s.skipped, s.phase = "page", NEW i \in range2 \ s2.raced, Rank(rs2, i, range2) < s.read
        PROVE  Seen(s2, rs2, i)
    <3>1. Rank(rs2, i, range2) \in Nat
      BY <1>1, <2>4, <2>7, Ranks
    <3>2. s.read > 0
      BY <1>3, <2>7, <3>1
    <3>3. i \notin W /\ i \notin s.raced /\ i \in range
      BY <1>2, <2>6, <2>7, <3>2
    <3>4. Rank(rs, i, range) <= Rank(rs2, i, range2) /\ Rank(rs, i, range) \in Nat
      BY <2>4, <3>3, RankGrows, Ranks
    <3>5. Rank(rs, i, range) < s.read
      BY <1>3, <2>7, <3>1, <3>4
    <3>6. Seen(s, rs, i)
      BY <2>1, <2>7, <3>3, <3>5 DEF Listed, range
    <3> QED
      BY <1>1, <1>2, <2>4, <3>3, <3>6 DEF Seen
  <2>8. ASSUME ~s.skipped, s.phase = "answer", NEW i \in range2 \ s2.raced
        PROVE  Seen(s2, rs2, i)
    <3>1. i \notin W /\ i \notin s.raced /\ i \in range
      BY <1>2, <2>6, <2>8
    <3>2. Seen(s, rs, i)
      BY <2>1, <2>8, <3>1 DEF Listed, range
    <3> QED
      BY <1>1, <1>2, <2>4, <3>1, <3>2 DEF Seen
  <2> QED
    BY <1>2, <2>5, <2>7, <2>8 DEF Listed
<1>15. Answered(s2, c, rs2, copy, miss)
  <2>1. Answered(s, c, rs, copy, miss)
    BY DEF Sound
  <2>2. ASSUME ~s.skipped, s.phase = "merge", NEW i \in Ids \ s.raced, PassedBy(rs2[i], Applied(c, s))
        PROVE  Seen(s2, rs2, i) \/ PassedBy(rs2[i], c)
    <3>1. i \notin W /\ PassedBy(rs[i], Applied(c, s)) /\ rs2[i] = rs[i]
      BY <1>1, <1>11, <2>2
    <3> QED
      BY <1>2, <2>1, <2>2, <3>1 DEF Answered, Seen
  <2>3. ASSUME ~s.skipped, s.phase = "cursor", s.dir # "push" \/ c.kind = "timestamp",
               NEW i \in Ids \ (s.raced \cup miss), PassedBy(rs2[i], Applied(c, s))
        PROVE  Covered(copy[i], rs2[i].ver)
    <3>1. PassedBy(rs[i], Applied(c, s)) /\ rs2[i] = rs[i]
      BY <1>1, <1>11, <2>3
    <3> QED
      BY <2>1, <2>3, <3>1 DEF Answered
  <2> QED
    BY <1>2, <1>9, <2>2, <2>3 DEF Answered
<1> QED
  BY <1>7, <1>12, <1>13, <1>14, <1>15 DEF Sound
---------------------------------------------------------------------------
(* The steps of the devices *)

\* The model's requests, listings and exceptions are those of the definitions above.
LEMMA Translated ==
  ASSUME TypeOK, NEW d \in Devices
  PROVE  /\ rows \in Rows /\ TopSeq = SeqTop(rows) /\ TopStamp = StampTop(rows)
         /\ \A pulls \in BOOLEAN : /\ Request(d, pulls) = Asked(cursor[d], pulls)
                                   /\ Delta(Request(d, pulls)) = DeltaOf(rows, Asked(cursor[d], pulls))
         /\ \A range, i : Position(i, range) = Rank(rows, i, range)
         /\ Passed(d) = {i \in Ids : PassedBy(rows[i], cursor[d])}
<1>1. rows \in Rows /\ TopSeq = SeqTop(rows) /\ TopStamp = StampTop(rows)
  BY DEF TypeOK, Rows, TopSeq, TopStamp, SeqTop, StampTop
<1>2. \A pulls \in BOOLEAN : Request(d, pulls) = Asked(cursor[d], pulls)
  BY DEF Request, Asked
<1>3. \A req : Delta(req) = DeltaOf(rows, req)
  BY DEF Delta, DeltaOf, InDelta
<1>4. \A range, i : Position(i, range) = Rank(rows, i, range)
  BY DEF Position, Rank, Before, Ahead
<1>5. Passed(d) = {i \in Ids : PassedBy(rows[i], cursor[d])}
  BY <1>2, <1>3 DEF Passed, PassedBy, DeltaOf
<1> QED
  BY <1>1, <1>2, <1>3, <1>4, <1>5

\* A step of one device that writes no row is judged by that device alone.
LEMMA OneDevice ==
  ASSUME IInv, NEW d \in Devices, TypeOK', rows' = rows,
         \A e \in Devices \ {d} : /\ session'[e] = session[e] /\ cursor'[e] = cursor[e]
                                  /\ copies'[e] = copies[e] /\ missed'[e] = missed[e],
         Sound(session'[d], cursor'[d], rows, copies'[d], missed'[d])
  PROVE  IInv'
<1>1. \A e \in Devices : Sound(session'[e], cursor'[e], rows, copies'[e], missed'[e])
  BY DEF IInv
<1> QED
  BY <1>1 DEF IInv

\* A session that has received nothing yet.
LEMMA FreshSound ==
  ASSUME NEW rs \in Rows, NEW c, NEW s \in Session, NEW copy, NEW miss,
         s.phase \in {"idle", "upload", "page"}, s.read = 0, \A i \in Ids : s.got[i] = {},
         Timely(NoSession, c, rs), Held(c, rs, copy, miss)
  PROVE  Sound(s, c, rs, copy, miss)
<1>1. Timely(s, c, rs)
  BY DEF Timely, NoSession
<1>2. Fetched(s, c, rs)
  BY DEF Fetched
<1>3. Listed(s, c, rs)
  <2>1. Listing(rs, s, c) \in SUBSET Ids
    BY DEF Listing, DeltaOf
  <2>2. \A i \in Listing(rs, s, c) : Rank(rs, i, Listing(rs, s, c)) \in Nat
    BY <2>1, Ranks
  <2>3. \A i \in Listing(rs, s, c) : ~(Rank(rs, i, Listing(rs, s, c)) < s.read)
    BY <2>2
  <2> QED
    BY <2>3 DEF Listed
<1>4. Answered(s, c, rs, copy, miss)
  BY DEF Answered
<1> QED
  BY <1>1, <1>2, <1>3, <1>4 DEF Sound

\* The session that rests.
LEMMA NoSessionTyped == NoSession \in Session /\ NoSession.got = [i \in Ids |-> {}]
<1>1. Absent \in Version
  BY ConstantsAssumption DEF Absent, Version
<1>2. EmptyLibrary \in Library
  BY <1>1 DEF EmptyLibrary, Library
<1> QED
  BY <1>2 DEF NoSession, Session

\* An edit wins over every row its snippet won over.
LEMMA PutKeeps ==
  ASSUME IInv, NEW d \in Devices, NEW i \in Ids, NEW v \in Version, Put(d, i, v),
         rows[i].ver # Absent /\ Covered(copies[d][i], rows[i].ver) => Covered(v, rows[i].ver)
  PROVE  IInv'
<1>1. TypeOK
  BY DEF IInv
<1> DEFINE lib == [copies[d] EXCEPT ![i] = v]
<1>2. copies[d] \in Library /\ lib \in Library
  BY <1>1 DEF TypeOK, Library
<1>3. copies' = [copies EXCEPT ![d] = lib]
  BY <1>1, <1>2 DEF Put, TypeOK
<1>4. \A j \in Ids : lib[j] = IF j = i THEN v ELSE copies[d][j]
  BY <1>2 DEF Library
<1> HIDE DEF lib
<1>5. copies' \in [Devices -> Library] /\ copies'[d] = lib
      /\ \A e \in Devices \ {d} : copies'[e] = copies[e]
  BY <1>1, <1>2, <1>3 DEF TypeOK
<1>6. UNCHANGED <<cursor, session, rows, missed>>
  BY DEF Put
<1>7. TypeOK'
  <2>1. buried' \in [Devices -> SUBSET Ids]
    BY <1>1 DEF Put, TypeOK
  <2>2. edits' \in 0..MaxEdits
    BY <1>1, ConstantsAssumption DEF Put, TypeOK
  <2> QED
    BY <1>1, <1>5, <1>6, <2>1, <2>2 DEF TypeOK
<1>8. \A j \in Ids : rows[j].ver # Absent /\ Covered(copies[d][j], rows[j].ver) => Covered(lib[j], rows[j].ver)
  BY <1>4
<1>9. Sound(session[d], cursor[d], rows, copies[d], missed[d])
  BY DEF IInv
<1>10. Held(cursor[d], rows, lib, missed[d])
  BY <1>8, <1>9 DEF Sound, Held, PassedBy
<1>11. Answered(session[d], cursor[d], rows, lib, missed[d])
  BY <1>8, <1>9 DEF Sound, Answered, PassedBy
<1>12. Sound(session[d], cursor[d], rows, lib, missed[d])
  BY <1>9, <1>10, <1>11 DEF Sound
<1> QED
  BY <1>5, <1>6, <1>7, <1>12, OneDevice

\* The three edits of a library.
LEMMA EditKeeps ==
  ASSUME IInv, NEW d \in Devices, NEW i \in Ids, NEW t \in 1..MaxTime,
         Create(d, i, t) \/ Edit(d, i, t) \/ Delete(d, i, t)
  PROVE  IInv'
<1>1. copies[d][i] \in Version /\ rows[i].ver \in Version /\ t \in 0..MaxTime
  BY ConstantsAssumption DEF IInv, TypeOK, Library, Row
<1> DEFINE new == [time |-> t, by |-> d, deleted |-> FALSE]
           gone == [copies[d][i] EXCEPT !.time = t, !.deleted = TRUE]
<1>2. new \in Version /\ gone \in Version /\ gone.deleted
  BY <1>1 DEF Version
<1>3. new # Absent /\ gone # Absent
  BY <1>1, <1>2, ConstantsAssumption DEF Absent
<1>4. CASE Create(d, i, t)
  BY <1>2, <1>4, PutKeeps DEF Create
<1>5. CASE Edit(d, i, t)
  <2>1. Live(copies[d][i]) /\ t > copies[d][i].time /\ Put(d, i, new)
    BY <1>5 DEF Edit
  <2>2. Covered(copies[d][i], rows[i].ver) => Covered(new, rows[i].ver)
    BY <1>1, <1>3, <2>1, ConstantsAssumption DEF Covered, Live, Beats, Version
  <2> QED
    BY <1>2, <2>1, <2>2, PutKeeps
<1>6. CASE Delete(d, i, t)
  <2>1. Put(d, i, gone)
    BY <1>6 DEF Delete
  <2>2. Covered(gone, rows[i].ver)
    BY <1>2, <1>3 DEF Covered, Live
  <2> QED
    BY <1>2, <2>1, <2>2, PutKeeps
<1> QED
  BY <1>4, <1>5, <1>6

\* A step that changes the session of one device only.
LEMMA SessionStep ==
  ASSUME IInv, NEW d \in Devices, NEW s \in Session, SetSession(d, s),
         UNCHANGED <<copies, cursor, rows, missed, buried, edits>>,
         Sound(s, cursor[d], rows, copies[d], missed[d])
  PROVE  IInv'
<1>1. session' \in [Devices -> Session] /\ session'[d] = s /\ \A e \in Devices \ {d} : session'[e] = session[e]
  BY DEF IInv, TypeOK, SetSession
<1>2. TypeOK'
  BY <1>1 DEF IInv, TypeOK
<1> QED
  BY <1>1, <1>2, OneDevice

\* What every session rests on.
LEMMA Basics ==
  ASSUME IInv, NEW d \in Devices
  PROVE  /\ session[d] \in Session /\ cursor[d] \in Cursor /\ copies[d] \in Library
         /\ missed[d] \in SUBSET Ids /\ rows \in Rows /\ TypeOK
         /\ Sound(session[d], cursor[d], rows, copies[d], missed[d])
         /\ Timely(NoSession, cursor[d], rows) /\ Held(cursor[d], rows, copies[d], missed[d])
<1>1. Sound(session[d], cursor[d], rows, copies[d], missed[d])
  BY DEF IInv
<1>2. Timely(NoSession, cursor[d], rows) /\ Held(cursor[d], rows, copies[d], missed[d])
  BY <1>1 DEF Sound, Timely, NoSession
<1> QED
  BY <1>1, <1>2 DEF IInv, TypeOK, Rows

\* A sync begins.
LEMMA BeginSyncKeeps ==
  ASSUME IInv, NEW d \in Devices, NEW dir \in {"both", "push", "pull"}, BeginSync(d, dir)
  PROVE  IInv'
<1> DEFINE all == {i \in Ids : copies[d][i] # Absent}
<1>1. PICK bad \in SUBSET all :
        SetSession(d, [NoSession EXCEPT
            !.phase = IF dir = "pull" \/ bad = all THEN "page" ELSE "upload",
            !.dir = dir, !.skipped = bad # {},
            !.mine = [i \in Ids |-> IF dir = "pull" \/ i \in bad THEN Absent ELSE copies[d][i]]])
  BY DEF BeginSync
<1> DEFINE mine == [i \in Ids |-> IF dir = "pull" \/ i \in bad THEN Absent ELSE copies[d][i]]
           phase == IF dir = "pull" \/ bad = all THEN "page" ELSE "upload"
           skipped == bad # {}
           s == [NoSession EXCEPT !.phase = phase, !.dir = dir, !.skipped = skipped, !.mine = mine]
<1>2. mine \in Library
  <2>1. Absent \in Version /\ copies[d] \in [Ids -> Version]
    BY Basics, ConstantsAssumption DEF Absent, Version, Library
  <2> QED
    BY <2>1 DEF Library
<1>3. phase \in {"page", "upload"} /\ skipped \in BOOLEAN
  OBVIOUS
<1>4. SetSession(d, s)
  BY <1>1
<1> HIDE DEF mine, phase, skipped
<1>5. s \in Session /\ s.phase = phase /\ s.read = 0 /\ \A i \in Ids : s.got[i] = {}
  BY <1>2, <1>3, NoSessionTyped DEF Session, NoSession
<1>6. UNCHANGED <<copies, cursor, rows, missed, buried, edits>>
  BY DEF BeginSync
<1> HIDE DEF s
<1>7. Sound(s, cursor[d], rows, copies[d], missed[d])
  BY <1>3, <1>5, Basics, FreshSound
<1> QED
  BY <1>4, <1>5, <1>6, <1>7, SessionStep

\* A sync is given up.
LEMMA AbortKeeps ==
  ASSUME IInv, NEW d \in Devices, Abort(d)
  PROVE  IInv'
<1>1. NoSession.phase = "idle" /\ NoSession.read = 0 /\ \A i \in Ids : NoSession.got[i] = {}
  BY DEF NoSession
<1>2. Sound(NoSession, cursor[d], rows, copies[d], missed[d])
  BY <1>1, Basics, FreshSound, NoSessionTyped
<1> QED
  BY <1>2, NoSessionTyped, SessionStep DEF Abort

\* A batch is written: the readers among the devices remember its rows.
LEMMA UploadKeeps ==
  ASSUME IInv, NEW d \in Devices, NEW W \in SUBSET Batch(d), WriteBatch(d, W)
  PROVE  IInv'
<1> DEFINE s == session[d]
           B == Batch(d)
<1>1. s \in Session /\ s.mine \in Library /\ s.phase = "upload" /\ B \subseteq Ids
  BY Basics DEF Session, WriteBatch, Batch
<1>2. /\ W \subseteq Later(B, s.mine) \cup Tied(B, s.mine)
      /\ TopSeq + Cardinality(W) <= MaxSeq /\ rows' = Upserted(W, s.mine)
  BY DEF WriteBatch
<1>3. \A i \in B : s.mine[i] # Absent
  BY DEF Batch
<1>4. \A i \in Ids : s.mine[i].time \in Nat /\ rows[i].ver.time \in Nat
  BY <1>1, Basics, ConstantsAssumption DEF Rows, Row, Library, Version
<1>5. \A i \in W : s.mine[i] # Absent /\ s.mine[i].time >= rows[i].ver.time
  BY <1>1, <1>2, <1>3, <1>4 DEF Later, Tied
<1>6. Grows(W, rows, rows')
  BY <1>1, <1>2, <1>5, Basics, UpsertGrows
<1>7. PICK next \in {Uploaded(s, B), s} :
         session' = [e \in Devices |-> IF e = d THEN next
                        ELSE IF Reading(e) THEN [session[e] EXCEPT !.raced = @ \cup W] ELSE session[e]]
  BY DEF WriteBatch
<1>8. UNCHANGED <<copies, cursor, missed, buried, edits>>
  BY DEF WriteBatch
<1>9. /\ next \in Session /\ next.phase \in {"upload", "page"} /\ next.read = s.read /\ next.got = s.got
  <2>1. CASE next = s
    BY <1>1, <2>1
  <2>2. CASE next = Uploaded(s, B)
    <3> DEFINE left == [i \in Ids |-> IF i \in B THEN Absent ELSE s.mine[i]]
    <3>1. left \in Library
      BY <1>1, ConstantsAssumption DEF Library, Version, Absent
    <3>2. next = [s EXCEPT !.mine = left, !.phase = IF left = EmptyLibrary THEN "page" ELSE "upload"]
      BY <2>2 DEF Uploaded
    <3> HIDE DEF left
    <3> QED
      BY <1>1, <3>1, <3>2 DEF Session
  <2> QED
    BY <2>1, <2>2
<1>10. s.read = 0 /\ \A i \in Ids : s.got[i] = {}
  BY <1>1, Basics DEF Sound, Fetched
<1>11. rows' \in Rows
  BY <1>6 DEF Grows
<1>12. ASSUME NEW e \in Devices PROVE Sound(session'[e], cursor[e], rows', copies[e], missed[e]) /\ session'[e] \in Session
  <2> DEFINE t == IF session[e].phase = "answer" \/ (session[e].phase = "page" /\ session[e].read > 0)
                  THEN [session[e] EXCEPT !.raced = @ \cup W] ELSE session[e]
  <2>1. t \in Session
    BY <1>1, Basics DEF Session
  <2>2. Sound(t, cursor[e], rows', copies[e], missed[e])
    BY <1>6, <2>1, Basics, SoundGrows
  <2>3. CASE e # d
    BY <1>7, <2>1, <2>2, <2>3 DEF Reading
  <2>4. CASE e = d
    <3>1. session'[e] = next
      BY <1>7, <2>4
    <3>2. Timely(NoSession, cursor[e], rows') /\ Held(cursor[e], rows', copies[e], missed[e])
      BY <2>2 DEF Sound, Timely, NoSession
    <3> QED
      BY <1>9, <1>10, <1>11, <3>1, <3>2, FreshSound
  <2> QED
    BY <2>3, <2>4
<1>13. TypeOK'
  <2>1. session' \in [Devices -> Session]
    BY <1>7, <1>12
  <2> QED
    BY <1>8, <1>11, <2>1, Basics DEF TypeOK, Rows
<1> QED
  BY <1>8, <1>12, <1>13 DEF IInv

\* A page is read: what it holds was received, and the next one begins behind it.
LEMMA ReadPageKeeps ==
  ASSUME IInv, NEW d \in Devices, ReadPage(d)
  PROVE  IInv'
<1> DEFINE s == session[d]
           c == cursor[d]
           range == Listing(rows, s, c)
           page == {i \in range : Rank(rows, i, range) \in s.read..(s.read + PageSize - 1)}
           more == Cardinality(range) > s.read + PageSize
<1>1. /\ s \in Session /\ s.phase = "page" /\ s.read \in Nat /\ s.raced \subseteq Ids /\ rows \in Rows
      /\ s.got \in [Ids -> SUBSET Version]
  BY Basics DEF Session, ReadPage
<1>2. range = Delta(Request(d, s.dir # "push"))
  <2>1. (s.dir # "push") \in BOOLEAN
    OBVIOUS
  <2> QED
    BY <2>1, Basics, Translated DEF Listing
<1>3. page = {i \in range : Position(i, range) \in s.read..(s.read + PageSize - 1)}
  BY Basics, Translated
<1> DEFINE After(listed, read, bad) ==
             [s EXCEPT
                !.got = [i \in Ids |-> IF i \in read \ bad /\ s.dir # "push"
                                       THEN @[i] \cup {rows[i].ver} ELSE @[i]],
                !.read = IF Cardinality(listed) > s.read + PageSize THEN @ + Cardinality(read) ELSE 0,
                !.raced = IF s.dir = "push" THEN @ \cup read
                          ELSE @ \ {i \in read \ bad : s.got[i] = {}},
                !.phase = IF Cardinality(listed) > s.read + PageSize THEN "page" ELSE "answer",
                !.skipped = @ \/ bad # {}]
           first == Delta(Request(d, s.dir # "push"))
           start == {i \in first : Position(i, first) \in s.read..(s.read + PageSize - 1)}
<1>4. PICK bad \in SUBSET page : SetSession(d, After(range, page, bad))
  <2>1. \E bad \in IF Fault("skip") THEN SUBSET start ELSE {{}} : SetSession(d, After(first, start, bad))
    BY Zenon DEF ReadPage
  <2>2. first = range /\ start = page
    BY <1>2, <1>3
  <2>3. (IF Fault("skip") THEN SUBSET start ELSE {{}}) \subseteq SUBSET start
    OBVIOUS
  <2> HIDE DEF first, start, range, page, After
  <2> QED
    BY <2>1, <2>2, <2>3
<1> DEFINE got == [i \in Ids |-> IF i \in page \ bad /\ s.dir # "push"
                                 THEN s.got[i] \cup {rows[i].ver} ELSE s.got[i]]
           read == IF more THEN s.read + Cardinality(page) ELSE 0
           raced == IF s.dir = "push" THEN s.raced \cup page
                    ELSE s.raced \ {i \in page \ bad : s.got[i] = {}}
           phase == IF more THEN "page" ELSE "answer"
           skipped == s.skipped \/ bad # {}
           s2 == [s EXCEPT !.got = got, !.read = read, !.raced = raced, !.phase = phase, !.skipped = skipped]
<1>5. range \in SUBSET Ids /\ Cardinality(range) \in Nat
      /\ \A i \in range : Rank(rows, i, range) \in Nat /\ Rank(rows, i, range) < Cardinality(range)
  <2>1. range \in SUBSET Ids
    BY DEF Listing, DeltaOf
  <2> HIDE DEF range
  <2> QED
    BY <1>1, <2>1, Ranks
<1>6. Cardinality(page) \in Nat /\ Cardinality(page) <= PageSize /\ IsFiniteSet(page)
  <2> HIDE DEF range
  <2> QED
    BY <1>1, <1>5, PageBounded
<1>7. SetSession(d, s2)
  BY <1>4
<1>8. got \in [Ids -> SUBSET Version]
  <2>1. \A i \in Ids : rows[i].ver \in Version
    BY <1>1 DEF Rows, Row
  <2> QED
    BY <1>1, <2>1
<1>9. read \in Nat /\ raced \in SUBSET Ids /\ phase \in {"page", "answer"} /\ skipped \in BOOLEAN
  BY <1>1, <1>5, <1>6
<1>10. /\ s2 \in Session /\ s2.got = got /\ s2.read = read /\ s2.raced = raced /\ s2.phase = phase
       /\ (s2.skipped <=> s.skipped \/ bad # {}) /\ s2.dir = s.dir
  <2> HIDE DEF got, read, raced, phase
  <2> QED
    BY <1>1, <1>8, <1>9 DEF Session
<1>11. Fetched(s, c, rows) /\ Listed(s, c, rows) /\ Timely(s, c, rows) /\ Held(c, rows, copies[d], missed[d])
  BY Basics DEF Sound
<1>12. \A i \in Ids : got[i] = IF i \in page \ bad /\ s.dir # "push"
                               THEN s.got[i] \cup {rows[i].ver} ELSE s.got[i]
  OBVIOUS
<1>13. /\ \A i \in Ids \ s.raced : s.got[i] \subseteq {rows[i].ver}
       /\ \A i \in Ids : s.got[i] # {} => s.dir # "push" /\ InDelta(rows[i], Asked(c, TRUE))
       /\ s.read = 0 => \A i \in Ids : s.got[i] = {}
  BY <1>1, <1>11 DEF Fetched
<1>14. \A i \in Ids \ raced : got[i] \subseteq {rows[i].ver}
  <2> SUFFICES ASSUME NEW i \in Ids \ raced PROVE got[i] \subseteq {rows[i].ver}
    OBVIOUS
  <2>1. CASE s.dir = "push"
    BY <1>12, <1>13, <2>1
  <2>2. CASE s.dir # "push" /\ i \notin s.raced
    BY <1>12, <1>13, <2>2
  <2>3. CASE s.dir # "push" /\ i \in page \ bad /\ s.got[i] = {}
    BY <1>12, <2>3
  <2> QED
    BY <2>1, <2>2, <2>3
<1>15. Fetched(s2, c, rows)
  <2>1. \A i \in Ids : got[i] # {} => s.dir # "push" /\ InDelta(rows[i], Asked(c, TRUE))
    <3>1. s.dir # "push" => \A i \in range : InDelta(rows[i], Asked(c, TRUE))
      BY DEF Listing, DeltaOf, Asked
    <3> HIDE DEF range
    <3> QED
      BY <1>12, <1>13, <3>1
  <2>2. phase = "page" /\ read = 0 => \A i \in Ids : got[i] = {}
    <3>1. SUFFICES ASSUME phase = "page", read = 0 PROVE \A i \in Ids : got[i] = {}
      OBVIOUS
    <3>2. s.read = 0 /\ Cardinality(page) = 0
      BY <1>1, <1>6, <3>1
    <3>3. page = {}
      BY <1>6, <3>2, FS_EmptySet
    <3> HIDE DEF page
    <3> QED
      BY <1>12, <1>13, <3>2, <3>3
  <2> HIDE DEF got, read, raced, phase, s2
  <2> QED
    BY <1>9, <1>10, <1>14, <2>1, <2>2 DEF Fetched
<1>16. Listed(s2, c, rows)
  <2>1. Listing(rows, s2, c) = range
    BY <1>10 DEF Listing
  <2>2. ASSUME ~s2.skipped, NEW i \in range \ raced,
               phase = "answer" \/ Rank(rows, i, range) < read
        PROVE  Seen(s2, rows, i)
    <3>1. ~s.skipped /\ bad = {}
      BY <1>10, <2>2
    <3>2. Rank(rows, i, range) \in Nat /\ Rank(rows, i, range) < s.read + PageSize /\ PageSize \in Nat
      BY <1>1, <1>5, <1>6, <2>2, ConstantsAssumption
    <3>3. i \in page \/ Rank(rows, i, range) < s.read
      BY <1>1, <3>2
    <3>4. CASE i \in page
      <4>1. s.dir # "push"
        BY <2>2, <3>4
      <4>2. rows[i].ver \in got[i] /\ got[i] \subseteq {rows[i].ver}
        BY <1>5, <1>12, <1>14, <2>2, <3>1, <3>4, <4>1
      <4> QED
        BY <1>10, <4>1, <4>2 DEF Seen
    <3>5. CASE i \notin page /\ Rank(rows, i, range) < s.read
      <4>1. i \notin s.raced
        BY <2>2, <3>5
      <4>2. Seen(s, rows, i)
        BY <1>1, <1>11, <2>2, <3>1, <3>5, <4>1 DEF Listed
      <4>3. got[i] = s.got[i]
        BY <1>5, <1>12, <2>2, <3>5
      <4> QED
        BY <1>10, <4>2, <4>3 DEF Seen
    <3> QED
      BY <3>3, <3>4, <3>5
  <2> HIDE DEF got, read, raced, phase, s2, range
  <2> QED
    BY <1>10, <2>1, <2>2 DEF Listed
<1> HIDE DEF got, read, raced, phase, skipped, s2
<1>17. Timely(s2, c, rows) /\ Answered(s2, c, rows, copies[d], missed[d])
  BY <1>9, <1>10, <1>11 DEF Timely, Answered
<1>18. Sound(s2, c, rows, copies[d], missed[d])
  BY <1>11, <1>15, <1>16, <1>17 DEF Sound
<1> QED
  BY <1>7, <1>10, <1>18, SessionStep DEF ReadPage

\* The watermarks are those of all rows there are: what the next cursor passes over
\* was received, or passed over before.
LEMMA AnswerKeeps ==
  ASSUME IInv, NEW d \in Devices, Answer(d)
  PROVE  IInv'
<1> DEFINE s == session[d]
           c == cursor[d]
           req == Request(d, s.dir # "push")
           seq == IF req.seq # 0 \/ req.stamp = 0 THEN Larger(TopSeq, 1) ELSE 0
           phase == IF s.dir = "push" THEN "cursor" ELSE "merge"
           s2 == [s EXCEPT !.seq = seq, !.stamp = TopStamp, !.phase = phase]
<1>1. s \in Session /\ s.phase = "answer" /\ rows \in Rows /\ SetSession(d, s2)
  BY Basics DEF Answer
<1>2. TopSeq = SeqTop(rows) /\ TopStamp = StampTop(rows) /\ SeqTop(rows) \in Nat /\ StampTop(rows) \in Nat
  BY Basics, Translated, Tops, ConstantsAssumption
<1>3. seq \in Nat /\ seq <= Larger(SeqTop(rows), 1) /\ phase \in {"merge", "cursor"}
  BY <1>2 DEF Larger
<1>4. phase = "cursor" <=> s.dir = "push"
  OBVIOUS
<1> HIDE DEF seq, phase
<1>5. /\ s2 \in Session /\ s2.seq = seq /\ s2.stamp = TopStamp /\ s2.phase = phase
      /\ s2.dir = s.dir /\ s2.got = s.got /\ s2.raced = s.raced /\ s2.skipped = s.skipped
  BY <1>1, <1>2, <1>3 DEF Session
<1> HIDE DEF s2
<1>6. Fetched(s, c, rows) /\ Listed(s, c, rows) /\ Timely(s, c, rows) /\ Held(c, rows, copies[d], missed[d])
  BY Basics DEF Sound
<1>7. Timely(s2, c, rows)
  BY <1>2, <1>3, <1>5, <1>6 DEF Timely, Below
<1>8. Fetched(s2, c, rows)
  BY <1>1, <1>3, <1>4, <1>5, <1>6 DEF Fetched
<1>9. Listed(s2, c, rows)
  BY <1>3, <1>5 DEF Listed
<1>10. Answered(s2, c, rows, copies[d], missed[d])
  <2>1. ASSUME ~s.skipped, s.dir # "push" \/ c.kind = "timestamp", NEW i \in Ids \ s.raced,
               PassedBy(rows[i], Applied(c, s2))
        PROVE  Seen(s, rows, i) \/ PassedBy(rows[i], c)
    <3>1. Asked(c, s.dir # "push") = Asked(c, TRUE)
      BY <2>1 DEF Asked
    <3>2. CASE InDelta(rows[i], Asked(c, TRUE))
      <4>1. i \in Listing(rows, s, c)
        BY <3>1, <3>2 DEF Listing, DeltaOf
      <4> QED
        BY <1>1, <1>6, <2>1, <4>1 DEF Listed
    <3>3. CASE ~InDelta(rows[i], Asked(c, TRUE))
      BY <2>1, <3>3 DEF PassedBy
    <3> QED
      BY <3>2, <3>3
  <2>2. \A i \in Ids : Seen(s, rows, i) <=> Seen(s2, rows, i)
    BY <1>5 DEF Seen
  <2>3. s.dir = "push" => \A i \in Ids : ~Seen(s, rows, i)
    BY DEF Seen
  <2> QED
    BY <1>4, <1>5, <1>6, <2>1, <2>2, <2>3 DEF Answered, Held
<1>11. Sound(s2, c, rows, copies[d], missed[d])
  BY <1>6, <1>7, <1>8, <1>9, <1>10 DEF Sound
<1> QED
  BY <1>1, <1>5, <1>11, SessionStep DEF Answer

\* The fields of a version.
LEMMA VersionTyped ==
  ASSUME NEW v \in Version
  PROVE  v.time \in Nat /\ v.by \in Nat /\ v.deleted \in BOOLEAN
<1>1. v.time \in 0..MaxTime /\ v.by \in Devices \cup {0} /\ v.deleted \in BOOLEAN
  BY DEF Version
<1>2. 0..MaxTime \subseteq Nat /\ Devices \cup {0} \subseteq Nat
  BY ConstantsAssumption
<1> QED
  BY <1>1, <1>2

\* A copy merged with one version of a row holds what that row says.
LEMMA MergeCovers ==
  ASSUME NEW c \in Version, NEW r \in Version, r # Absent, NEW v \in MergedAll(c, {r})
  PROVE  Covered(v, r)
<1> DEFINE m == Merged(c, r)
<1>1. c.time \in Nat /\ r.time \in Nat /\ c.by \in Nat /\ r.by \in Nat
  BY VersionTyped
<1>2. v = m
  BY DEF MergedAll
<1>3. CASE c = Absent
  BY <1>1, <1>2, <1>3 DEF Merged, Covered, Live, Beats
<1>4. CASE c # Absent /\ (c.deleted \/ r.deleted)
  <2>1. CASE c.deleted /\ r.deleted
    BY <1>2, <1>4, <2>1 DEF Merged, Covered, Live
  <2>2. CASE ~(c.deleted /\ r.deleted)
    <3>1. m = [c EXCEPT !.time = Larger(c.time, r.time), !.deleted = TRUE]
      BY <1>4, <2>2 DEF Merged
    <3>2. m.deleted
      BY <3>1 DEF Version
    <3>3. m # Absent
      BY <3>2 DEF Absent
    <3> HIDE DEF m
    <3> QED
      BY <1>2, <3>2, <3>3 DEF Covered, Live
  <2> QED
    BY <2>1, <2>2
<1>5. CASE c # Absent /\ ~c.deleted /\ ~r.deleted
  <2>1. m = IF Beats(r, c) THEN r ELSE c
    BY <1>5 DEF Merged
  <2> HIDE DEF m
  <2> QED
    BY <1>1, <1>2, <1>5, <2>1 DEF Covered, Beats
<1> QED
  BY <1>3, <1>4, <1>5

\* A merge yields versions, and the copy itself where nothing was received.
LEMMA MergeTyped ==
  ASSUME NEW c \in Version, NEW got \in SUBSET Version
  PROVE  MergedAll(c, got) \subseteq Version /\ (got = {} => MergedAll(c, got) = {c})
<1>1. Absent \in Version
  BY ConstantsAssumption DEF Absent, Version
<1>2. ASSUME NEW r \in Version PROVE Merged(c, r) \in Version
  <2>1. Larger(c.time, r.time) \in 0..MaxTime
    BY DEF Version, Larger
  <2>2. [c EXCEPT !.time = Larger(c.time, r.time), !.deleted = TRUE] \in Version
    BY <2>1 DEF Version
  <2> QED
    BY <1>1, <2>2 DEF Merged
<1> QED
  BY <1>1, <1>2 DEF MergedAll

\* The merge: what was received is held from now on.
LEMMA MergeKeeps ==
  ASSUME IInv, NEW d \in Devices, Merge(d)
  PROVE  IInv'
<1> DEFINE s == session[d]
           c == cursor[d]
           s2 == [s EXCEPT !.phase = "cursor", !.got = NoSession.got]
           miss2 == {i \in missed[d] : s.got[i] = {}}
<1>1. PICK lib \in [Ids -> UNION {MergedAll(copies[d][i], s.got[i]) : i \in Ids}] :
         /\ \A i \in Ids : lib[i] \in MergedAll(copies[d][i], s.got[i])
         /\ copies' = [copies EXCEPT ![d] = lib]
         /\ buried' = [buried EXCEPT ![d] = @ \cup {i \in Ids : lib[i].deleted}]
  BY DEF Merge
<1>2. /\ s \in Session /\ s.phase = "merge" /\ rows \in Rows /\ TypeOK
      /\ copies[d] \in Library /\ missed[d] \in SUBSET Ids
  BY Basics DEF Merge
<1>3. \A i \in Ids : copies[d][i] \in Version /\ s.got[i] \in SUBSET Version
  BY <1>2 DEF Library, Session
<1>4. \A i \in Ids : lib[i] \in Version /\ (s.got[i] = {} => lib[i] = copies[d][i])
  BY <1>1, <1>3, MergeTyped
<1>5. lib \in Library
  BY <1>1, <1>4 DEF Library
<1>6. missed' = [missed EXCEPT ![d] = miss2]
  BY <1>2 DEF Merge, TypeOK
<1>7. SetSession(d, s2) /\ UNCHANGED <<cursor, rows, edits>>
  BY DEF Merge
<1>8. /\ s2 \in Session /\ s2.phase = "cursor" /\ s2.dir = s.dir /\ s2.raced = s.raced
      /\ s2.skipped = s.skipped /\ s2.seq = s.seq /\ s2.stamp = s.stamp
      /\ \A i \in Ids : s2.got[i] = {}
  BY <1>2, NoSessionTyped DEF Session
<1>9. miss2 \in SUBSET Ids
  BY <1>2
<1> HIDE DEF s2, miss2
<1>10. /\ copies' \in [Devices -> Library] /\ copies'[d] = lib
       /\ missed' \in [Devices -> SUBSET Ids] /\ missed'[d] = miss2
       /\ session' \in [Devices -> Session] /\ session'[d] = s2
       /\ \A e \in Devices \ {d} : copies'[e] = copies[e] /\ missed'[e] = missed[e] /\ session'[e] = session[e]
  BY <1>1, <1>2, <1>5, <1>6, <1>7, <1>8, <1>9 DEF TypeOK, SetSession
<1>11. TypeOK'
  <2>1. buried' \in [Devices -> SUBSET Ids]
    BY <1>1, <1>2 DEF TypeOK
  <2> QED
    BY <1>2, <1>7, <1>10, <2>1 DEF TypeOK
<1>12. /\ Timely(s, c, rows) /\ Fetched(s, c, rows) /\ Answered(s, c, rows, copies[d], missed[d])
       /\ Held(c, rows, copies[d], missed[d])
  BY Basics DEF Sound
<1>13. Held(c, rows, lib, miss2)
  <2> SUFFICES ASSUME NEW i \in Ids \ miss2, PassedBy(rows[i], c) PROVE Covered(lib[i], rows[i].ver)
    BY DEF Held
  <2>1. s.got[i] = {}
    BY <1>12 DEF Fetched, PassedBy
  <2>2. i \notin missed[d]
    BY <2>1 DEF miss2
  <2>3. lib[i] = copies[d][i]
    BY <1>4, <2>1
  <2> QED
    BY <1>12, <2>2, <2>3 DEF Held
<1>14. Answered(s2, c, rows, lib, miss2)
  <2>1. Applied(c, s2) = Applied(c, s)
    BY <1>8 DEF Applied
  <2> SUFFICES ASSUME ~s.skipped, NEW i \in Ids \ (s.raced \cup miss2), PassedBy(rows[i], Applied(c, s))
               PROVE  Covered(lib[i], rows[i].ver)
    BY <1>8, <2>1 DEF Answered
  <2>2. CASE Seen(s, rows, i)
    <3>1. lib[i] \in MergedAll(copies[d][i], {rows[i].ver}) /\ rows[i].ver # Absent /\ rows[i].ver \in Version
      BY <1>1, <1>2, <2>2 DEF Seen, PassedBy, Rows, Row
    <3> QED
      BY <1>3, <3>1, MergeCovers
  <2>3. CASE PassedBy(rows[i], c)
    BY <1>13, <2>3 DEF Held
  <2> QED
    BY <1>2, <1>12, <2>2, <2>3 DEF Answered
<1>15. Timely(s2, c, rows) /\ Fetched(s2, c, rows) /\ Listed(s2, c, rows)
  BY <1>2, <1>8, <1>12 DEF Timely, Below, Fetched, Listed
<1>16. Sound(s2, c, rows, lib, miss2)
  BY <1>13, <1>14, <1>15 DEF Sound
<1> QED
  BY <1>7, <1>10, <1>11, <1>16, OneDevice

\* The cursor: what it now passes over is held, or remembered as an exception.
LEMMA SaveCursorKeeps ==
  ASSUME IInv, NEW d \in Devices, SaveCursor(d)
  PROVE  IInv'
<1> DEFINE s == session[d]
           c == cursor[d]
<1>1. /\ s \in Session /\ c \in Cursor /\ s.phase = "cursor" /\ rows \in Rows /\ TypeOK
      /\ missed[d] \in SUBSET Ids /\ s.raced \in SUBSET Ids
  BY Basics DEF SaveCursor, Session
<1>2. SetSession(d, NoSession) /\ UNCHANGED <<copies, rows, buried, edits>>
  BY DEF SaveCursor
<1>3. session' \in [Devices -> Session] /\ session'[d] = NoSession /\ \A e \in Devices \ {d} : session'[e] = session[e]
  BY <1>1, <1>2, NoSessionTyped DEF TypeOK, SetSession
<1>4. ASSUME NEW c2 \in Cursor, NEW miss2 \in SUBSET Ids,
             cursor' = [cursor EXCEPT ![d] = c2], missed' = [missed EXCEPT ![d] = miss2],
             Timely(NoSession, c2, rows), Held(c2, rows, copies[d], miss2)
      PROVE  IInv'
  <2>1. /\ cursor' \in [Devices -> Cursor] /\ cursor'[d] = c2
        /\ missed' \in [Devices -> SUBSET Ids] /\ missed'[d] = miss2
        /\ \A e \in Devices \ {d} : cursor'[e] = cursor[e] /\ missed'[e] = missed[e]
    BY <1>1, <1>4 DEF TypeOK
  <2>2. TypeOK'
    BY <1>1, <1>2, <1>3, <2>1 DEF TypeOK
  <2>3. NoSession.phase = "idle" /\ NoSession.read = 0 /\ \A i \in Ids : NoSession.got[i] = {}
    BY DEF NoSession
  <2>4. Sound(NoSession, c2, rows, copies[d], miss2)
    BY <1>1, <1>4, <2>3, NoSessionTyped, FreshSound
  <2> QED
    BY <1>2, <1>3, <2>1, <2>2, <2>4, OneDevice
<1>5. CASE s.skipped
  <2>1. cursor' = [cursor EXCEPT ![d] = c] /\ missed' = [missed EXCEPT ![d] = missed[d]]
    BY <1>1, <1>5 DEF SaveCursor, TypeOK
  <2> QED
    BY <1>1, <1>4, <2>1, Basics
<1>6. CASE ~s.skipped
  <2> DEFINE c2 == Applied(c, s)
             miss2 == IF s.dir = "push" /\ c.kind # "timestamp" THEN missed[d] ELSE missed[d] \cup s.raced
  <2>1. cursor' = [cursor EXCEPT ![d] = c2] /\ missed' = [missed EXCEPT ![d] = miss2]
    BY <1>1, <1>6 DEF SaveCursor, TypeOK
  <2>2. Timely(s, c, rows) /\ Answered(s, c, rows, copies[d], missed[d]) /\ Held(c, rows, copies[d], missed[d])
    BY Basics DEF Sound
  <2>3. c2 \in Cursor /\ Timely(NoSession, c2, rows)
    BY <1>1, <2>2, AskedBelow
  <2>4. miss2 \in SUBSET Ids
    BY <1>1
  <2>5. Held(c2, rows, copies[d], miss2)
    <3>1. CASE s.dir = "push" /\ c.kind # "timestamp"
      <4>1. c2 = [c EXCEPT !.stamp = s.stamp] /\ c2.kind = c.kind /\ c2.seq = c.seq
        BY <1>1, <3>1 DEF Applied, Cursor
      <4> HIDE DEF c2
      <4>2. \A i \in Ids : PassedBy(rows[i], c2) => PassedBy(rows[i], c)
        <5>1. CASE c.kind = "sequence"
          BY <2>2, <4>1, <5>1 DEF PassedBy, InDelta, Asked, Timely
        <5>2. CASE c.kind = "unknown"
          BY <4>1, <5>2 DEF PassedBy, InDelta, Asked
        <5> QED
          BY <1>1, <3>1, <5>1, <5>2 DEF Cursor
      <4> QED
        BY <2>2, <3>1, <4>2 DEF Held
    <3>2. CASE ~(s.dir = "push" /\ c.kind # "timestamp")
      BY <1>1, <1>6, <2>2, <3>2 DEF Answered, Held
    <3> QED
      BY <3>1, <3>2
  <2> HIDE DEF c2, miss2
  <2> QED
    BY <1>4, <2>1, <2>3, <2>4, <2>5
<1> QED
  BY <1>5, <1>6
---------------------------------------------------------------------------
(* The invariant and what follows from it *)

\* Every reachable state satisfies the invariant.
THEOREM Invariance == Spec => []IInv
<1>1. Init => IInv
  <2> SUFFICES ASSUME Init PROVE IInv
    OBVIOUS
  <2>1. Absent \in Version /\ EmptyLibrary \in Library /\ 0 \in 0..MaxTime /\ 0 \in 0..MaxSeq /\ 0 \in 0..MaxEdits
    BY ConstantsAssumption DEF Absent, Version, EmptyLibrary, Library
  <2>2. TypeOK
    BY <2>1, NoSessionTyped DEF Init, TypeOK, Row, Cursor
  <2>3. ASSUME NEW d \in Devices PROVE Sound(session[d], cursor[d], rows, copies[d], missed[d])
    <3>1. rows \in Rows /\ session[d] = NoSession
      BY <2>2, <2>3 DEF TypeOK, Rows, Init
    <3>2. SeqTop(rows) \in Nat /\ StampTop(rows) \in Nat
      BY <3>1, Tops, ConstantsAssumption
    <3>3. cursor[d].kind # "sequence" /\ cursor[d].stamp = 0
      BY <2>3 DEF Init
    <3>4. Timely(NoSession, cursor[d], rows)
      BY <3>2, <3>3 DEF Timely, NoSession
    <3>5. Held(cursor[d], rows, copies[d], missed[d])
      BY DEF Init, Held, PassedBy
    <3>6. NoSession.phase = "idle" /\ NoSession.read = 0 /\ \A i \in Ids : NoSession.got[i] = {}
      BY DEF NoSession
    <3> QED
      BY <3>1, <3>4, <3>5, <3>6, NoSessionTyped, FreshSound
  <2> QED
    BY <2>2, <2>3 DEF IInv
<1>2. IInv /\ [Next]_vars => IInv'
  <2> SUFFICES ASSUME IInv, [Next]_vars PROVE IInv'
    OBVIOUS
  <2>1. CASE UNCHANGED vars
    BY <2>1 DEF vars, IInv, TypeOK
  <2>2. ASSUME NEW d \in Devices, NEW i \in Ids, NEW t \in 1..MaxTime,
               Create(d, i, t) \/ Edit(d, i, t) \/ Delete(d, i, t)
        PROVE  IInv'
    BY <2>2, EditKeeps
  <2>3. ASSUME NEW d \in Devices, NEW dir \in Directions(d), BeginSync(d, dir) PROVE IInv'
    BY <2>3, BeginSyncKeeps DEF Directions
  <2>4. ASSUME NEW d \in Devices, SyncStep(d) PROVE IInv'
    BY <2>4, UploadKeeps, ReadPageKeeps, AnswerKeeps, MergeKeeps, SaveCursorKeeps DEF SyncStep, Upload
  <2>5. ASSUME NEW d \in Devices, Abort(d) PROVE IInv'
    BY <2>5, AbortKeeps
  <2> QED
    BY <2>1, <2>2, <2>3, <2>4, <2>5 DEF Next
<1> QED
  BY <1>1, <1>2, PTL DEF Spec

\* Libraries, cursors, sessions and rows keep to their types.
THEOREM TypeCorrect == Spec => []TypeOK
  BY Invariance, PTL DEF IInv

\* A cursor passes over a row only when the device holds what the row says, but for the
\* rows written between the pages and the watermarks of one exchange, and those a
\* push-only sync on the timestamp path discarded.
THEOREM CursorsPassHeldRows == Spec => []PassedRowsCovered
<1>1. IInv => PassedRowsCovered
  <2> SUFFICES ASSUME IInv, NEW d \in Devices, NEW i \in Passed(d) \ missed[d]
               PROVE  Covered(copies[d][i], rows[i].ver)
    BY DEF PassedRowsCovered
  <2>1. i \in Ids /\ PassedBy(rows[i], cursor[d])
    BY Basics, Translated
  <2> QED
    BY <2>1, Basics DEF Held
<1> QED
  BY <1>1, Invariance, PTL
=============================================================================
