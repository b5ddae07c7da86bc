----------------------------- MODULE FileCache -----------------------------
(***************************************************************************)
(* The cache of TOML files of a client process                             *)
(* (src/src/config/toml_cache.rs): calls that share it, and files that     *)
(* other programs replace, as `snp` does, or rewrite in place, as editors  *)
(* do.  A write's number stands for the content it leaves; a read takes a  *)
(* file in two pieces.  Every write moves the time of its file.            *)
(***************************************************************************)
EXTENDS Naturals, FiniteSets, Sequences, SequencesExt

CONSTANTS Reader,    \* calls at a time
          Path,
          Slots,     \* MAX_TOML_CACHE_SIZE
          MaxWrites, MaxReads

ASSUME CacheAssumption == Path # {} /\ MaxWrites \in Nat

VARIABLES inodes,   \* file, a path and the write that made it |-> the content,
                    \* whose number is its time as well
          names,    \* path |-> file
          cached, order,
          reads,
          writes, calls
cacheVars == <<inodes, names, cached, order, reads, writes, calls>>

Number == 0..MaxWrites
Inode == Path \X Number
NoRead == [at |-> "idle", path |-> CHOOSE p \in Path : TRUE, tries |-> 0, file |-> <<>>,
           stamp |-> 0, pieces |-> <<>>, current |-> {}]

CacheTypeOK ==
    /\ DOMAIN inodes \subseteq Inode /\ \A f \in DOMAIN inodes : inodes[f] \in Number
    /\ names \in [Path -> Inode]
    /\ DOMAIN cached \subseteq Path
    /\ \A p \in DOMAIN cached : cached[p] \in [file : Inode, stamp : Number, content : Seq(Number)]
    /\ order \in Seq(Path) /\ ToSet(order) = DOMAIN cached /\ Len(order) <= Slots
    /\ \A r \in Reader : /\ reads[r].at \in {"idle", "open", "read", "check", "done", "failed"}
                         /\ reads[r].tries \in 0..2 /\ reads[r].current \subseteq Number
    /\ writes \in Number /\ calls \in 0..MaxReads

CacheInit ==
    /\ inodes = [f \in Path \X {0} |-> 0] /\ names = [p \in Path |-> <<p, 0>>]
    /\ cached = [p \in {} |-> NoRead] /\ order = <<>>
    /\ reads = [r \in Reader |-> NoRead] /\ writes = 0 /\ calls = 0
---------------------------------------------------------------------------
(* Reading *)

Forgotten(p) == cached' = [q \in DOMAIN cached \ {p} |-> cached[q]]
Return(r, content) ==
    reads' = [reads EXCEPT ![r].at = "done", ![r].pieces = content]

\* Mutant: a file rewritten in place is taken for the one that was read.
HitByFile(p) == p \in DOMAIN cached /\ cached[p].file = names[p]
Hit(p) == /\ p \in DOMAIN cached /\ cached[p].file = names[p]
          /\ cached[p].stamp = inodes[names[p]]

\* cached_read_toml until the mutex is given back.
Call(r, p) ==
    /\ reads[r].at = "idle" /\ calls < MaxReads /\ calls' = calls + 1
    /\ LET now == [NoRead EXCEPT !.path = p, !.tries = 2, !.current = {inodes[names[p]]}]
       IN reads' = [reads EXCEPT ![r] = IF Hit(p)
                                        THEN [now EXCEPT !.at = "done",
                                                         !.pieces = cached[p].content]
                                        ELSE [now EXCEPT !.at = "open"]]
    /\ UNCHANGED <<inodes, names, cached, order, writes>>

\* Twice at most.
OpenFile(r) ==
    /\ reads[r].at = "open"
    /\ reads' = [reads EXCEPT ![r] =
                   IF reads[r].tries = 0 THEN [reads[r] EXCEPT !.at = "failed"]
                   ELSE [reads[r] EXCEPT !.at = "read", !.tries = @ - 1, !.pieces = <<>>,
                                         !.file = names[reads[r].path],
                                         !.stamp = inodes[names[reads[r].path]]]]
    /\ UNCHANGED <<inodes, names, cached, order, writes, calls>>

ReadPiece(r) ==
    /\ reads[r].at = "read"
    /\ reads' = [reads EXCEPT ![r].pieces = Append(@, inodes[reads[r].file]),
                              ![r].at = IF Len(reads[r].pieces) = 1 THEN "check" ELSE "read"]
    /\ UNCHANGED <<inodes, names, cached, order, writes, calls>>

\* The oldest goes when all places are taken, whether or not this path has one.
Store(read) ==
    LET p == read.path
        out == IF Cardinality(DOMAIN cached) >= Slots THEN {Head(order)} ELSE {}
        kept == DOMAIN cached \ out
        left == IF out = {} THEN order ELSE Tail(order)
    IN /\ cached' = [q \in kept \cup {p} |->
                        IF q = p THEN [file |-> read.file, stamp |-> read.stamp,
                                       content |-> read.pieces]
                        ELSE cached[q]]
       /\ order' = IF p \in kept THEN left ELSE Append(left, p)

\* The open file is looked at again: what was read counts if it has not moved.
CheckStamp(r) ==
    /\ reads[r].at = "check"
    /\ IF inodes[reads[r].file] = reads[r].stamp
       THEN Store(reads[r]) /\ Return(r, reads[r].pieces)
       ELSE reads' = [reads EXCEPT ![r].at = "open"] /\ UNCHANGED <<cached, order>>
    /\ UNCHANGED <<inodes, names, writes, calls>>

Forget(r) == /\ reads[r].at \in {"done", "failed"} /\ reads' = [reads EXCEPT ![r] = NoRead]
             /\ UNCHANGED <<inodes, names, cached, order, writes, calls>>
---------------------------------------------------------------------------
(* Writing *)

\* What the calls under way may give for p.
Witnessed(p) ==
    reads' = [r \in Reader |-> IF reads[r].at \in {"open", "read", "check"} /\ reads[r].path = p
                               THEN [reads[r] EXCEPT !.current = @ \cup {writes'}] ELSE reads[r]]

\* write_private_atomic, by this process or another; this one forgets its entry next.
Replace(p) ==
    /\ writes < MaxWrites /\ writes' = writes + 1
    /\ inodes' = [f \in DOMAIN inodes \cup {<<p, writes'>>} |->
                    IF f = <<p, writes'>> THEN writes' ELSE inodes[f]]
    /\ names' = [names EXCEPT ![p] = <<p, writes'>>] /\ Witnessed(p)
    /\ UNCHANGED <<cached, order, calls>>

\* An editor, in place.
Rewrite(p) ==
    /\ writes < MaxWrites /\ writes' = writes + 1
    /\ inodes' = [inodes EXCEPT ![names[p]] = writes'] /\ Witnessed(p)
    /\ UNCHANGED <<names, cached, order, calls>>

\* invalidate_toml_cache
Invalidate(p) ==
    /\ p \in DOMAIN cached /\ Forgotten(p) /\ order' = SelectSeq(order, LAMBDA q : q # p)
    /\ UNCHANGED <<inodes, names, reads, writes, calls>>

CacheNext ==
    \/ \E r \in Reader : OpenFile(r) \/ ReadPiece(r) \/ CheckStamp(r) \/ Forget(r)
                         \/ \E p \in Path : Call(r, p)
    \/ \E p \in Path : Replace(p) \/ Rewrite(p) \/ Invalidate(p)

CacheSpec == CacheInit /\ [][CacheNext]_cacheVars
---------------------------------------------------------------------------
(* Properties *)

\* "content and cache metadata tied to one file snapshot": what a call returns,
\* out of the cache or not, is in one piece what the path held at one moment of
\* the call, however it is replaced, rewritten, forgotten or read at once.
ReadsWereCurrent ==
    \A r \in Reader : reads[r].at = "done" =>
        \E n \in reads[r].current : reads[r].pieces = <<n, n>>
=============================================================================
