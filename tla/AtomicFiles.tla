---------------------------- MODULE AtomicFiles ----------------------------
(***************************************************************************)
(* What the local data directory promises its users, whatever happens to   *)
(* the commands that write it: every operation changes its files at once,  *)
(* takes effect at most once, and is never undone.  A file is "exposed"    *)
(* when no such promise is made for it any more.                           *)
(***************************************************************************)
EXTENDS Naturals

CONSTANTS File,     \* the files of the directory
          Content   \* what a file may hold; an operation writes a content of its own

VARIABLES value,    \* [File -> Content], as a reader sees it once recovery ran
          done,     \* the operations that took effect
          exposed   \* the files of which nothing is promised

vars == <<value, done, exposed>>

Init == /\ value \in [File -> Content]
        /\ done \subseteq Content
        /\ exposed = {}

Kept(S) == \A f \in File \ (S \cup exposed') : value'[f] = value[f]

\* An operation takes effect: all of its files S get its content v together.
Commit(S, v) == /\ v \in Content
                /\ done' = done \cup {v}
                /\ \A f \in S \ exposed' : value'[f] = v
                /\ Kept(S)

Expose == /\ done' = done
          /\ Kept({})

Next == /\ exposed \subseteq exposed'
        /\ \/ Expose
           \/ \E v \in done' \ done, S \in SUBSET File : Commit(S, v)

Spec == Init /\ [][Next]_vars
=============================================================================
