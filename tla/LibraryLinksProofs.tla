------------------------- MODULE LibraryLinksProofs -------------------------
(***************************************************************************)
(* The index of a device stays sound, and a recovery marker outlasts what  *)
(* it marks, for any number of libraries, accounts, commands and failures, *)
(* with processes that save indexes they loaded long ago.                  *)
(***************************************************************************)
EXTENDS LibraryLinks, FiniteSetTheorems, TLAPS

\* A whole index, wherever it is held: cursors belong to the linked library,
\* and one of the libraries, if there are any, is primary.
CursorsFit(mem) == \A l \in Library : mem[l].cursor \in {None, mem[l].link}
OnePrimary(mem) == /\ \A l \in Library : mem[l].primary => mem[l].known
                   /\ Known(mem) # {} => \E l \in Library : {k \in Library : mem[k].primary} = {l}
Whole(mem) == CursorsFit(mem) /\ OnePrimary(mem)

\* A command holds an index as it was saved; the one that creates a library
\* found none of that name in it.
CommandFits == /\ Whole(cmd.mem)
               /\ cmd.pc = "register" => ~cmd.mem[cmd.lib].known

\* A library is linked before the loop only when it has no link, and a
\* recovery never ends in that link.
Linking(r) == /\ r.pc = "link" => r.mem[r.lib].link = None
              /\ r.pc \in {"create", "find"} /\ r.back = "pre" => r.mem[r.lib].link = None
              /\ r.pc \in {"open", "locate"} => r.back # "pre"

\* A recovery goes on with the library its marker names, and removes the
\* marker after that library took all rows.
Marking(r, m, a) == /\ r.pc \in {"relink", "mark", "retry", "cursors", "unmark"} =>
                           m[r.lib].phase # "none" /\ m[r.lib].server = r.got
                    /\ r.pc \in {"cursors", "unmark"} => r.got \in a

\* Libraries of the server: one for a name and account, and no account but
\* those the client had.
Served(rem, key) ==
    /\ \A r \in DOMAIN rem : rem[r].account <= key
    /\ \A r, s \in DOMAIN rem : rem[r].name = rem[s].name /\ rem[r].account = rem[s].account => r = s

IInv == /\ LinksTypeOK
        /\ Served(remote, account) /\ run.key <= account /\ run.import \subseteq DOMAIN remote
        /\ Whole(index) /\ Whole(run.mem) /\ CommandFits
        /\ Linking(run) /\ Marking(run, marker, accepted)

Progress == [pc : RunPc, key : 1..MaxAccounts, mem : Index, import : SUBSET Id,
             pre : SUBSET Library, scan : SUBSET Library, todo : SUBSET Library,
             lib : Library, got : Id, back : Loops, relinked : BOOLEAN]
Command == [pc : {"idle", "loaded", "register", "unlink"}, op : Op, lib : Library, mem : Index]

\* What the run holds after a step: the fields it sets, those a loop forgets,
\* and the rest as they were.
After(pc, fields, f) == IF f \in DOMAIN fields THEN fields[f]
                        ELSE IF pc \in Loops /\ f \in {"lib", "got", "back", "relinked"} THEN Idle[f]
                        ELSE run[f]

\* The record of the run after a step.
LEMMA RunFields ==
  ASSUME NEW pc, NEW fields, run \in Progress, Run(pc, fields), "pc" \notin DOMAIN fields,
         pc \in Loops => DOMAIN fields \cap {"lib", "got", "back", "relinked"} = {}
  PROVE  run' = [pc |-> pc, key |-> After(pc, fields, "key"), mem |-> After(pc, fields, "mem"),
                 import |-> After(pc, fields, "import"), pre |-> After(pc, fields, "pre"),
                 scan |-> After(pc, fields, "scan"), todo |-> After(pc, fields, "todo"),
                 lib |-> After(pc, fields, "lib"), got |-> After(pc, fields, "got"),
                 back |-> After(pc, fields, "back"), relinked |-> After(pc, fields, "relinked")]
<1> DEFINE names == {"pc", "key", "mem", "import", "pre", "scan", "todo", "lib", "got", "back", "relinked"}
           value(f) == IF f = "pc" THEN pc ELSE After(pc, fields, f)
<1>1. DOMAIN run = names
  BY DEF Progress
<1>2. \A f \in names : (CASE f = "pc" -> pc
                            [] f \in DOMAIN fields -> fields[f]
                            [] pc \in Loops /\ f \in {"lib", "got", "back", "relinked"} -> Idle[f]
                            [] OTHER -> run[f]) = value(f)
  BY DEF After
<1>3. run' = [f \in names |-> value(f)]
  BY <1>1, <1>2 DEF Run
<1> HIDE DEF After
<1> QED
  BY <1>3

\* Nothing is linked, primary or known in an index without libraries.
LEMMA AbsentFits == 
  ASSUME ConstantsFit
  PROVE  /\ Absent \in Entry /\ [l \in Library |-> Absent] \in Index
         /\ Whole([l \in Library |-> Absent])
         /\ Idle \in Progress /\ NoCommand \in Command
<1>1. 0 \in Id
  BY FS_CardinalityType DEF ConstantsFit, Id
<1>2. Absent \in Entry
  BY <1>1 DEF Absent, Entry, None
<1>3. Whole([l \in Library |-> Absent])
  BY DEF Whole, CursorsFit, OnePrimary, Known, Absent, None
<1> QED
  BY <1>1, <1>2, <1>3 DEF Index, Idle, NoCommand, Progress, Command, RunPc, Loops, Op, ConstantsFit, None

\* What the inductive invariant says of the types.
LEMMA Basics ==
  ASSUME ConstantsFit, IInv
  PROVE  /\ run \in Progress /\ cmd \in Command /\ index \in Index /\ remote \in Seq(Remote)
         /\ libraryFile \in [Library -> BOOLEAN] /\ marker \in [Library -> Marker]
         /\ accepted \in SUBSET Id /\ account \in 1..MaxAccounts /\ trouble \in 0..MaxTrouble
         /\ DOMAIN remote = 1..Len(remote) /\ Len(remote) \in Nat
         /\ \A r \in DOMAIN remote : remote[r] \in Remote
         /\ None \in Id /\ Idle \in Progress /\ NoCommand \in Command
  BY AbsentFits, FS_CardinalityType DEF IInv, LinksTypeOK, Progress, Command, ConstantsFit, None, Id

\* As many libraries as there are names and accounts: every library has an id.
LEMMA IdsSuffice ==
  ASSUME ConstantsFit, NEW rem \in Seq(Remote), Served(rem, MaxAccounts)
  PROVE  DOMAIN rem \subseteq Id
<1> DEFINE pairs == Library \X (1..MaxAccounts)
           pair == [r \in DOMAIN rem |-> <<rem[r].name, rem[r].account>>]
<1>1. DOMAIN rem = 1..Len(rem) /\ Len(rem) \in Nat /\ MaxAccounts \in Nat
  BY DEF ConstantsFit
<1>2. IsFiniteSet(1..MaxAccounts) /\ Cardinality(1..MaxAccounts) = MaxAccounts
  BY <1>1, FS_Interval
<1>3. IsFiniteSet(pairs) /\ Cardinality(pairs) = Cardinality(Library) * MaxAccounts
  BY <1>2, FS_Product DEF ConstantsFit
<1>4. pair \in [DOMAIN rem -> pairs]
  <2>1. \A r \in DOMAIN rem : rem[r] \in Remote
    BY <1>1
  <2>2. \A r \in DOMAIN rem : <<rem[r].name, rem[r].account>> \in pairs
    BY <2>1 DEF Remote
  <2> HIDE DEF pairs
  <2> QED
    BY <2>2
<1>5. \A r, s \in DOMAIN rem : pair[r] = pair[s] => r = s
  BY DEF Served
<1>6. IsFiniteSet(DOMAIN rem) /\ Cardinality(DOMAIN rem) = Len(rem)
  <2>1. \A n \in Nat : IsFiniteSet(1..n) /\ Cardinality(1..n) = n
    BY FS_Interval
  <2> QED
    BY <1>1, <2>1
<1>7. Cardinality(DOMAIN rem) <= Cardinality(pairs)
  <2>1. pair \in Injection(DOMAIN rem, pairs)
    BY <1>4, <1>5 DEF Injection, IsInjective
  <2> HIDE DEF pair, pairs
  <2> QED
    BY <1>3, <2>1, FS_Injection
<1>8. Cardinality(Library) * MaxAccounts \in Nat
  BY <1>3, FS_CardinalityType
<1> QED
  BY <1>1, <1>3, <1>6, <1>7, <1>8 DEF Id

\* A step of the run that keeps the invariant's parts keeps the invariant.
LEMMA RunKeeps ==
  ASSUME ConstantsFit, IInv, UNCHANGED <<account, cmd>>,
         remote' \in Seq(Remote), Served(remote', account),
         libraryFile' \in [Library -> BOOLEAN], marker' \in [Library -> Marker], accepted' \in SUBSET Id,
         trouble' \in 0..MaxTrouble, index' \in Index, Whole(index'),
         run' \in Progress, run'.key <= account, run'.import \subseteq DOMAIN remote',
         Whole(run'.mem), Linking(run'), Marking(run', marker', accepted')
  PROVE  IInv'
<1>1. LinksTypeOK'
  BY Basics DEF LinksTypeOK, Progress, Command
<1>2. Served(remote, account)' /\ CommandFits'
  BY DEF IInv, Served, CommandFits
<1> QED
  BY <1>1, <1>2 DEF IInv

\* One that changes the run alone.
LEMMA RunAlone ==
  ASSUME ConstantsFit, IInv, UNCHANGED <<server, disk, cmd, accepted>>, trouble' \in 0..MaxTrouble,
         run' \in Progress, run'.key <= account, run'.import \subseteq DOMAIN remote,
         Whole(run'.mem), Linking(run'), Marking(run', marker, accepted)
  PROVE  IInv'
  BY Basics, RunKeeps DEF IInv, disk, server

\* The fields of a step have their types.
Typed(fields) ==
    \A f \in DOMAIN fields :
        /\ f \in {"mem", "import", "pre", "scan", "todo", "lib", "got", "back", "relinked"}
        /\ f = "mem" => fields[f] \in Index /\ Whole(fields[f])
        /\ f = "import" => fields[f] \subseteq run.import
        /\ f \in {"pre", "scan", "todo"} => fields[f] \subseteq Library
        /\ f = "lib" => fields[f] \in Library
        /\ f = "got" => fields[f] \in Id
        /\ f = "back" => fields[f] \in Loops
        /\ f = "relinked" => fields[f] \in BOOLEAN

\* Then the run has its type, and holds what the fields say.
LEMMA RunTyped ==
  ASSUME ConstantsFit, IInv, NEW pc \in RunPc, NEW fields, Run(pc, fields), Typed(fields),
         pc \in Loops => DOMAIN fields \cap {"lib", "got", "back", "relinked"} = {}
  PROVE  /\ run' \in Progress /\ run'.key <= account /\ run'.import \subseteq DOMAIN remote
         /\ Whole(run'.mem) /\ run'.pc = pc
         /\ run'.mem = After(pc, fields, "mem") /\ run'.lib = After(pc, fields, "lib")
         /\ run'.got = After(pc, fields, "got") /\ run'.back = After(pc, fields, "back")
<1>1. "pc" \notin DOMAIN fields
  BY DEF Typed
<1>2. run \in Progress /\ run.key <= account /\ run.import \subseteq DOMAIN remote /\ Whole(run.mem)
      /\ Idle \in Progress
  BY Basics DEF IInv
<1>3. run' = [pc |-> pc, key |-> After(pc, fields, "key"), mem |-> After(pc, fields, "mem"),
              import |-> After(pc, fields, "import"), pre |-> After(pc, fields, "pre"),
              scan |-> After(pc, fields, "scan"), todo |-> After(pc, fields, "todo"),
              lib |-> After(pc, fields, "lib"), got |-> After(pc, fields, "got"),
              back |-> After(pc, fields, "back"), relinked |-> After(pc, fields, "relinked")]
  BY <1>1, <1>2, RunFields
<1>4. /\ After(pc, fields, "key") = run.key
      /\ After(pc, fields, "mem") \in Index /\ Whole(After(pc, fields, "mem"))
      /\ After(pc, fields, "import") \subseteq run.import
      /\ After(pc, fields, "pre") \subseteq Library /\ After(pc, fields, "scan") \subseteq Library
      /\ After(pc, fields, "todo") \subseteq Library
  BY <1>2 DEF Typed, After, Progress
<1>5. /\ After(pc, fields, "lib") \in Library /\ After(pc, fields, "got") \in Id
      /\ After(pc, fields, "back") \in Loops /\ After(pc, fields, "relinked") \in BOOLEAN
  BY <1>2 DEF Typed, After, Progress
<1> HIDE DEF After
<1> QED
  BY <1>2, <1>3, <1>4, <1>5 DEF Progress

\* Back in a loop, no library is in hand.
LEMMA LoopsFit ==
  ASSUME run'.pc \in Loops \cup {"idle", "import"}
  PROVE  Linking(run') /\ \A m, a : Marking(run', m, a)
  BY DEF Linking, Marking, Loops

\* An entry changes, but neither whether it is there nor whether it is primary.
LEMMA Changed ==
  ASSUME NEW mem \in Index, Whole(mem), NEW l \in Library, NEW e \in Entry,
         e.known = mem[l].known, e.primary = mem[l].primary, e.cursor \in {None, e.link}
  PROVE  [mem EXCEPT ![l] = e] \in Index /\ Whole([mem EXCEPT ![l] = e])
<1> DEFINE new == [mem EXCEPT ![l] = e]
<1>1. /\ new \in Index
      /\ \A k \in Library : new[k].known = mem[k].known /\ new[k].primary = mem[k].primary
      /\ \A k \in Library : new[k] = IF k = l THEN e ELSE mem[k]
  BY DEF Index
<1>2. CursorsFit(new)
  BY <1>1 DEF Whole, CursorsFit
<1> HIDE DEF new
<1>3. Known(new) = Known(mem)
  BY <1>1 DEF Known
<1>4. {k \in Library : new[k].primary} = {k \in Library : mem[k].primary}
  BY <1>1
<1>5. OnePrimary(new)
  BY <1>1, <1>3, <1>4 DEF Whole, OnePrimary
<1> QED
  BY <1>1, <1>2, <1>5 DEF Whole, new

\* A library is added, primary when it is the first.
LEMMA Added ==
  ASSUME NEW mem \in Index, Whole(mem), NEW l \in Library, ~mem[l].known, NEW e \in Entry,
         e.known, e.primary <=> Known(mem) = {}, e.cursor \in {None, e.link}
  PROVE  [mem EXCEPT ![l] = e] \in Index /\ Whole([mem EXCEPT ![l] = e])
<1> DEFINE new == [mem EXCEPT ![l] = e]
<1>1. new \in Index /\ \A k \in Library : new[k] = IF k = l THEN e ELSE mem[k]
  BY DEF Index
<1>2. CursorsFit(new)
  BY <1>1 DEF Whole, CursorsFit
<1>3. \A k \in Library : mem[k].primary => mem[k].known
  BY DEF Whole, OnePrimary
<1> HIDE DEF new
<1>4. \A k \in Library : new[k].primary => new[k].known
  BY <1>1, <1>3
<1>7. /\ \A k \in Library : k # l => (new[k].primary <=> mem[k].primary)
      /\ new[l].primary <=> Known(mem) = {}
  BY <1>1
<1>5. ASSUME Known(mem) = {} PROVE OnePrimary(new)
  <2>1. \A k \in Library : ~mem[k].known
    BY <1>5 DEF Known
  <2>2. \A k \in Library : new[k].primary <=> k = l
    BY <1>3, <1>5, <1>7, <2>1
  <2>3. {k \in Library : new[k].primary} = {l}
    BY <2>2
  <2> QED
    BY <1>4, <2>3 DEF OnePrimary
<1>6. ASSUME Known(mem) # {} PROVE OnePrimary(new)
  <2>1. PICK p \in Library : {k \in Library : mem[k].primary} = {p}
    BY <1>6 DEF Whole, OnePrimary
  <2>2. \A k \in Library : new[k].primary <=> mem[k].primary
    BY <1>3, <1>6, <1>7
  <2>3. {k \in Library : new[k].primary} = {p}
    BY <2>1, <2>2
  <2> QED
    BY <1>4, <2>3 DEF OnePrimary
<1> QED
  BY <1>1, <1>2, <1>5, <1>6 DEF Whole, new

\* The primary is set, or a deleted primary's place is taken.
LEMMA Elected ==
  ASSUME NEW mem \in Index, CursorsFit(mem), NEW l \in Library, mem[l].known,
         \A k \in Library : mem[k].primary <=> k = l
  PROVE  Whole(mem)
<1>1. {k \in Library : mem[k].primary} = {l}
  OBVIOUS
<1> QED
  BY <1>1 DEF Whole, OnePrimary

\* One more trouble is still within the bound.
LEMMA TroubleTyped ==
  ASSUME ConstantsFit, IInv
  PROVE  /\ Trouble => trouble' \in 0..MaxTrouble
         /\ UNCHANGED trouble => trouble' \in 0..MaxTrouble
  BY Basics DEF Trouble, ConstantsFit

\* A library is created under a name that the account has not used.
LEMMA InsertKeeps ==
  ASSUME ConstantsFit, IInv, NEW key \in 1..account, NEW l \in Library, Insert(key, l)
  PROVE  /\ remote' \in Seq(Remote) /\ Served(remote', account)
         /\ DOMAIN remote \subseteq DOMAIN remote' /\ Len(remote) + 1 \in Id
<1> DEFINE new == [name |-> l, account |-> key, live |-> TRUE]
<1>1. /\ remote \in Seq(Remote) /\ account \in 1..MaxAccounts /\ MaxAccounts \in Nat
      /\ DOMAIN remote = 1..Len(remote) /\ Len(remote) \in Nat
  BY Basics DEF ConstantsFit
<1>2. new \in Remote
  BY <1>1 DEF Remote
<1>3. remote' = Append(remote, new)
  BY DEF Insert
<1>4. /\ remote' \in Seq(Remote) /\ DOMAIN remote' = 1..(Len(remote) + 1)
      /\ \A r \in DOMAIN remote' : remote'[r] = IF r \in DOMAIN remote THEN remote[r] ELSE new
      /\ \A r \in DOMAIN remote' : r \notin DOMAIN remote => r = Len(remote) + 1
  <2> HIDE DEF new
  <2> QED
    BY <1>1, <1>2, <1>3
<1>5. \A r \in DOMAIN remote : ~(remote[r].account = key /\ remote[r].name = l)
  BY DEF Insert, Rows
<1>6. Served(remote', account)
  <2>1. Served(remote, account)
    BY DEF IInv
  <2>2. new.account = key /\ new.name = l
    OBVIOUS
  <2> HIDE DEF new
  <2>3. \A r \in DOMAIN remote' : remote'[r].account <= account
    BY <1>1, <1>4, <2>1, <2>2 DEF Served
  <2>4. ASSUME NEW r \in DOMAIN remote', NEW s \in DOMAIN remote',
               remote'[r].name = remote'[s].name, remote'[r].account = remote'[s].account
        PROVE  r = s
    <3>1. ASSUME NEW q \in DOMAIN remote, NEW n \in DOMAIN remote', n \notin DOMAIN remote
          PROVE  ~(remote'[q].name = remote'[n].name /\ remote'[q].account = remote'[n].account)
      BY <1>4, <1>5, <2>2, <3>1
    <3>2. CASE r \in DOMAIN remote /\ s \in DOMAIN remote
      BY <1>4, <2>1, <2>4, <3>2 DEF Served
    <3>3. CASE r \notin DOMAIN remote /\ s \notin DOMAIN remote
      BY <1>4, <3>3
    <3> QED
      BY <2>4, <3>1, <3>2, <3>3
  <2> QED
    BY <2>3, <2>4 DEF Served
<1>7. Served(remote', MaxAccounts)
  <2>1. \A r \in DOMAIN remote' : remote'[r].account \in Nat
    <3>1. \A r \in DOMAIN remote' : remote'[r] \in Remote
      BY <1>4
    <3> QED
      BY <3>1 DEF Remote
  <2> QED
    BY <1>1, <1>6, <2>1 DEF Served
<1>8. Len(remote) + 1 \in Id
  BY <1>4, <1>7, IdsSuffice, <1>1
<1> QED
  BY <1>1, <1>4, <1>6, <1>8

\* Libraries of the server have ids.
LEMMA RemotesAreIds ==
  ASSUME ConstantsFit, IInv
  PROVE  DOMAIN remote \subseteq Id
<1>1. Served(remote, MaxAccounts)
  <2>1. \A r \in DOMAIN remote : remote[r].account \in Nat
    BY Basics DEF Remote
  <2> QED
    BY <2>1, Basics DEF IInv, Served, ConstantsFit
<1> QED
  BY <1>1, IdsSuffice, Basics

\* A step of a command.
LEMMA CommandKeeps ==
  ASSUME ConstantsFit, IInv, UNCHANGED <<server, marker, run, accepted>>,
         libraryFile' \in [Library -> BOOLEAN], trouble' \in 0..MaxTrouble, index' \in Index, Whole(index'),
         cmd' \in Command, CommandFits'
  PROVE  IInv'
<1>1. LinksTypeOK'
  BY Basics DEF server, LinksTypeOK, Progress, Command
<1> QED
  BY <1>1 DEF IInv, server

\* The run's place among its own facts: it holds no library in a loop.
LEMMA LoopStep ==
  ASSUME ConstantsFit, IInv, UNCHANGED <<server, disk, cmd, accepted>>, trouble' \in 0..MaxTrouble,
         NEW pc \in Loops \cup {"import"}, NEW fields, Run(pc, fields), Typed(fields),
         DOMAIN fields \cap {"lib", "got", "back", "relinked"} = {}
  PROVE  IInv'
<1>1. pc \in RunPc
  BY DEF RunPc, Loops
<1>2. run' \in Progress /\ run'.key <= account /\ run'.import \subseteq DOMAIN remote
      /\ Whole(run'.mem) /\ run'.pc = pc
  BY <1>1, RunTyped
<1> QED
  BY <1>2, LoopsFit, RunAlone

\* A run that ends, or dies.
LEMMA IdleKeeps ==
  ASSUME ConstantsFit, IInv, run' = Idle, UNCHANGED <<server, disk, cmd, accepted>>,
         trouble' \in 0..MaxTrouble
  PROVE  IInv'
<1>1. Idle.pc = "idle" /\ Idle.key = 1 /\ Idle.import = {} /\ Idle.mem = [l \in Library |-> Absent]
  BY DEF Idle
<1> QED
  BY <1>1, AbsentFits, Basics, LoopsFit, RunAlone

\* A library that the run gives up, with the index as it was.
LEMMA GiveUpKeeps ==
  ASSUME ConstantsFit, IInv, GiveUp, UNCHANGED <<server, disk, cmd, accepted>>,
         trouble' \in 0..MaxTrouble
  PROVE  IInv'
<1> DEFINE fields == [todo |-> run.todo \ {run.lib}]
<1>1. DOMAIN fields = {"todo"} /\ fields["todo"] \subseteq Library
  BY Basics DEF Progress
<1>2. run.back \in Loops /\ Run(run.back, fields)
  BY Basics DEF Progress, GiveUp
<1> HIDE DEF fields
<1>3. Typed(fields)
  BY <1>1 DEF Typed
<1> QED
  BY <1>1, <1>2, <1>3, LoopStep

\* A run starts with the index as it is.
LEMMA StartKeeps ==
  ASSUME ConstantsFit, IInv, Start
  PROVE  IInv'
<1>1. PICK import \in {{}, {r \in DOMAIN remote : Reachable(account, r)}} :
        run' = [Idle EXCEPT !.pc = "import", !.key = account, !.mem = index, !.import = import]
  BY DEF Start
<1>2. import \subseteq DOMAIN remote /\ import \subseteq Id
  BY RemotesAreIds
<1>3. Idle \in Progress /\ account \in 1..MaxAccounts /\ index \in Index
  BY Basics
<1>4. /\ run' \in Progress /\ run'.pc = "import" /\ run'.key = account /\ run'.mem = index
      /\ run'.import = import
  BY <1>1, <1>2, <1>3 DEF Progress, RunPc
<1> QED
  BY <1>2, <1>3, <1>4, LoopsFit, RunAlone, TroubleTyped DEF IInv, Start

\* It loads the index again before its loops.
LEMMA BeginKeeps ==
  ASSUME ConstantsFit, IInv, Begin
  PROVE  IInv'
<1> DEFINE fields == [mem |-> index, pre |-> Known(index), todo |-> Known(index)]
<1>1. CASE run' = Idle
  BY <1>1, IdleKeeps, TroubleTyped DEF Begin
<1>2. CASE Run("pre", fields)
  <2>1. /\ DOMAIN fields = {"mem", "pre", "todo"} /\ fields["mem"] = index
        /\ fields["pre"] \subseteq Library /\ fields["todo"] \subseteq Library
    BY DEF Known
  <2> HIDE DEF fields
  <2>2. Typed(fields)
    BY <2>1, Basics DEF Typed, IInv
  <2> QED
    BY <1>2, <2>1, <2>2, LoopStep, TroubleTyped DEF Begin, Loops
<1> QED
  BY <1>1, <1>2 DEF Begin

\* A library without a link goes to be created.
LEMMA PreflightKeeps ==
  ASSUME ConstantsFit, IInv, NEW l \in Library, Preflight(l)
  PROVE  IInv'
<1> DEFINE make == [lib |-> l, back |-> "pre", pre |-> run.pre \ {l}]
           skip == [pre |-> run.pre \ {l}]
<1>1. CASE run.mem[l].link = None /\ Run("create", make)
  <2>1. /\ DOMAIN make = {"lib", "back", "pre"} /\ make["lib"] = l /\ make["back"] = "pre"
        /\ make["pre"] \subseteq Library
    BY Basics DEF Progress
  <2> HIDE DEF make
  <2>2. Typed(make) /\ "create" \in RunPc /\ "create" \notin Loops
    BY <2>1 DEF Typed, Loops, RunPc
  <2>3. /\ run' \in Progress /\ run'.key <= account /\ run'.import \subseteq DOMAIN remote
        /\ Whole(run'.mem) /\ run'.pc = "create"
        /\ run'.mem = After("create", make, "mem") /\ run'.lib = After("create", make, "lib")
    BY <1>1, <2>2, RunTyped
  <2>4. run'.mem = run.mem /\ run'.lib = l
    BY <2>1, <2>2, <2>3 DEF After
  <2>5. Linking(run') /\ Marking(run', marker, accepted)
    BY <1>1, <2>3, <2>4 DEF Linking, Marking
  <2> QED
    BY <2>3, <2>5, RunAlone, TroubleTyped DEF Preflight
<1>2. CASE Run("pre", skip)
  <2>1. DOMAIN skip = {"pre"} /\ skip["pre"] \subseteq Library
    BY Basics DEF Progress
  <2> HIDE DEF skip
  <2>2. Typed(skip)
    BY <2>1 DEF Typed
  <2> QED
    BY <1>2, <2>1, <2>2, LoopStep, TroubleTyped DEF Preflight, Loops
<1> QED
  BY <1>1, <1>2 DEF Preflight

\* A step without fields.
LEMMA BareStep ==
  ASSUME ConstantsFit, IInv, NEW pc \in RunPc, RunTo(pc)
  PROVE  /\ run' \in Progress /\ run'.key <= account /\ run'.import \subseteq DOMAIN remote
         /\ Whole(run'.mem) /\ run'.pc = pc
         /\ pc \notin Loops => run'.mem = run.mem /\ run'.lib = run.lib /\ run'.got = run.got
                               /\ run'.back = run.back
<1>1. DOMAIN <<>> = {}
  OBVIOUS
<1>2. Typed(<<>>) /\ Run(pc, <<>>)
  BY <1>1 DEF Typed, RunTo
<1> QED
  BY <1>1, <1>2, RunTyped DEF After

\* The library of the server in hand: it is linked before the loop, and
\* recorded in the marker in a recovery.
LEMMA GotKeeps ==
  ASSUME ConstantsFit, IInv, NEW r \in Id, Got(r), UNCHANGED <<account, disk, cmd, accepted>>,
         run.pc \in {"create", "find", "locate"}, trouble' \in 0..MaxTrouble,
         remote' \in Seq(Remote), Served(remote', account), DOMAIN remote \subseteq DOMAIN remote'
  PROVE  IInv'
<1> DEFINE pc == IF run.back = "pre" THEN "link" ELSE "made"
           fields == [got |-> r]
<1>1. DOMAIN fields = {"got"} /\ fields["got"] = r /\ Run(pc, fields)
  BY DEF Got
<1>2. pc \in RunPc /\ pc \notin Loops
  BY DEF RunPc, Loops
<1> HIDE DEF fields, pc
<1>3. Typed(fields)
  BY <1>1 DEF Typed
<1>4. /\ run' \in Progress /\ run'.key <= account /\ run'.import \subseteq DOMAIN remote
      /\ Whole(run'.mem) /\ run'.pc = pc
      /\ run'.mem = After(pc, fields, "mem") /\ run'.lib = After(pc, fields, "lib")
  BY <1>1, <1>2, <1>3, RunTyped
<1>5. run'.mem = run.mem /\ run'.lib = run.lib
  BY <1>1, <1>2, <1>4 DEF After
<1>6. Linking(run)
  BY DEF IInv
<1>7. Linking(run') /\ Marking(run', marker, accepted)
  <2>1. run.back = "pre" => run.mem[run.lib].link = None
    BY <1>6 DEF Linking
  <2> QED
    BY <1>4, <1>5, <2>1 DEF Linking, Marking, pc
<1> QED
  BY <1>4, <1>7, Basics, RunKeeps DEF IInv, disk

\* The library is made on the server, or its name is taken.
LEMMA CreateRemoteKeeps ==
  ASSUME ConstantsFit, IInv, CreateRemote
  PROVE  IInv'
<1>1. run.lib \in Library /\ run.key \in 1..account
  BY Basics DEF IInv, Progress
<1>2. trouble' \in 0..MaxTrouble
  BY TroubleTyped DEF CreateRemote
<1>3. CASE Insert(run.key, run.lib) /\ Got(Len(remote) + 1)
  BY <1>1, <1>2, <1>3, InsertKeeps, GotKeeps DEF CreateRemote
<1>4. CASE RunTo("find") /\ UNCHANGED remote
  <2>1. "find" \in RunPc /\ "find" \notin Loops
    BY DEF RunPc, Loops
  <2>2. /\ run' \in Progress /\ run'.key <= account /\ run'.import \subseteq DOMAIN remote
        /\ Whole(run'.mem) /\ run'.pc = "find"
        /\ run'.mem = run.mem /\ run'.lib = run.lib /\ run'.back = run.back
    BY <1>4, <2>1, BareStep
  <2>3. Linking(run') /\ Marking(run', marker, accepted)
    BY <2>2 DEF IInv, CreateRemote, Linking, Marking
  <2> QED
    BY <1>2, <1>4, <2>2, <2>3, RunAlone DEF CreateRemote, server
<1> QED
  BY <1>3, <1>4 DEF CreateRemote

\* What the account can reach has an id.
LEMMA LiveIds ==
  ASSUME ConstantsFit, IInv, NEW key, NEW l
  PROVE  Live(key, l) \subseteq Id
  BY RemotesAreIds DEF Live, Rows

\* The library that has the name is adopted, if there is one.
LEMMA FindKeeps ==
  ASSUME ConstantsFit, IInv, Find
  PROVE  IInv'
<1>1. trouble' \in 0..MaxTrouble
  BY TroubleTyped DEF Find
<1>2. CASE GiveUp
  BY <1>1, <1>2, GiveUpKeeps DEF Find
<1>3. ASSUME NEW r \in Live(run.key, run.lib), Got(r) PROVE IInv'
  <2>1. r \in Id
    BY LiveIds
  <2> QED
    BY <1>1, <1>3, <2>1, Basics, GotKeeps DEF Find, server, IInv
<1> QED
  BY <1>2, <1>3 DEF Find

\* A recovery looks for a library of the name first.
LEMMA LocateKeeps ==
  ASSUME ConstantsFit, IInv, Locate
  PROVE  IInv'
<1>1. trouble' \in 0..MaxTrouble
  BY TroubleTyped DEF Locate
<1>2. CASE RunTo("create")
  <2>1. "create" \in RunPc /\ "create" \notin Loops
    BY DEF RunPc, Loops
  <2>2. /\ run' \in Progress /\ run'.key <= account /\ run'.import \subseteq DOMAIN remote
        /\ Whole(run'.mem) /\ run'.pc = "create" /\ run'.back = run.back
    BY <1>2, <2>1, BareStep
  <2>3. Linking(run') /\ Marking(run', marker, accepted)
    BY <2>2 DEF IInv, Locate, Linking, Marking
  <2> QED
    BY <1>1, <2>2, <2>3, RunAlone DEF Locate
<1>3. ASSUME NEW r \in Live(run.key, run.lib), Got(r) PROVE IInv'
  <2>1. r \in Id
    BY LiveIds
  <2> QED
    BY <1>1, <1>3, <2>1, Basics, GotKeeps DEF Locate, server, IInv
<1> QED
  BY <1>2, <1>3 DEF Locate

\* The markers are listed, and the list ends.
LEMMA ScanKeeps ==
  ASSUME ConstantsFit, IInv, ScanMarkers \/ EndScan
  PROVE  IInv'
<1> DEFINE fields == [scan |-> Marked]
<1>1. trouble' \in 0..MaxTrouble
  BY TroubleTyped DEF ScanMarkers, EndScan
<1>2. CASE ScanMarkers
  <2>1. DOMAIN fields = {"scan"} /\ fields["scan"] \subseteq Library /\ Run("scan", fields)
    BY <1>2 DEF Marked, ScanMarkers
  <2> HIDE DEF fields
  <2>2. Typed(fields)
    BY <2>1 DEF Typed
  <2> QED
    BY <1>1, <1>2, <2>1, <2>2, LoopStep DEF ScanMarkers, Loops
<1>3. CASE EndScan
  <2>1. "main" \in RunPc /\ RunTo("main")
    BY <1>3 DEF RunPc, EndScan
  <2>2. /\ run' \in Progress /\ run'.key <= account /\ run'.import \subseteq DOMAIN remote
        /\ Whole(run'.mem) /\ run'.pc = "main"
    BY <2>1, BareStep
  <2> QED
    BY <1>1, <1>3, <2>2, LoopsFit, RunAlone DEF EndScan, Loops
<1> QED
  BY <1>2, <1>3

\* A marked recovery is resumed.
LEMMA ResumeKeeps ==
  ASSUME ConstantsFit, IInv, NEW l \in Library, Resume(l)
  PROVE  IInv'
<1> DEFINE resume == [lib |-> l, back |-> "scan", scan |-> run.scan \ {l}, todo |-> run.todo \ {l}]
           skip == [scan |-> run.scan \ {l}]
<1>1. CASE Run("open", resume)
  <2>1. /\ DOMAIN resume = {"lib", "back", "scan", "todo"} /\ resume["lib"] = l /\ resume["back"] = "scan"
        /\ resume["scan"] \subseteq Library /\ resume["todo"] \subseteq Library
    BY Basics DEF Progress
  <2> HIDE DEF resume
  <2>2. Typed(resume) /\ "open" \in RunPc /\ "open" \notin Loops
    BY <2>1 DEF Typed, Loops, RunPc
  <2>3. /\ run' \in Progress /\ run'.key <= account /\ run'.import \subseteq DOMAIN remote
        /\ Whole(run'.mem) /\ run'.pc = "open" /\ run'.back = After("open", resume, "back")
    BY <1>1, <2>2, RunTyped
  <2>4. run'.back = "scan"
    BY <2>1, <2>3 DEF After
  <2>5. Linking(run') /\ Marking(run', marker, accepted)
    BY <2>3, <2>4 DEF Linking, Marking
  <2> QED
    BY <2>3, <2>5, RunAlone, TroubleTyped DEF Resume
<1>2. CASE Run("scan", skip)
  <2>1. DOMAIN skip = {"scan"} /\ skip["scan"] \subseteq Library
    BY Basics DEF Progress
  <2> HIDE DEF skip
  <2>2. Typed(skip)
    BY <2>1 DEF Typed
  <2> QED
    BY <1>2, <2>1, <2>2, LoopStep, TroubleTyped DEF Resume, Loops
<1> QED
  BY <1>1, <1>2 DEF Resume

\* A library of the main loop is synced or recovered.
LEMMA SyncLibraryKeeps ==
  ASSUME ConstantsFit, IInv, NEW l \in Library, SyncLibrary(l)
  PROVE  IInv'
<1> DEFINE rest == run.todo \ {l}
           skip == [todo |-> rest]
           sync == [lib |-> l, todo |-> rest]
           recover == [lib |-> l, back |-> "main", todo |-> rest]
<1>1. rest \subseteq Library
  BY Basics DEF Progress
<1>2. CASE Run("main", skip)
  <2>1. DOMAIN skip = {"todo"} /\ skip["todo"] \subseteq Library
    BY <1>1
  <2> HIDE DEF skip
  <2>2. Typed(skip)
    BY <2>1 DEF Typed
  <2> QED
    BY <1>2, <2>1, <2>2, LoopStep, TroubleTyped DEF SyncLibrary, Loops
<1>3. CASE Run("merge", sync)
  <2>1. DOMAIN sync = {"lib", "todo"} /\ sync["lib"] = l /\ sync["todo"] \subseteq Library
    BY <1>1
  <2> HIDE DEF sync
  <2>2. Typed(sync) /\ "merge" \in RunPc /\ "merge" \notin Loops
    BY <2>1 DEF Typed, Loops, RunPc
  <2>3. /\ run' \in Progress /\ run'.key <= account /\ run'.import \subseteq DOMAIN remote
        /\ Whole(run'.mem) /\ run'.pc = "merge"
    BY <1>3, <2>2, RunTyped
  <2>4. Linking(run') /\ Marking(run', marker, accepted)
    BY <2>3 DEF Linking, Marking
  <2> QED
    BY <2>3, <2>4, RunAlone, TroubleTyped DEF SyncLibrary
<1>4. CASE Run("open", recover)
  <2>1. /\ DOMAIN recover = {"lib", "back", "todo"} /\ recover["lib"] = l /\ recover["back"] = "main"
        /\ recover["todo"] \subseteq Library
    BY <1>1
  <2> HIDE DEF recover
  <2>2. Typed(recover) /\ "open" \in RunPc /\ "open" \notin Loops
    BY <2>1 DEF Typed, Loops, RunPc
  <2>3. /\ run' \in Progress /\ run'.key <= account /\ run'.import \subseteq DOMAIN remote
        /\ Whole(run'.mem) /\ run'.pc = "open" /\ run'.back = After("open", recover, "back")
    BY <1>4, <2>2, RunTyped
  <2>4. run'.back = "main"
    BY <2>1, <2>3 DEF After
  <2>5. Linking(run') /\ Marking(run', marker, accepted)
    BY <2>3, <2>4 DEF Linking, Marking
  <2> QED
    BY <2>3, <2>5, RunAlone, TroubleTyped DEF SyncLibrary
<1> QED
  BY <1>2, <1>3, <1>4 DEF SyncLibrary

\* The entry of the library in hand changes in the run's copy.
LEMMA EntryStep ==
  ASSUME ConstantsFit, IInv, NEW pc \in RunPc, NEW e \in Entry,
         e.known = run.mem[run.lib].known, e.primary = run.mem[run.lib].primary,
         e.cursor \in {None, e.link}, NEW fields, Run(pc, fields),
         fields.mem = [run.mem EXCEPT ![run.lib] = e],
         \/ DOMAIN fields = {"mem"}
         \/ DOMAIN fields = {"mem", "todo"} /\ fields.todo \subseteq Library
  PROVE  /\ run' \in Progress /\ run'.key <= account /\ run'.import \subseteq DOMAIN remote
         /\ Whole(run'.mem) /\ run'.pc = pc /\ run'.mem = [run.mem EXCEPT ![run.lib] = e]
         /\ [run.mem EXCEPT ![run.lib] = e] \in Index
         /\ pc \notin Loops => run'.lib = run.lib /\ run'.got = run.got /\ run'.back = run.back
<1>1. run.mem \in Index /\ Whole(run.mem) /\ run.lib \in Library
  BY Basics DEF Progress, IInv
<1> DEFINE mem == [run.mem EXCEPT ![run.lib] = e]
<1>2. mem \in Index /\ Whole(mem)
  BY <1>1, Changed
<1> HIDE DEF mem
<1>3. fields["mem"] = mem
  BY DEF mem
<1>4. Typed(fields)
  BY <1>2, <1>3 DEF Typed
<1>5. /\ run' \in Progress /\ run'.key <= account /\ run'.import \subseteq DOMAIN remote
      /\ Whole(run'.mem) /\ run'.pc = pc
      /\ run'.mem = After(pc, fields, "mem") /\ run'.lib = After(pc, fields, "lib")
      /\ run'.got = After(pc, fields, "got") /\ run'.back = After(pc, fields, "back")
  BY <1>4, RunTyped
<1>6. run'.mem = mem
  BY <1>3, <1>5 DEF After
<1>7. pc \notin Loops => run'.lib = run.lib /\ run'.got = run.got /\ run'.back = run.back
  BY <1>5 DEF After
<1> QED
  BY <1>2, <1>5, <1>6, <1>7 DEF mem

\* ... and in the index, when the copy is saved.
LEMMA SaveStep ==
  ASSUME ConstantsFit, IInv, NEW pc \in RunPc, NEW e \in Entry,
         e.known = run.mem[run.lib].known, e.primary = run.mem[run.lib].primary,
         e.cursor \in {None, e.link},
         \/ RunSaves(run.lib, e, pc) /\ UNCHANGED trouble
         \/ RunCannotSave(run.lib, e, pc)
  PROVE  /\ run' \in Progress /\ run'.key <= account /\ run'.import \subseteq DOMAIN remote
         /\ Whole(run'.mem) /\ run'.pc = pc /\ index' \in Index /\ Whole(index')
         /\ pc \notin Loops => run'.lib = run.lib /\ run'.got = run.got /\ run'.back = run.back
         /\ trouble' \in 0..MaxTrouble
<1> DEFINE mem == [run.mem EXCEPT ![run.lib] = e]
           fields == [mem |-> mem]
<1>1. Run(pc, fields) /\ (index' = mem \/ index' = index)
  BY DEF RunSaves, RunCannotSave
<1>2. DOMAIN fields = {"mem"} /\ fields.mem = mem
  OBVIOUS
<1>3. trouble' \in 0..MaxTrouble
  BY TroubleTyped DEF RunCannotSave
<1> HIDE DEF fields
<1>4. /\ run' \in Progress /\ run'.key <= account /\ run'.import \subseteq DOMAIN remote
      /\ Whole(run'.mem) /\ run'.pc = pc /\ run'.mem = mem /\ mem \in Index
      /\ pc \notin Loops => run'.lib = run.lib /\ run'.got = run.got /\ run'.back = run.back
  BY <1>1, <1>2, EntryStep
<1>5. index \in Index /\ Whole(index)
  BY Basics DEF IInv
<1> HIDE DEF mem
<1> QED
  BY <1>1, <1>3, <1>4, <1>5

\* The entry in hand.
LEMMA EntryInHand ==
  ASSUME ConstantsFit, IInv
  PROVE  /\ run.lib \in Library /\ run.mem[run.lib] \in Entry /\ run.got \in Id /\ run.back \in Loops
         /\ run.mem[run.lib].cursor \in {None, run.mem[run.lib].link} /\ run.mem[run.lib].link \in Id
         /\ run.todo \subseteq Library /\ None \in Id
<1>1. run.lib \in Library /\ run.mem \in Index /\ Whole(run.mem)
  BY Basics DEF Progress, IInv
<1>2. run.mem[run.lib] \in Entry
  BY <1>1 DEF Index
<1> QED
  BY <1>1, <1>2, Basics DEF Progress, Whole, CursorsFit, Entry

\* The entry is linked; it had no link, hence no cursor.
LEMMA LinkKeeps ==
  ASSUME ConstantsFit, IInv, Link
  PROVE  IInv'
<1> DEFINE old == run.mem[run.lib]
           e == [old EXCEPT !.link = run.got]
           fields == [mem |-> [run.mem EXCEPT ![run.lib] = e], todo |-> run.todo \ {run.lib}]
<1>1. old.link = None
  BY DEF IInv, Link, Linking
<1>2. e \in Entry /\ e.known = old.known /\ e.primary = old.primary /\ e.cursor \in {None, e.link}
  BY <1>1, EntryInHand DEF Entry
<1>3. "pre" \in RunPc /\ "pre" \in Loops
  BY DEF RunPc, Loops
<1>4. /\ DOMAIN fields = {"mem", "todo"} /\ fields.mem = [run.mem EXCEPT ![run.lib] = e]
      /\ fields.todo \subseteq Library
  BY EntryInHand
<1>5. UNCHANGED <<server, libraryFile, marker, cmd, accepted>> /\ trouble' \in 0..MaxTrouble
  BY TroubleTyped DEF Link
<1>6. \/ RunSaves(run.lib, e, "pre") /\ UNCHANGED trouble
      \/ Run("pre", fields) /\ UNCHANGED index
  BY DEF Link
<1>7. index \in Index /\ Whole(index)
  BY Basics DEF IInv
<1> HIDE DEF fields, e
<1>8. /\ run' \in Progress /\ run'.key <= account /\ run'.import \subseteq DOMAIN remote
      /\ Whole(run'.mem) /\ run'.pc = "pre" /\ index' \in Index /\ Whole(index')
  BY <1>2, <1>3, <1>4, <1>6, <1>7, EntryStep, SaveStep
<1> QED
  BY <1>3, <1>5, <1>8, Basics, LoopsFit, RunKeeps DEF server, IInv

\* The answer is merged and the cursor recorded.
LEMMA MergeKeeps ==
  ASSUME ConstantsFit, IInv, Merge
  PROVE  IInv'
<1> DEFINE old == run.mem[run.lib]
           pulled == [old EXCEPT !.cursor = old.link]
<1>1. /\ pulled \in Entry /\ pulled.known = old.known /\ pulled.primary = old.primary
      /\ pulled.cursor \in {None, pulled.link}
  BY EntryInHand DEF Entry
<1>2. "main" \in RunPc /\ "main" \in Loops
  BY DEF RunPc, Loops
<1>3. /\ \/ RunSaves(run.lib, pulled, "main") /\ UNCHANGED trouble
         \/ RunSaves(run.lib, old, "main") /\ UNCHANGED trouble
         \/ RunCannotSave(run.lib, pulled, "main")
      /\ libraryFile' = [libraryFile EXCEPT ![run.lib] = TRUE] /\ UNCHANGED <<server, marker, cmd, accepted>>
  BY DEF Merge
<1>4. libraryFile' \in [Library -> BOOLEAN]
  BY <1>3, Basics
<1> HIDE DEF pulled
<1>5. /\ run' \in Progress /\ run'.key <= account /\ run'.import \subseteq DOMAIN remote
      /\ Whole(run'.mem) /\ run'.pc = "main" /\ index' \in Index /\ Whole(index')
      /\ trouble' \in 0..MaxTrouble
  BY <1>1, <1>2, <1>3, EntryInHand, SaveStep
<1> QED
  BY <1>2, <1>3, <1>4, <1>5, Basics, LoopsFit, RunKeeps DEF server, IInv

\* The run ends.
LEMMA FinishKeeps ==
  ASSUME ConstantsFit, IInv, Finish
  PROVE  IInv'
  BY IdleKeeps, TroubleTyped DEF Finish

\* The marker is opened and bound to the entry.
LEMMA OpenKeeps ==
  ASSUME ConstantsFit, IInv, Open
  PROVE  IInv'
<1> DEFINE l == run.lib
           link == run.mem[l].link
           m == IF marker[l].phase = "none"
                THEN [phase |-> "creating", local |-> link, server |-> None] ELSE marker[l]
           pc == IF m.server = None THEN "locate" ELSE "made"
           fields == [got |-> m.server, relinked |-> m.phase = "linked"]
<1>1. trouble' \in 0..MaxTrouble
  BY TroubleTyped DEF Open
<1>2. CASE GiveUp /\ UNCHANGED marker
  BY <1>1, <1>2, GiveUpKeeps DEF Open, disk
<1>3. CASE marker' = [marker EXCEPT ![l] = [m EXCEPT !.local = link]] /\ Run(pc, fields)
  <2>1. m \in Marker /\ m.phase # "none" /\ link \in Id
    BY EntryInHand, Basics DEF Marker, Phase
  <2>2. [m EXCEPT !.local = link] \in Marker
    BY <2>1 DEF Marker
  <2>3. /\ DOMAIN fields = {"got", "relinked"} /\ fields["got"] \in Id /\ fields["relinked"] \in BOOLEAN
    BY <2>1 DEF Marker
  <2>4. marker' \in [Library -> Marker]
    BY <1>3, <2>2, EntryInHand, Basics
  <2>5. pc \in {"locate", "made"} /\ pc \in RunPc /\ pc \notin Loops
    BY DEF RunPc, Loops
  <2> HIDE DEF fields, pc, m
  <2>6. Typed(fields)
    BY <2>3 DEF Typed
  <2>7. /\ run' \in Progress /\ run'.key <= account /\ run'.import \subseteq DOMAIN remote
        /\ Whole(run'.mem) /\ run'.pc = pc /\ run'.back = After(pc, fields, "back")
    BY <1>3, <2>5, <2>6, RunTyped
  <2>8. run'.back = run.back /\ run.back # "pre"
    BY <2>3, <2>5, <2>7 DEF After, IInv, Open, Linking
  <2>9. Linking(run') /\ Marking(run', marker', accepted)
    BY <2>5, <2>7, <2>8 DEF Linking, Marking
  <2> QED
    BY <1>1, <2>4, <2>7, <2>9, Basics, RunKeeps DEF Open, server, IInv
<1> QED
  BY <1>2, <1>3 DEF Open

\* The marker names the library that replaces the lost one.
LEMMA RecordRemoteKeeps ==
  ASSUME ConstantsFit, IInv, RecordRemote
  PROVE  IInv'
<1> DEFINE pc == IF run.relinked THEN "retry" ELSE "relink"
           m == [[marker[run.lib] EXCEPT !.server = run.got] EXCEPT !.phase = "remote_created"]
<1>1. pc \in {"retry", "relink"} /\ pc \in RunPc /\ pc \notin Loops
  BY DEF RunPc, Loops
<1>2. RunTo(pc) /\ trouble' \in 0..MaxTrouble
  BY TroubleTyped DEF RecordRemote
<1>3. marker[run.lib] \in Marker
  BY Basics, EntryInHand
<1>4. m \in Marker /\ m.server = run.got /\ m.phase = "remote_created"
  BY <1>3, EntryInHand DEF Marker, Phase
<1>5. marker' = [marker EXCEPT ![run.lib] = m]
  BY <1>3, EntryInHand, Basics DEF RecordRemote, Marker
<1> HIDE DEF pc, m
<1>6. marker' \in [Library -> Marker] /\ marker'[run.lib] = m
  BY <1>4, <1>5, EntryInHand, Basics
<1>7. /\ run' \in Progress /\ run'.key <= account /\ run'.import \subseteq DOMAIN remote
      /\ Whole(run'.mem) /\ run'.pc = pc /\ run'.lib = run.lib /\ run'.got = run.got
  BY <1>1, <1>2, BareStep
<1>8. Linking(run') /\ Marking(run', marker', accepted)
  BY <1>1, <1>4, <1>6, <1>7 DEF Linking, Marking
<1> QED
  BY <1>2, <1>6, <1>7, <1>8, Basics, RunKeeps DEF RecordRemote, server, IInv

\* The entry is relinked and its cursor dropped.
LEMMA RelinkKeeps ==
  ASSUME ConstantsFit, IInv, Relink
  PROVE  IInv'
<1> DEFINE mem == [run.mem EXCEPT ![run.lib] = Relinked]
           fields == [mem |-> mem]
<1>1. /\ Relinked \in Entry /\ Relinked.known = run.mem[run.lib].known
      /\ Relinked.primary = run.mem[run.lib].primary /\ Relinked.cursor \in {None, Relinked.link}
  BY EntryInHand DEF Entry, Relinked
<1>2. UNCHANGED <<server, libraryFile, marker, cmd, accepted>> /\ trouble' \in 0..MaxTrouble
  BY TroubleTyped DEF Relink
<1>3. CASE RunSaves(run.lib, Relinked, "mark") /\ UNCHANGED trouble
  <2>1. "mark" \in RunPc /\ "mark" \notin Loops
    BY DEF RunPc, Loops
  <2>2. /\ run' \in Progress /\ run'.key <= account /\ run'.import \subseteq DOMAIN remote
        /\ Whole(run'.mem) /\ run'.pc = "mark" /\ index' \in Index /\ Whole(index')
        /\ run'.lib = run.lib /\ run'.got = run.got
    BY <1>1, <1>3, <2>1, SaveStep
  <2>3. Linking(run') /\ Marking(run', marker', accepted')
    BY <1>2, <2>2 DEF IInv, Relink, Linking, Marking
  <2> QED
    BY <1>2, <2>2, <2>3, Basics, RunKeeps DEF server, IInv
<1>4. CASE Run(run.back, fields) /\ UNCHANGED index
  <2>1. DOMAIN fields = {"mem"} /\ fields.mem = mem
    OBVIOUS
  <2>2. run.back \in Loops /\ run.back \in RunPc
    BY EntryInHand DEF Loops, RunPc
  <2> HIDE DEF fields
  <2>3. /\ run' \in Progress /\ run'.key <= account /\ run'.import \subseteq DOMAIN remote
        /\ Whole(run'.mem) /\ run'.pc = run.back
    BY <1>1, <1>4, <2>1, <2>2, EntryStep
  <2> QED
    BY <1>2, <1>4, <2>2, <2>3, Basics, LoopsFit, RunKeeps DEF server, IInv
<1> QED
  BY <1>3, <1>4 DEF Relink

\* The marker records the new link.
LEMMA RecordLinkKeeps ==
  ASSUME ConstantsFit, IInv, RecordLink
  PROVE  IInv'
<1> DEFINE m == [[marker[run.lib] EXCEPT !.local = run.mem[run.lib].link] EXCEPT !.phase = "linked"]
<1>1. RunTo("retry") /\ "retry" \in RunPc /\ "retry" \notin Loops /\ trouble' \in 0..MaxTrouble
  BY TroubleTyped DEF RunPc, Loops, RecordLink
<1>2. marker[run.lib] \in Marker /\ marker[run.lib].server = run.got
  BY Basics, EntryInHand DEF IInv, Marking, RecordLink
<1>3. m \in Marker /\ m.server = run.got /\ m.phase = "linked"
  BY <1>2, EntryInHand DEF Marker, Phase
<1>4. marker' = [marker EXCEPT ![run.lib] = m]
  BY <1>2, EntryInHand, Basics DEF RecordLink, Marker
<1> HIDE DEF m
<1>5. marker' \in [Library -> Marker] /\ marker'[run.lib] = m
  BY <1>3, <1>4, EntryInHand, Basics
<1>6. /\ run' \in Progress /\ run'.key <= account /\ run'.import \subseteq DOMAIN remote
      /\ Whole(run'.mem) /\ run'.pc = "retry" /\ run'.lib = run.lib /\ run'.got = run.got
  BY <1>1, BareStep
<1>7. Linking(run') /\ Marking(run', marker', accepted)
  BY <1>3, <1>5, <1>6 DEF Linking, Marking
<1> QED
  BY <1>1, <1>5, <1>6, <1>7, Basics, RunKeeps DEF RecordLink, server, IInv

\* All rows go to the new library, which may skip some.
LEMMA RetryKeeps ==
  ASSUME ConstantsFit, IInv, Retry
  PROVE  IInv'
<1>1. /\ run.pc = "retry" /\ UNCHANGED <<server, index, marker, cmd>> /\ trouble' \in 0..MaxTrouble
      /\ \/ GiveUp /\ UNCHANGED <<libraryFile, accepted>>
         \/ /\ libraryFile' = [libraryFile EXCEPT ![run.lib] = TRUE]
            /\ \/ accepted' = accepted \cup {run.got} /\ RunTo("cursors")
               \/ GiveUp /\ UNCHANGED accepted
  BY TroubleTyped DEF Retry
<1>2. libraryFile' \in [Library -> BOOLEAN]
  BY <1>1, Basics
<1>3. CASE GiveUp /\ UNCHANGED accepted
  <2> DEFINE fields == [todo |-> run.todo \ {run.lib}]
  <2>1. DOMAIN fields = {"todo"} /\ fields["todo"] \subseteq Library /\ Run(run.back, fields)
    BY <1>3, EntryInHand DEF GiveUp
  <2>2. run.back \in Loops /\ run.back \in RunPc
    BY EntryInHand DEF Loops, RunPc
  <2> HIDE DEF fields
  <2>3. Typed(fields)
    BY <2>1 DEF Typed
  <2>4. /\ run' \in Progress /\ run'.key <= account /\ run'.import \subseteq DOMAIN remote
        /\ Whole(run'.mem) /\ run'.pc = run.back
    BY <2>1, <2>2, <2>3, RunTyped
  <2> QED
    BY <1>1, <1>2, <1>3, <2>2, <2>4, Basics, LoopsFit, RunKeeps DEF server, IInv
<1>4. CASE accepted' = accepted \cup {run.got} /\ RunTo("cursors")
  <2>1. "cursors" \in RunPc /\ "cursors" \notin Loops
    BY DEF RunPc, Loops
  <2>2. /\ run' \in Progress /\ run'.key <= account /\ run'.import \subseteq DOMAIN remote
        /\ Whole(run'.mem) /\ run'.pc = "cursors" /\ run'.lib = run.lib /\ run'.got = run.got
    BY <1>4, <2>1, BareStep
  <2>3. accepted' \in SUBSET Id
    BY <1>4, Basics, EntryInHand
  <2>4. Linking(run') /\ Marking(run', marker', accepted')
    BY <1>1, <1>4, <2>2 DEF Linking, Marking, IInv
  <2> QED
    BY <1>1, <1>2, <2>2, <2>3, <2>4, Basics, RunKeeps DEF server, IInv
<1> QED
  BY <1>1, <1>3, <1>4

\* The cursors are reset once all rows are accepted.
LEMMA ResetCursorsKeeps ==
  ASSUME ConstantsFit, IInv, ResetCursors
  PROVE  IInv'
<1> DEFINE old == run.mem[run.lib]
           e == [old EXCEPT !.cursor = None]
<1>1. e \in Entry /\ e.known = old.known /\ e.primary = old.primary /\ e.cursor \in {None, e.link}
  BY EntryInHand DEF Entry
<1>2. /\ \/ RunSaves(run.lib, e, "unmark") /\ UNCHANGED trouble
         \/ RunCannotSave(run.lib, e, run.back)
      /\ run.pc = "cursors" /\ UNCHANGED <<server, libraryFile, marker, cmd, accepted>>
  BY DEF ResetCursors
<1>3. /\ "unmark" \in RunPc /\ "unmark" \notin Loops
      /\ run.back \in RunPc /\ run.back \in Loops
  BY EntryInHand DEF RunPc, Loops
<1> HIDE DEF e
<1>4. \E pc \in {"unmark", run.back} :
         /\ run' \in Progress /\ run'.key <= account /\ run'.import \subseteq DOMAIN remote
         /\ Whole(run'.mem) /\ run'.pc = pc /\ index' \in Index /\ Whole(index')
         /\ pc \notin Loops => run'.lib = run.lib /\ run'.got = run.got
         /\ trouble' \in 0..MaxTrouble
  <2>1. CASE RunSaves(run.lib, e, "unmark") /\ UNCHANGED trouble
    BY <1>1, <1>3, <2>1, SaveStep
  <2>2. CASE RunCannotSave(run.lib, e, run.back)
    BY <1>1, <1>3, <2>2, SaveStep
  <2> QED
    BY <1>2, <2>1, <2>2
<1>5. Linking(run') /\ Marking(run', marker', accepted')
  <2>1. CASE run'.pc \in Loops
    BY <2>1, LoopsFit
  <2>2. CASE run'.pc = "unmark" /\ run'.lib = run.lib /\ run'.got = run.got
    BY <1>2, <2>2 DEF Linking, Marking, IInv
  <2> QED
    BY <1>3, <1>4, <2>1, <2>2
<1> QED
  BY <1>2, <1>4, <1>5, Basics, RunKeeps DEF server, IInv

\* The marker goes.
LEMMA UnmarkKeeps ==
  ASSUME ConstantsFit, IInv, Unmark
  PROVE  IInv'
<1>1. RunTo(run.back) /\ trouble' \in 0..MaxTrouble
  BY TroubleTyped DEF Unmark
<1>2. run.back \in Loops /\ run.back \in RunPc
  BY EntryInHand DEF Loops, RunPc
<1>3. NoMarker \in Marker
  BY Basics DEF NoMarker, Marker, Phase
<1>4. marker' \in [Library -> Marker]
  BY <1>3, Basics DEF Unmark
<1>5. /\ run' \in Progress /\ run'.key <= account /\ run'.import \subseteq DOMAIN remote
      /\ Whole(run'.mem) /\ run'.pc = run.back
  BY <1>1, <1>2, BareStep
<1> QED
  BY <1>1, <1>2, <1>4, <1>5, Basics, LoopsFit, RunKeeps DEF Unmark, server, IInv

\* A call fails or its answer is lost.
LEMMA FailureKeeps ==
  ASSUME ConstantsFit, IInv, CallFails \/ SyncFails
  PROVE  IInv'
<1>1. trouble' \in 0..MaxTrouble
  BY TroubleTyped DEF CallFails, SyncFails
<1>2. CASE SyncFails
  <2>1. "main" \in RunPc /\ RunTo("main")
    BY <1>2 DEF RunPc, SyncFails
  <2>2. /\ run' \in Progress /\ run'.key <= account /\ run'.import \subseteq DOMAIN remote
        /\ Whole(run'.mem) /\ run'.pc = "main"
    BY <2>1, BareStep
  <2> QED
    BY <1>1, <1>2, <2>2, LoopsFit, RunAlone DEF SyncFails, Loops
<1>3. CASE CallFails
  <2> DEFINE fields == [todo |-> run.todo \ {run.lib}]
  <2>1. DOMAIN fields = {"todo"} /\ fields["todo"] \subseteq Library /\ Run(run.back, fields)
    BY <1>3, EntryInHand DEF CallFails, GiveUp
  <2>2. run.back \in Loops /\ run.back \in RunPc
    BY EntryInHand DEF Loops, RunPc
  <2> HIDE DEF fields
  <2>3. Typed(fields)
    BY <2>1 DEF Typed
  <2>4. /\ run' \in Progress /\ run'.key <= account /\ run'.import \subseteq DOMAIN remote
        /\ Whole(run'.mem) /\ run'.pc = run.back
    BY <2>1, <2>2, <2>3, RunTyped
  <2>5. remote' \in Seq(Remote) /\ Served(remote', account) /\ DOMAIN remote \subseteq DOMAIN remote'
    <3>1. run.key \in 1..account /\ run.lib \in Library
      BY Basics DEF IInv, Progress
    <3>2. UNCHANGED remote \/ Insert(run.key, run.lib)
      BY <1>3 DEF CallFails
    <3>3. Served(remote, account)
      BY DEF IInv
    <3> QED
      BY <3>1, <3>2, <3>3, Basics, InsertKeeps
  <2> QED
    BY <1>1, <1>3, <2>2, <2>4, <2>5, Basics, LoopsFit, RunKeeps DEF CallFails, disk, IInv
<1> QED
  BY <1>2, <1>3

\* One library of the server is imported into the index.
LEMMA ImportKeeps ==
  ASSUME ConstantsFit, IInv, NEW r \in run.import, Import(r)
  PROVE  IInv'
<1> DEFINE l == remote[r].name
           e == run.mem[l]
           rest == run.import \ {r}
           linked == [e EXCEPT !.link = r]
           added == [known |-> TRUE, primary |-> Known(run.mem) = {}, link |-> r, cursor |-> None]
           mem == [run.mem EXCEPT ![l] = linked]
           larger == [run.mem EXCEPT ![l] = added]
<1>1. /\ r \in DOMAIN remote /\ r \in Id /\ l \in Library /\ run.mem \in Index /\ Whole(run.mem)
      /\ rest \subseteq run.import /\ None \in Id
  BY RemotesAreIds, Basics DEF IInv, Progress, Remote
<1>2. e \in Entry /\ e.cursor \in {None, e.link}
  BY <1>1 DEF Index, Whole, CursorsFit
<1>3. UNCHANGED <<server, marker, cmd, accepted, trouble>> /\ trouble' \in 0..MaxTrouble
  BY TroubleTyped DEF Import
<1>4. "import" \in RunPc /\ "import" \notin Loops
  BY DEF RunPc, Loops
<1>5. CASE Run("import", [import |-> rest]) /\ UNCHANGED <<index, libraryFile>>
  <2> DEFINE fields == [import |-> rest]
  <2>1. DOMAIN fields = {"import"} /\ fields["import"] \subseteq run.import
    BY <1>1
  <2>2. Run("import", fields)
    BY <1>5
  <2> HIDE DEF fields
  <2>3. Typed(fields)
    BY <2>1 DEF Typed
  <2> QED
    BY <1>3, <1>5, <2>1, <2>2, <2>3, LoopStep DEF disk
<1>6. ASSUME NEW new \in Index, Whole(new), Run("import", [mem |-> new, import |-> rest]),
             index' = new, libraryFile' \in [Library -> BOOLEAN]
      PROVE  IInv'
  <2> DEFINE fields == [mem |-> new, import |-> rest]
  <2>1. DOMAIN fields = {"mem", "import"} /\ fields["import"] \subseteq run.import /\ fields["mem"] = new
    BY <1>1
  <2>2. Run("import", fields)
    BY <1>6
  <2> HIDE DEF fields
  <2>3. Typed(fields)
    BY <1>6, <2>1 DEF Typed
  <2>4. /\ run' \in Progress /\ run'.key <= account /\ run'.import \subseteq DOMAIN remote
        /\ Whole(run'.mem) /\ run'.pc = "import"
    BY <1>4, <2>1, <2>2, <2>3, RunTyped
  <2> QED
    BY <1>3, <1>6, <2>4, Basics, LoopsFit, RunKeeps DEF server, IInv
<1>7. CASE e.link = None /\ Run("import", [mem |-> mem, import |-> rest]) /\ index' = mem /\ UNCHANGED libraryFile
  <2>1. /\ linked \in Entry /\ linked.known = e.known /\ linked.primary = e.primary
        /\ linked.cursor \in {None, linked.link}
    BY <1>1, <1>2, <1>7 DEF Entry
  <2> HIDE DEF linked
  <2>2. mem \in Index /\ Whole(mem)
    BY <1>1, <2>1, Changed
  <2> HIDE DEF mem
  <2> QED
    BY <1>6, <1>7, <2>2, Basics
<1>8. CASE ~e.known /\ libraryFile' = [libraryFile EXCEPT ![l] = TRUE]
           /\ Run("import", [mem |-> larger, import |-> rest]) /\ index' = larger
  <2>1. /\ added \in Entry /\ added.known /\ (added.primary <=> Known(run.mem) = {})
        /\ added.cursor \in {None, added.link}
    BY <1>1 DEF Entry
  <2> HIDE DEF added
  <2>2. larger \in Index /\ Whole(larger)
    BY <1>1, <1>8, <2>1, Added
  <2>3. libraryFile' \in [Library -> BOOLEAN]
    BY <1>1, <1>8, Basics
  <2> HIDE DEF larger
  <2> QED
    BY <1>6, <1>8, <2>2, <2>3
<1> QED
  BY <1>5, <1>7, <1>8 DEF Import

\* What the account's other clients do, and a registration of this one.
LEMMA OthersKeep ==
  ASSUME ConstantsFit, IInv, UNCHANGED <<disk, run, cmd, accepted>>, trouble' \in 0..MaxTrouble,
         remote' \in Seq(Remote), account' \in 1..MaxAccounts, account <= account',
         Served(remote', account'), DOMAIN remote \subseteq DOMAIN remote'
  PROVE  IInv'
<1>1. LinksTypeOK'
  BY Basics DEF disk, LinksTypeOK, Progress, Command
<1>2. run.key <= account'
  BY Basics DEF Progress, IInv
<1> QED
  BY <1>1, <1>2 DEF IInv, disk, CommandFits

\* Another client creates a library.
LEMMA OtherCreatesKeeps ==
  ASSUME ConstantsFit, IInv, NEW l \in Library, OtherCreates(l)
  PROVE  IInv'
<1>1. account \in 1..account /\ account \in 1..MaxAccounts
  BY Basics
<1> QED
  BY <1>1, InsertKeeps, OthersKeep, TroubleTyped DEF OtherCreates

\* Another client deletes one; its row stays.
LEMMA OtherDeletesKeeps ==
  ASSUME ConstantsFit, IInv, NEW r \in DOMAIN remote, OtherDeletes(r)
  PROVE  IInv'
<1> DEFINE gone == [remote[r] EXCEPT !.live = FALSE]
<1>1. /\ remote \in Seq(Remote) /\ remote[r] \in Remote /\ DOMAIN remote = 1..Len(remote) /\ Len(remote) \in Nat
      /\ account \in 1..MaxAccounts
  BY Basics
<1>2. gone \in Remote /\ gone.name = remote[r].name /\ gone.account = remote[r].account
  BY <1>1 DEF Remote
<1>3. remote' = [remote EXCEPT ![r] = gone]
  BY <1>1 DEF OtherDeletes, Remote
<1> HIDE DEF gone
<1>4. /\ remote' \in Seq(Remote) /\ DOMAIN remote' = DOMAIN remote
      /\ \A s \in DOMAIN remote : remote'[s] = IF s = r THEN gone ELSE remote[s]
  BY <1>1, <1>2, <1>3
<1>5. \A s \in DOMAIN remote : remote'[s].name = remote[s].name /\ remote'[s].account = remote[s].account
  BY <1>2, <1>4
<1>6. Served(remote', account)
  BY <1>4, <1>5 DEF IInv, Served
<1> QED
  BY <1>1, <1>4, <1>6, OthersKeep, TroubleTyped DEF OtherDeletes

\* The client registers a new account.
LEMMA RegisterKeeps ==
  ASSUME ConstantsFit, IInv, Register
  PROVE  IInv'
<1> DEFINE new == [name |-> Default, account |-> account + 1, live |-> TRUE]
<1>1. /\ remote \in Seq(Remote) /\ DOMAIN remote = 1..Len(remote) /\ Len(remote) \in Nat
      /\ account \in 1..MaxAccounts /\ MaxAccounts \in Nat /\ account < MaxAccounts /\ Default \in Library
  BY Basics DEF ConstantsFit, Register
<1>2. new \in Remote /\ new.account = account + 1
  BY <1>1 DEF Remote
<1>3. remote' = Append(remote, new) /\ account' = account + 1
  BY DEF Register
<1> HIDE DEF new
<1>4. /\ remote' \in Seq(Remote) /\ DOMAIN remote' = 1..(Len(remote) + 1)
      /\ \A r \in DOMAIN remote' : remote'[r] = IF r \in DOMAIN remote THEN remote[r] ELSE new
      /\ \A r \in DOMAIN remote' : r \notin DOMAIN remote => r = Len(remote) + 1
  BY <1>1, <1>2, <1>3
<1>5. \A r \in DOMAIN remote : remote[r].account \in Nat /\ remote[r].account <= account
  <2>1. \A r \in DOMAIN remote : remote[r].account \in 1..MaxAccounts
    BY Basics DEF Remote
  <2> QED
    BY <2>1 DEF IInv, Served
<1>6. Served(remote', account')
  <2>1. \A r \in DOMAIN remote' : remote'[r].account <= account'
    BY <1>1, <1>2, <1>3, <1>4, <1>5
  <2>2. ASSUME NEW r \in DOMAIN remote', NEW s \in DOMAIN remote',
               remote'[r].name = remote'[s].name, remote'[r].account = remote'[s].account
        PROVE  r = s
    <3>1. \A q \in DOMAIN remote' : remote'[q].account = account + 1 <=> q \notin DOMAIN remote
      BY <1>1, <1>2, <1>4, <1>5
    <3>2. CASE r \in DOMAIN remote /\ s \in DOMAIN remote
      BY <1>4, <2>2, <3>2 DEF IInv, Served
    <3>3. CASE r \notin DOMAIN remote /\ s \notin DOMAIN remote
      BY <1>4, <3>3
    <3> QED
      BY <2>2, <3>1, <3>2, <3>3
  <2> QED
    BY <2>1, <2>2 DEF Served
<1> QED
  BY <1>1, <1>3, <1>4, <1>6, OthersKeep, TroubleTyped DEF Register

\* A command loads the index.
LEMMA LoadKeeps ==
  ASSUME ConstantsFit, IInv, NEW op \in Op, NEW l \in Library, Load(op, l)
  PROVE  IInv'
<1>1. cmd' = [pc |-> "loaded", op |-> op, lib |-> l, mem |-> index]
  BY DEF Load
<1>2. cmd' \in Command
  BY <1>1, Basics DEF Command
<1>3. CommandFits'
  BY <1>1 DEF IInv, CommandFits
<1> QED
  BY <1>2, <1>3, Basics, CommandKeeps, TroubleTyped DEF Load, disk, IInv

\* A command that is over.
LEMMA CommandEnds ==
  ASSUME ConstantsFit, IInv, cmd' = NoCommand, UNCHANGED <<server, marker, run, accepted>>,
         libraryFile' \in [Library -> BOOLEAN], trouble' \in 0..MaxTrouble, index' \in Index, Whole(index')
  PROVE  IInv'
<1>1. NoCommand.pc = "idle" /\ NoCommand.mem = [l \in Library |-> Absent]
  BY DEF NoCommand
<1>2. CommandFits'
  BY <1>1, AbsentFits DEF CommandFits
<1> QED
  BY <1>2, Basics, CommandKeeps

\* A command is refused, or dies.
LEMMA RefuseKeeps ==
  ASSUME ConstantsFit, IInv, Refuse \/ CrashCommand
  PROVE  IInv'
  BY Basics, CommandEnds, TroubleTyped DEF Refuse, CrashCommand, disk, IInv

\* The run dies.
LEMMA CrashRunKeeps ==
  ASSUME ConstantsFit, IInv, CrashRun
  PROVE  IInv'
  BY IdleKeeps, TroubleTyped DEF CrashRun

\* A creation writes the file.
LEMMA WriteFileKeeps ==
  ASSUME ConstantsFit, IInv, WriteFile
  PROVE  IInv'
<1>1. /\ cmd \in Command /\ cmd' = [cmd EXCEPT !.pc = "register"] /\ ~cmd.mem[cmd.lib].known
      /\ Whole(cmd.mem)
  BY Basics DEF WriteFile, Refused, IInv, CommandFits
<1>2. cmd' \in Command /\ cmd'.mem = cmd.mem /\ cmd'.lib = cmd.lib
  BY <1>1 DEF Command
<1>3. CommandFits'
  BY <1>1, <1>2 DEF CommandFits
<1>4. libraryFile' \in [Library -> BOOLEAN]
  BY Basics DEF WriteFile
<1> QED
  BY <1>2, <1>3, <1>4, Basics, CommandKeeps, TroubleTyped DEF WriteFile, IInv

\* ... and then the entry, into the index it loaded.
LEMMA CreateEntryKeeps ==
  ASSUME ConstantsFit, IInv, CreateEntry
  PROVE  IInv'
<1> DEFINE e == [Absent EXCEPT !.known = TRUE, !.primary = Known(cmd.mem) = {}]
           new == [cmd.mem EXCEPT ![cmd.lib] = e]
<1>1. /\ cmd.mem \in Index /\ Whole(cmd.mem) /\ cmd.lib \in Library /\ ~cmd.mem[cmd.lib].known
  BY Basics DEF IInv, CommandFits, Command, CreateEntry
<1>2. e \in Entry /\ e.known /\ (e.primary <=> Known(cmd.mem) = {}) /\ e.cursor \in {None, e.link}
  BY Basics DEF Absent, Entry
<1>3. index' = new /\ cmd' = NoCommand /\ trouble' = trouble
  BY DEF CreateEntry
<1> HIDE DEF e
<1>4. new \in Index /\ Whole(new)
  BY <1>1, <1>2, Added
<1> HIDE DEF new
<1> QED
  BY <1>3, <1>4, Basics, CommandEnds DEF CreateEntry

\* Of an index without a library the rest is whole, whoever takes over.
LEMMA DeletedFits ==
  ASSUME ConstantsFit, NEW mem \in Index, Whole(mem), NEW l \in Library, mem[l].known,
         NEW new \in Deleted(mem, l)
  PROVE  new \in Index /\ Whole(new)
<1>1. Absent \in Entry /\ ~Absent.known /\ ~Absent.primary /\ Absent.cursor = None
  BY AbsentFits DEF Absent
<1>2. PICK p \in Library : {k \in Library : mem[k].primary} = {p}
  BY DEF Whole, OnePrimary, Known
<1>3. /\ \A k \in Library : mem[k].primary <=> k = p
      /\ mem[p].known /\ CursorsFit(mem)
  BY <1>2 DEF Whole, OnePrimary
<1> DEFINE less == [mem EXCEPT ![l] = Absent]
<1>4. less \in Index /\ \A k \in Library : less[k] = IF k = l THEN Absent ELSE mem[k]
  BY <1>1 DEF Index
<1>5. CursorsFit(less)
  BY <1>1, <1>3, <1>4 DEF CursorsFit
<1> HIDE DEF less, Absent
<1>6. CASE Promoted(mem, l) = {}
  <2>1. new = less
    BY <1>6 DEF Deleted, less
  <2>2. CASE p # l
    <3>1. less[p].known /\ \A k \in Library : less[k].primary <=> k = p
      BY <1>1, <1>3, <1>4, <2>2
    <3> QED
      BY <1>4, <1>5, <2>1, <3>1, Elected
  <2>3. CASE p = l
    <3>1. Known(mem) \ {l} = {}
      BY <1>3, <1>6, <2>3 DEF Promoted
    <3>2. \A k \in Library : ~less[k].known /\ ~less[k].primary
      BY <1>1, <1>3, <1>4, <2>3, <3>1 DEF Known
    <3>3. Known(less) = {}
      BY <3>2 DEF Known
    <3> QED
      BY <1>4, <1>5, <2>1, <3>2, <3>3 DEF Whole, OnePrimary
  <2> QED
    BY <2>2, <2>3
<1>7. ASSUME NEW k \in Promoted(mem, l), new = [mem EXCEPT ![l] = Absent, ![k].primary = TRUE]
      PROVE  new \in Index /\ Whole(new)
  <2>1. p = l /\ k \in Library /\ k # l /\ mem[k].known
    BY <1>3 DEF Promoted, Known
  <2> DEFINE e == [mem[k] EXCEPT !.primary = TRUE]
  <2>2. mem[k] \in Entry
    BY <2>1 DEF Index
  <2>3. /\ e \in Entry /\ e.known = mem[k].known /\ e.primary /\ e.cursor = mem[k].cursor
        /\ e.link = mem[k].link
    BY <2>2 DEF Entry
  <2>4. new = [less EXCEPT ![k] = e]
    BY <1>4, <1>7, <2>1 DEF less, Index
  <2> HIDE DEF e
  <2>5. new \in Index /\ \A j \in Library : new[j] = IF j = k THEN e ELSE less[j]
    BY <1>4, <2>1, <2>3, <2>4 DEF Index
  <2>6. CursorsFit(new)
    BY <1>3, <1>5, <2>1, <2>3, <2>5 DEF CursorsFit
  <2>7. new[k].known /\ \A j \in Library : new[j].primary <=> j = k
    BY <1>1, <1>3, <1>4, <2>1, <2>3, <2>5
  <2> QED
    BY <2>1, <2>5, <2>6, <2>7, Elected
<1> QED
  BY <1>6, <1>7 DEF Deleted

\* A deletion saves the index without the entry.
LEMMA DeleteEntryKeeps ==
  ASSUME ConstantsFit, IInv, DeleteEntry
  PROVE  IInv'
<1>1. /\ cmd \in Command /\ cmd' = [cmd EXCEPT !.pc = "unlink"] /\ cmd.mem[cmd.lib].known
      /\ Whole(cmd.mem) /\ cmd.mem \in Index /\ cmd.lib \in Library
  BY Basics DEF DeleteEntry, Refused, IInv, CommandFits, Command
<1>2. index' \in Index /\ Whole(index')
  BY <1>1, DeletedFits DEF DeleteEntry
<1>3. cmd' \in Command /\ cmd'.mem = cmd.mem /\ cmd'.pc = "unlink"
  BY <1>1 DEF Command
<1>4. CommandFits'
  BY <1>1, <1>3 DEF CommandFits
<1> QED
  BY <1>2, <1>3, <1>4, Basics, CommandKeeps, TroubleTyped DEF DeleteEntry

\* ... then removes the file, or saves back what it loaded.
LEMMA DeleteFileKeeps ==
  ASSUME ConstantsFit, IInv, DeleteFile
  PROVE  IInv'
<1>1. cmd.mem \in Index /\ Whole(cmd.mem) /\ cmd.lib \in Library /\ index \in Index /\ Whole(index)
  BY Basics DEF IInv, CommandFits, Command
<1>2. index' \in Index /\ Whole(index')
  BY <1>1 DEF DeleteFile
<1>3. libraryFile' \in [Library -> BOOLEAN]
  BY Basics DEF DeleteFile
<1> QED
  BY <1>2, <1>3, CommandEnds, TroubleTyped DEF DeleteFile

\* Another library is made primary.
LEMMA SetPrimaryKeeps ==
  ASSUME ConstantsFit, IInv, SetPrimary
  PROVE  IInv'
<1> DEFINE new == [l \in Library |-> [cmd.mem[l] EXCEPT !.primary = l = cmd.lib]]
<1>1. /\ cmd.mem \in Index /\ Whole(cmd.mem) /\ cmd.lib \in Library /\ cmd.mem[cmd.lib].known
      /\ index' = new
  BY Basics DEF IInv, CommandFits, Command, SetPrimary, Refused
<1>2. \A l \in Library : /\ cmd.mem[l] \in Entry
                         /\ cmd.mem[l].cursor \in {None, cmd.mem[l].link}
  BY <1>1 DEF Index, Whole, CursorsFit
<1>3. \A l \in Library : /\ new[l] \in Entry /\ new[l].known = cmd.mem[l].known
                         /\ new[l].primary <=> l = cmd.lib
                         /\ new[l].cursor = cmd.mem[l].cursor /\ new[l].link = cmd.mem[l].link
  BY <1>2 DEF Entry
<1>4. new \in Index
  BY <1>3 DEF Index
<1> HIDE DEF new
<1>5. CursorsFit(new)
  BY <1>2, <1>3 DEF CursorsFit
<1>6. Whole(new)
  BY <1>1, <1>3, <1>4, <1>5, Elected
<1> QED
  BY <1>1, <1>4, <1>6, Basics, CommandEnds, TroubleTyped DEF SetPrimary

\* The device starts with at most two libraries, linked or not.
LEMMA InitFits ==
  ASSUME ConstantsFit, LinksInit
  PROVE  IInv
<1>1. PICK second \in SUBSET (Library \ {Default}) :
        /\ Cardinality(second) <= 1
        /\ remote = [r \in 1..(1 + Cardinality(second)) |->
                       [name |-> IF r = 1 THEN Default ELSE CHOOSE l \in second : TRUE,
                        account |-> 1, live |-> TRUE]]
  BY DEF LinksInit
<1> DEFINE other == CHOOSE l \in second : TRUE
           n == 1 + Cardinality(second)
<1>2. IsFiniteSet(second) /\ Cardinality(second) \in Nat
  BY FS_Subset, FS_CardinalityType DEF ConstantsFit
<1>3. n = 1 \/ (n = 2 /\ other \in second)
  <2>1. Cardinality(second) = 0 \/ Cardinality(second) = 1
    BY <1>1, <1>2
  <2>2. Cardinality(second) = 1 => other \in second
    <3>1. Cardinality(second) = 1 => second # {}
      BY FS_EmptySet
    <3> QED
      BY <3>1
  <2> HIDE DEF other
  <2> QED
    BY <2>1, <2>2
<1>4. /\ DOMAIN remote = 1..n /\ n \in Nat
      /\ \A r \in 1..n : remote[r] = [name |-> IF r = 1 THEN Default ELSE other,
                                      account |-> 1, live |-> TRUE]
  BY <1>1, <1>2
<1> HIDE DEF other, n
<1>5. /\ \A r \in 1..n : remote[r] \in Remote /\ remote[r].account = 1
      /\ \A r, s \in 1..n : remote[r].name = remote[s].name => r = s
      /\ 1 \in 1..n /\ remote[1].name = Default
  <2>1. n = 2 => other \in Library /\ other # Default
    BY <1>3
  <2>2. n = 1 \/ n = 2
    BY <1>3
  <2>3. Default \in Library /\ 1 \in 1..MaxAccounts
    BY DEF ConstantsFit
  <2>4. ASSUME NEW r \in 1..n
        PROVE  remote[r] \in Remote /\ remote[r].account = 1
               /\ remote[r].name = IF r = 1 THEN Default ELSE other
    <3>1. r = 1 \/ r = 2
      BY <2>2
    <3>2. remote[r] = [name |-> IF r = 1 THEN Default ELSE other, account |-> 1, live |-> TRUE]
      BY <1>4
    <3>3. (IF r = 1 THEN Default ELSE other) \in Library
      BY <2>1, <2>2, <2>3
    <3> QED
      BY <2>3, <3>2, <3>3 DEF Remote
  <2>5. \A r \in 1..n : r = 1 \/ (r = 2 /\ n = 2)
    BY <2>2
  <2>6. 1 \in 1..n
    BY <2>2
  <2> QED
    BY <2>1, <2>4, <2>5, <2>6
<1>6. remote \in Seq(Remote)
  <2>1. remote = [r \in 1..n |-> remote[r]]
    BY <1>1, <1>4 DEF n, other
  <2> QED
    BY <1>4, <1>5, <2>1
<1>7. account = 1 /\ account \in 1..MaxAccounts /\ Served(remote, account)
  <2>1. account = 1
    BY DEF LinksInit
  <2>2. 1 \in 1..MaxAccounts
    BY DEF ConstantsFit
  <2> QED
    BY <1>4, <1>5, <2>1, <2>2 DEF Served
<1>8. DOMAIN remote \subseteq Id
  <2>1. Served(remote, MaxAccounts)
    BY <1>4, <1>5, <1>7 DEF Served, ConstantsFit
  <2> QED
    BY <1>6, <2>1, IdsSuffice
<1>9. PICK linked \in BOOLEAN :
        index = [l \in Library |->
                   IF \A r \in DOMAIN remote : remote[r].name # l THEN Absent
                   ELSE LET id == IF ~linked THEN None
                                  ELSE CHOOSE r \in DOMAIN remote : remote[r].name = l
                        IN [known |-> TRUE, primary |-> l = Default,
                            link |-> id, cursor |-> id]]
  BY DEF LinksInit
<1>10. ASSUME NEW l \in Library
       PROVE  /\ index[l] \in Entry /\ index[l].cursor \in {None, index[l].link}
              /\ index[l].primary => l = Default
              /\ l = Default => index[l].known /\ index[l].primary
  <2> DEFINE id == IF ~linked THEN None ELSE CHOOSE r \in DOMAIN remote : remote[r].name = l
  <2>1. CASE \A r \in DOMAIN remote : remote[r].name # l
    <3>1. index[l] = Absent /\ l # Default
      BY <1>4, <1>5, <1>9, <2>1
    <3> QED
      BY <3>1, AbsentFits DEF Absent
  <2>2. CASE ~\A r \in DOMAIN remote : remote[r].name # l
    <3>1. index[l] = [known |-> TRUE, primary |-> l = Default, link |-> id, cursor |-> id]
      BY <1>9, <2>2
    <3>2. id \in Id
      <4>1. None \in Id
        BY FS_CardinalityType DEF ConstantsFit, None, Id
      <4> QED
        BY <1>8, <2>2, <4>1
    <3> HIDE DEF id
    <3>3. /\ index[l].known = TRUE /\ index[l].primary = (l = Default)
          /\ index[l].link = id /\ index[l].cursor = id
      BY <3>1
    <3>4. index[l] \in Entry
      BY <3>1, <3>2 DEF Entry
    <3> QED
      BY <3>3, <3>4
  <2> QED
    BY <2>1, <2>2
<1>11. index \in Index
  BY <1>9, <1>10 DEF Index
<1>12. Whole(index)
  <2>1. CursorsFit(index)
    BY <1>10 DEF CursorsFit
  <2>2. \A l \in Library : index[l].primary <=> l = Default
    BY <1>10
  <2> QED
    BY <1>10, <1>11, <2>1, <2>2, Elected DEF ConstantsFit
<1>13. \A l \in Library : index[l].known \in BOOLEAN
  BY <1>10 DEF Entry
<1>14. /\ libraryFile \in [Library -> BOOLEAN] /\ marker \in [Library -> Marker]
       /\ run = Idle /\ cmd = NoCommand /\ accepted = {} /\ trouble = 0
  <2>1. NoMarker \in Marker
    BY FS_CardinalityType DEF NoMarker, Marker, Phase, ConstantsFit, None, Id
  <2> QED
    BY <1>13, <2>1 DEF LinksInit
<1>15. Idle \in Progress /\ NoCommand \in Command
  BY AbsentFits
<1>16. LinksTypeOK
  BY <1>6, <1>7, <1>11, <1>14, <1>15 DEF LinksTypeOK, Progress, Command, ConstantsFit
<1>17. Idle.pc = "idle" /\ Idle.key = 1 /\ Idle.import = {} /\ Idle.mem = [l \in Library |-> Absent]
       /\ NoCommand.pc = "idle" /\ NoCommand.mem = [l \in Library |-> Absent]
  BY DEF Idle, NoCommand
<1>18. Linking(run) /\ Marking(run, marker, accepted) /\ CommandFits /\ Whole(run.mem)
  BY <1>14, <1>17, AbsentFits DEF Linking, Marking, CommandFits
<1> QED
  BY <1>7, <1>12, <1>14, <1>16, <1>17, <1>18 DEF IInv

\* The inductive invariant holds: typed ids, whole indexes in every copy, and markers that
\* name the library a recovery goes on with.
THEOREM Invariance == LinksSpec => []IInv
<1> USE LinksAssumption
<1>1. LinksInit => IInv
  BY InitFits
<1>2. IInv /\ [LinksNext]_linksVars => IInv'
  <2> SUFFICES ASSUME IInv, [LinksNext]_linksVars PROVE IInv'
    OBVIOUS
  <2>1. CASE UNCHANGED linksVars
    BY <2>1 DEF linksVars, server, disk, IInv, LinksTypeOK, CommandFits
  <2>2. CASE RunStep
    <3>1. ASSUME NEW l \in Library, Preflight(l) \/ Resume(l) \/ SyncLibrary(l) PROVE IInv'
      BY <3>1, PreflightKeeps, ResumeKeeps, SyncLibraryKeeps
    <3>2. ASSUME NEW r \in run.import, Import(r) PROVE IInv'
      BY <3>2, ImportKeeps
    <3> QED
      BY <2>2, <3>1, <3>2, BeginKeeps, CreateRemoteKeeps, FindKeeps, LinkKeeps, ScanKeeps,
         MergeKeeps, FinishKeeps, OpenKeeps, LocateKeeps, RecordRemoteKeeps, RelinkKeeps,
         RecordLinkKeeps, RetryKeeps, ResetCursorsKeeps, UnmarkKeeps DEF RunStep
  <2>3. CASE Start \/ CallFails \/ SyncFails \/ CrashRun
    BY <2>3, StartKeeps, FailureKeeps, CrashRunKeeps
  <2>4. CASE CrashCommand \/ Refuse \/ WriteFile \/ CreateEntry \/ DeleteEntry \/ DeleteFile \/ SetPrimary
    BY <2>4, RefuseKeeps, WriteFileKeeps, CreateEntryKeeps, DeleteEntryKeeps, DeleteFileKeeps,
       SetPrimaryKeeps
  <2>5. ASSUME NEW l \in Library, OtherCreates(l) \/ \E op \in Op : Load(op, l) PROVE IInv'
    BY <2>5, OtherCreatesKeeps, LoadKeeps
  <2>6. ASSUME NEW r \in DOMAIN remote, OtherDeletes(r) PROVE IInv'
    BY <2>6, OtherDeletesKeeps
  <2> QED
    BY <2>1, <2>2, <2>3, <2>4, <2>5, <2>6, RegisterKeeps DEF LinksNext
<1> QED
  BY <1>1, <1>2, PTL DEF LinksSpec

\* Every variable keeps to its type; above all, the ids of libraries stay within as many
\* as there are names and accounts, as UNIQUE(user_id, name) has it.
THEOREM TypeCorrect == LinksSpec => []LinksTypeOK
<1>1. IInv => LinksTypeOK
  BY DEF IInv
<1> QED
  BY <1>1, Invariance, PTL

\* manager.rs, sync_commands.rs: a cursor is used for the library it was learned from, and
\* an index with libraries has one primary, whoever saved it last and from whatever copy.
THEOREM IndexStaysSound == LinksSpec => []IndexSound
<1>1. IInv => IndexSound
  <2> SUFFICES ASSUME IInv PROVE IndexSound
    OBVIOUS
  <2>1. \A l \in Library : /\ index[l].cursor \in {None, index[l].link}
                           /\ run.mem[l].cursor \in {None, run.mem[l].link}
    BY DEF IInv, Whole, CursorsFit
  <2>2. ASSUME Known(index) # {} PROVE Cardinality({l \in Library : index[l].primary}) = 1
    <3>1. PICK p \in Library : {l \in Library : index[l].primary} = {p}
      BY <2>2 DEF IInv, Whole, OnePrimary
    <3>2. Cardinality({p}) = 1
      BY FS_Singleton
    <3> QED
      BY <3>1, <3>2
  <2> QED
    BY <2>1, <2>2 DEF IndexSound
<1> QED
  BY <1>1, Invariance, PTL

\* sync_commands.rs: a recovery marker goes only after the library that took the place of
\* the lost one has taken every local row.
THEOREM MarkersOutlast == LinksSpec => MarkersOutlastRecovery
<1> DEFINE Step == \A l \in Library : marker[l].phase # "none" /\ marker'[l].phase = "none"
                                        => marker[l].server \in accepted
<1> USE LinksAssumption
<1> SUFFICES LinksSpec => [][Step]_linksVars
  BY DEF MarkersOutlastRecovery
<1>1. IInv /\ [LinksNext]_linksVars => [Step]_linksVars
  <2> SUFFICES ASSUME IInv, LinksNext, NEW l \in Library, marker[l].phase # "none", marker'[l].phase = "none"
               PROVE  marker[l].server \in accepted
    OBVIOUS
  <2>1. marker \in [Library -> Marker] /\ run.lib \in Library
    BY Basics, EntryInHand
  <2>2. CASE Unmark
    <3>1. l = run.lib
      BY <2>1, <2>2 DEF Unmark
    <3> QED
      BY <2>2, <3>1 DEF Unmark, IInv, Marking
  <2>3. CASE RecordRemote
    BY <2>1, <2>3 DEF RecordRemote, Marker
  <2>4. CASE RecordLink
    BY <2>1, <2>4 DEF RecordLink, Marker
  <2>5. CASE Open
    <3>1. ASSUME NEW m \in Marker, m.phase # "none", NEW link,
                 marker' = [marker EXCEPT ![run.lib] = [m EXCEPT !.local = link]]
          PROVE  FALSE
      BY <2>1, <3>1 DEF Marker
    <3> DEFINE link == run.mem[run.lib].link
               m == IF marker[run.lib].phase = "none"
                    THEN [phase |-> "creating", local |-> link, server |-> None] ELSE marker[run.lib]
    <3>2. m \in Marker /\ m.phase # "none"
      BY <2>1, EntryInHand DEF Marker, Phase
    <3>3. UNCHANGED marker \/ marker' = [marker EXCEPT ![run.lib] = [m EXCEPT !.local = link]]
      BY <2>5 DEF Open
    <3> HIDE DEF m, link
    <3> QED
      BY <3>1, <3>2, <3>3
  <2>6. CASE UNCHANGED marker
    BY <2>6
  <2>7. Unmark \/ RecordRemote \/ RecordLink \/ Open \/ UNCHANGED marker
    <3>1. CASE RunStep
      BY <3>1 DEF RunStep, Begin, CreateRemote, Find, Link, ScanMarkers, EndScan, Merge, Finish, Locate,
         Relink, Retry, ResetCursors, Preflight, Resume, SyncLibrary, Import, disk
    <3>2. CASE ~RunStep
      BY <3>2 DEF LinksNext, Start, CallFails, SyncFails, CrashRun, CrashCommand, Refuse, WriteFile,
         CreateEntry, DeleteEntry, DeleteFile, SetPrimary, Register, OtherCreates, Load, OtherDeletes, disk
    <3> QED
      BY <3>1, <3>2
  <2> QED
    BY <2>2, <2>3, <2>4, <2>5, <2>6, <2>7
<1> QED
  BY <1>1, Invariance, PTL DEF LinksSpec
=============================================================================
