--------------------------- MODULE Registrations ---------------------------
(***************************************************************************)
(* `snip-sync startup install` and `uninstall`: the unit of the system's   *)
(* manager (systemd; launchd is alike), the block in the user's crontab,   *)
(* and the record of the method, written one after the other, any of which *)
(* may fail or be the last before the command dies.  Meanwhile the user    *)
(* edits the crontab.                                                      *)
(***************************************************************************)
EXTENDS Naturals, Sequences, SequencesExt

CONSTANTS MaxCommands, MaxEdits

VARIABLES host,      \* what the host has: systemd running, crontab, root, a policy that allows
          crontab,   \* its lines
          unit,      \* the file of the unit
          recorded,  \* startup-method
          install,   \* the command that runs
          lines,     \* the lines the user has written
          apart,     \* no edit fell between a read and a write, and none hit a marker
          commands, edits
registrationVars == <<host, crontab, unit, recorded, install, lines, apart, commands, edits>>

Method == {"systemd", "cron"}
Line == {"begin", "entry", "end", "", "mine", "other"}
Block == <<"begin", "entry", "end">>
Idle == [at |-> "idle", op |-> "none", method |-> "none", read |-> <<>>, ok |-> FALSE]

TypeOK ==
    /\ host \in [systemd: BOOLEAN, crontab: BOOLEAN, root: BOOLEAN, allowed: BOOLEAN]
    /\ {crontab, install.read} \subseteq Seq(Line) /\ lines \in Seq({"mine", "other"})
    /\ unit \in {"none", "owned", "foreign"} /\ recorded \in {"none"} \cup Method
    /\ install.at \in {"idle", "unit", "enable", "read", "write", "record"}
    /\ install.op \in {"none", "install", "uninstall"}
    /\ install.method \in {"none"} \cup Method /\ install.ok \in BOOLEAN
    /\ apart \in BOOLEAN /\ commands \in 0..MaxCommands /\ edits \in 0..MaxEdits

Init ==
    /\ host \in [systemd: BOOLEAN, crontab: BOOLEAN, root: BOOLEAN, allowed: BOOLEAN]
    /\ crontab \in {<<>>, <<"mine">>, <<"mine", "", "">>} /\ lines = SelectSeq(crontab, LAMBDA l : l # "")
    /\ unit \in {"none", "foreign"} /\ recorded = "none"
    /\ install = Idle /\ apart = TRUE /\ commands = 0 /\ edits = 0
---------------------------------------------------------------------------
(* The block in the crontab *)

Begin(s) == SelectInSeq(s, LAMBDA l : l = "begin")
End(s) == SelectInSubSeq(s, Begin(s) + 1, Len(s), LAMBDA l : l = "end")
\* Mutant: all is cut from the first marker on.
CutToTheEnd(s) == IF Begin(s) = 0 \/ End(s) = 0 THEN s ELSE SubSeq(s, 1, Begin(s) - 1)
Cut(s) == IF Begin(s) = 0 \/ End(s) = 0 THEN s
          ELSE SubSeq(s, 1, Begin(s) - 1) \o SubSeq(s, End(s) + 1, Len(s))
Trimmed(s) == SubSeq(s, 1, SelectLastInSeq(s, LAMBDA l : l # ""))
Replaced(s) == LET kept == Trimmed(Cut(s))
               IN IF kept = <<>> THEN Block ELSE kept \o <<"">> \o Block
---------------------------------------------------------------------------
(* Installation *)

Finish(ok) == install' = [Idle EXCEPT !.op = install.op, !.ok = ok]
Go(at) == install' = [install EXCEPT !.at = at]

\* The method asked for, or the one that is detected.
Resolved(asked) == IF asked # "auto" THEN {asked}
                   ELSE IF host.systemd THEN {"systemd"}
                   ELSE IF host.crontab THEN {"cron"} ELSE {}

Install(asked) ==
    /\ install.at = "idle" /\ commands < MaxCommands
    /\ commands' = commands + 1
    /\ \/ \E method \in Resolved(asked) :
            /\ method = "systemd" => host.root
            /\ method = "cron" => host.crontab
            /\ host.allowed
            /\ install' = [Idle EXCEPT !.at = IF method = "systemd" THEN "unit" ELSE "read",
                                       !.op = "install", !.method = method]
       \/ install' = [Idle EXCEPT !.op = "install"]
    /\ UNCHANGED <<host, crontab, unit, recorded, lines, apart, edits>>

\* write_owned: whatever is there.
WriteUnit ==
    /\ install.op = "install" /\ install.at = "unit"
    /\ unit' = "owned" /\ Go("enable")
    /\ UNCHANGED <<host, crontab, recorded, lines, apart, commands, edits>>

\* daemon-reload, enable, restart, wait_for_health: each may fail.
Enable ==
    /\ install.at = "enable"
    /\ Go("record") \/ Finish(FALSE)
    /\ UNCHANGED <<host, crontab, unit, recorded, lines, apart, commands, edits>>

ReadCrontab ==
    /\ install.at = "read"
    /\ \/ install' = [install EXCEPT !.at = "write", !.read = crontab]
       \/ Finish(FALSE)
    /\ UNCHANGED <<host, crontab, unit, recorded, lines, apart, commands, edits>>

WriteCrontab ==
    /\ install.at = "write"
    /\ \/ /\ crontab' = IF install.op = "install" THEN Replaced(install.read) ELSE Cut(install.read)
          /\ Go("record")
       \/ Finish(FALSE) /\ UNCHANGED crontab
    /\ UNCHANGED <<host, unit, recorded, lines, apart, commands, edits>>

Record ==
    /\ install.at = "record" /\ install.op = "install"
    /\ \/ recorded' = install.method /\ Finish(TRUE)
       \/ Finish(FALSE) /\ UNCHANGED recorded
    /\ UNCHANGED <<host, crontab, unit, lines, apart, commands, edits>>
---------------------------------------------------------------------------
(* Removal *)

Uninstall ==
    /\ install.at = "idle" /\ commands < MaxCommands
    /\ commands' = commands + 1
    /\ install' = [Idle EXCEPT !.at = "unit", !.op = "uninstall"]
    /\ UNCHANGED <<host, crontab, unit, recorded, lines, apart, edits>>

\* Only a file with the marker is removed, and that takes root.
RemoveUnit ==
    /\ install.op = "uninstall" /\ install.at = "unit"
    /\ \/ unit = "owned" /\ ~host.root /\ Finish(FALSE) /\ UNCHANGED unit
       \/ /\ unit = "owned" => host.root
          /\ unit' = IF unit = "owned" THEN "none" ELSE unit
          /\ Go(IF host.crontab THEN "read" ELSE "record")
    /\ UNCHANGED <<host, crontab, recorded, lines, apart, commands, edits>>

Forget ==
    /\ install.at = "record" /\ install.op = "uninstall"
    /\ recorded' = "none" /\ Finish(TRUE)
    /\ UNCHANGED <<host, crontab, unit, lines, apart, commands, edits>>
---------------------------------------------------------------------------
(* The world *)

Die == /\ install.at # "idle" /\ Finish(FALSE)
       /\ UNCHANGED <<host, crontab, unit, recorded, lines, apart, commands, edits>>

\* The user, or another program, saves the crontab with one more line.
AddLine == /\ edits < MaxEdits /\ edits' = edits + 1
           /\ crontab' = Append(crontab, "other") /\ lines' = Append(lines, "other")
           /\ apart' = (apart /\ install.at # "write")
           /\ UNCHANGED <<host, unit, recorded, install, commands>>

\* The user removes a marker by hand.
DropMarker == /\ edits < MaxEdits /\ edits' = edits + 1
              /\ \E i \in DOMAIN crontab : /\ crontab[i] \in {"begin", "end"}
                                           /\ crontab' = RemoveAt(crontab, i)
              /\ apart' = FALSE
              /\ UNCHANGED <<host, unit, recorded, install, lines, commands>>

\* The next command may come from root, or from a user who is not.
Sudo == /\ install.at = "idle" /\ commands < MaxCommands
        /\ host' = [host EXCEPT !.root = ~@]
        /\ UNCHANGED <<crontab, unit, recorded, install, lines, apart, commands, edits>>

Next ==
    \/ \E asked \in Method \cup {"auto"} : Install(asked)
    \/ WriteUnit \/ Enable \/ ReadCrontab \/ WriteCrontab \/ Record
    \/ Uninstall \/ RemoveUnit \/ Forget \/ Die \/ AddLine \/ DropMarker \/ Sudo

Spec == Init /\ [][Next]_registrationVars
---------------------------------------------------------------------------
(* What the commands leave *)

Mine(s) == SelectSeq(s, LAMBDA l : l \in {"mine", "other"})

\* However many commands ran, failed or died half-way, what the user wrote in
\* the crontab is there, once and in its order; one block is there at most; and
\* a removal that succeeded left nothing that starts the server.
RegistrationsClean ==
    apart => /\ Mine(crontab) = lines
             /\ Cut(Cut(crontab)) = Cut(crontab)
             /\ install.op = "uninstall" /\ install.ok =>
                   recorded = "none" /\ unit # "owned" /\ (host.crontab => Begin(crontab) = 0)

\* startup.rs:3, "owns only the records it writes".  The code breaks this: an
\* installation writes over a unit that has not its marker.
ForeignUnitKept == [][unit = "foreign" => unit' = "foreign"]_registrationVars

\* The user's lines survive a crontab whose end marker the user removed.  The
\* code breaks this: the next block's end closes the old block.
LinesOutsideKept == lines # <<>> => \E i \in DOMAIN crontab : crontab[i] \in {"mine", "other"}

\* One manager starts the server.  The code breaks this: an installation does
\* not remove what another method registered.
OneManager == ~(unit = "owned" /\ Begin(crontab) > 0)
=============================================================================
