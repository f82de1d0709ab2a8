----------------------------- MODULE Installer -----------------------------
(***************************************************************************)
(* install/install.sh: install and uninstall read the harness's            *)
(* settings.json, change its hooks and write it back, after a backup named *)
(* by the second; the hooks hold the absolute path of the clone they were  *)
(* installed from.                                                         *)
(*                                                                         *)
(* The user, who edits the settings, restores a backup and moves a clone,  *)
(* and the harness, which runs the hooks before every tool call, are the   *)
(* environment. The three hooks of a clone come and go together: one here. *)
(***************************************************************************)
EXTENDS Integers

CONSTANTS
  Process,     \* the processes that run install.sh, and the harness's tool calls
  Root,        \* the paths a clone can be at
  NoRoot,      \* none of them
  Mentions,    \* for each path, those whose hooks its text occurs in: a prefix counts
  MaxEdits,    \* bound: versions of the settings the user writes
  MaxSeconds,  \* bound: seconds
  MaxKills     \* bound: processes that die

ASSUME RootAssumption ==
  /\ NoRoot \notin Root
  /\ Mentions \in [Root -> SUBSET Root] /\ \A r \in Root : r \in Mentions[r]
ASSUME BoundAssumption == MaxEdits \in Nat /\ MaxSeconds \in Nat \ {0} /\ MaxKills \in Nat

VARIABLES
  settings,   \* settings.json
  backup,     \* the user's version in settings.json.bak_<second>
  second,     \* the time
  present,    \* the paths there is a clone at
  job,        \* what each process is doing, and what it holds
  edits,      \* number of versions the user has written
  installed,  \* the clones whose hooks ought to be in the settings
  slips,      \* what the backups of the latest version do not stand up to:
              \*   "edit"   it was written between a command's look for the file and
              \*            its making it, or between its backup and its write
              \*   "second" two backups in one second
  kills       \* number of processes that have died

vars == <<settings, backup, second, present, job, edits, installed, slips, kills>>

\* rest is the user's version of all that is not a hook of ours; 0 is no longer
\* what the user wrote, for a hook of the user's in one entry with ours (mixed)
\* goes when ours does.
Broken == [state |-> "broken", hooks |-> [r \in Root |-> 0], rest |-> 0, mixed |-> NoRoot]
Absent == [Broken EXCEPT !.state = "absent"]
Empty == [Broken EXCEPT !.state = "whole"]

NoBackup == -1

Idle == [at |-> "idle", root |-> NoRoot, install |-> FALSE, holds |-> Absent]

Init ==
  /\ settings = Absent
  /\ backup = [t \in 1..MaxSeconds |-> NoBackup]
  /\ second = 1
  /\ present \in {{r} : r \in Root} \cup {Root}
  /\ job = [p \in Process |-> Idle]
  /\ edits = 0
  /\ installed = {}
  /\ slips = {}
  /\ kills = 0

At(p, l) == job[p].at = l
Goto(p, l) == job' = [job EXCEPT ![p].at = l]
End(p) == job' = [job EXCEPT ![p] = Idle]

world == <<second, present, edits>>

-----------------------------------------------------------------------------
(* The hooks.                                                              *)

\* Mutant: the hooks are added without a look.
Appended(d, r) == [d EXCEPT !.hooks[r] = IF @ < 2 THEN @ + 1 ELSE 2]

Installed(d, r) == [d EXCEPT !.hooks[r] = IF @ = 0 THEN 1 ELSE @]

\* Mutant: one entry is taken out, there or not.
UninstalledOne(d, r) == [d EXCEPT !.hooks[r] = @ - 1]

\* An entry goes when any command in it contains the path.
Uninstalled(d, r) ==
  [d EXCEPT !.hooks = [q \in Root |-> IF q \in Mentions[r] THEN 0 ELSE @[q]],
            !.mixed = IF @ \in Mentions[r] THEN NoRoot ELSE @,
            !.rest = IF d.mixed \in Mentions[r] THEN 0 ELSE @]

-----------------------------------------------------------------------------
(* install.sh                                                              *)

\* A clone runs it; install looks for the settings and makes them when there are
\* none, and without them uninstall ends at its backup.
Begin(p, r, install) ==
  /\ At(p, "idle") /\ r \in present
  /\ settings # Absent \/ install
  /\ job' = [job EXCEPT ![p] = [at |-> IF settings = Absent THEN "create" ELSE "backup",
                               root |-> r, install |-> install, holds |-> Absent]]
  /\ UNCHANGED <<settings, backup, installed, slips, world, kills>>

\* Over what is there by now.
Create(p) ==
  /\ At(p, "create")
  /\ settings' = Broken
  /\ Goto(p, "fill")
  /\ UNCHANGED <<backup, installed, slips, world, kills>>

\* Text d written over what another has written since the file was cut: a tail of
\* that may stay.
Over(d) == {d} \cup (IF settings = Broken THEN {} ELSE {Broken})

\* '{}', which covers nothing longer.
Fill(p) ==
  /\ At(p, "fill")
  /\ settings' \in IF settings \in {Broken, Empty} THEN Over(Empty) ELSE {Broken}
  /\ Goto(p, "backup")
  /\ UNCHANGED <<backup, installed, slips, world, kills>>

\* Mutant: no backup.
BackupNot(p) ==
  /\ At(p, "backup")
  /\ Goto(p, "read")
  /\ UNCHANGED <<settings, backup, installed, slips, world, kills>>

Backup(p) ==
  /\ At(p, "backup")
  /\ slips' = IF backup[second] = NoBackup THEN slips ELSE slips \cup {"second"}
  /\ backup' = [backup EXCEPT ![second] = settings.rest]
  /\ Goto(p, "read")
  /\ UNCHANGED <<settings, installed, world, kills>>

\* What is no JSON raises, and so may an uninstall that finds no hooks.
Read(p) ==
  /\ At(p, "read")
  /\ \/ settings = Broken /\ End(p)
     \/ ~job[p].install /\ (\A r \in Root : settings.hooks[r] = 0) /\ End(p)
     \/ /\ settings # Broken
        /\ job' = [job EXCEPT ![p].at = "truncate", ![p].holds =
                     IF job[p].install THEN Installed(settings, job[p].root)
                     ELSE Uninstalled(settings, job[p].root)]
  /\ UNCHANGED <<settings, backup, installed, slips, world, kills>>

Truncate(p) ==
  /\ At(p, "truncate")
  /\ settings' = Broken
  /\ Goto(p, "write")
  /\ UNCHANGED <<backup, installed, slips, world, kills>>

Holding == {p \in Process : job[p].at \in {"truncate", "write"}}
Making == {p \in Process : job[p].at \in {"create", "fill"}}

\* Two commands that hold the settings at once undo each other, and so does one
\* that has found no settings.
Write(p) ==
  /\ At(p, "write")
  /\ settings' \in Over(job[p].holds)
  /\ installed' = IF Holding # {p} \/ Making # {} THEN {}
                  ELSE IF job[p].install THEN installed \cup {job[p].root}
                  ELSE installed \ Mentions[job[p].root]
  /\ End(p)
  /\ UNCHANGED <<backup, slips, world, kills>>

Dies(p) ==
  /\ job[p].root # NoRoot /\ kills < MaxKills
  /\ End(p)
  /\ kills' = kills + 1
  /\ UNCHANGED <<settings, backup, installed, slips, world>>

-----------------------------------------------------------------------------
(* The user.                                                               *)

\* A version of all that is not ours, which leaves out our hooks or some of them.
Edit ==
  /\ edits < MaxEdits /\ settings # Broken
  /\ edits' = edits + 1
  /\ \E left \in SUBSET {r \in Root : settings.hooks[r] > 0} :
       /\ \E m \in left \cup {NoRoot} :
            settings' = [state |-> "whole", rest |-> edits', mixed |-> m,
                         hooks |-> [r \in Root |-> IF r \in left THEN settings.hooks[r] ELSE 0]]
       /\ installed' = installed \cap left
  /\ slips' = IF \E p \in Process : job[p].at \in {"create", "fill", "read", "truncate", "write"}
              THEN slips \cup {"edit"} ELSE {}
  /\ UNCHANGED <<backup, second, present, job, kills>>

\* From a backup, with no command at work; what hooks were in it is left open.
Restore ==
  /\ settings = Broken /\ \A p \in Process : At(p, "idle")
  /\ \E t \in 1..MaxSeconds, hooks \in [Root -> 0..1] :
       /\ backup[t] # NoBackup
       /\ settings' = [Empty EXCEPT !.hooks = hooks, !.rest = backup[t]]
  /\ installed' = {}
  /\ UNCHANGED <<backup, job, slips, world, kills>>

Move ==
  /\ \E r \in present, q \in Root \ present : present' = (present \ {r}) \cup {q}
  /\ UNCHANGED <<settings, backup, second, job, edits, installed, slips, kills>>

Tick ==
  /\ second < MaxSeconds
  /\ second' = second + 1
  /\ UNCHANGED <<settings, backup, present, job, edits, installed, slips, kills>>

-----------------------------------------------------------------------------
(* The harness.                                                            *)

\* What --check and health.py's hook_targets_missing look for.
Missing == {r \in Root \ present : settings.hooks[r] > 0}

\* A gate that is there answers what it likes; python3 without its script exits
\* with 2, which is BLOCK.
Answers ==
  {"ran"} \cup (IF \E r \in present : settings.hooks[r] > 0 THEN {"refused"} ELSE {})

ToolCall(p) ==
  /\ At(p, "idle")
  /\ \E a \in IF Missing # {} THEN {"outage"} ELSE Answers : Goto(p, a)
  /\ UNCHANGED <<settings, backup, installed, slips, world, kills>>

ToolCallEnds(p) ==
  /\ job[p].at \in {"ran", "refused", "outage"}
  /\ End(p)
  /\ UNCHANGED <<settings, backup, installed, slips, world, kills>>

Next ==
  \/ \E p \in Process :
       \/ \E r \in Root, i \in BOOLEAN : Begin(p, r, i)
       \/ Create(p) \/ Fill(p) \/ Backup(p) \/ Read(p) \/ Truncate(p) \/ Write(p) \/ Dies(p)
       \/ ToolCall(p) \/ ToolCallEnds(p)
  \/ Edit \/ Restore \/ Move \/ Tick

Spec == Init /\ [][Next]_vars

-----------------------------------------------------------------------------

File == [state : {"absent", "broken", "whole"}, hooks : [Root -> 0..2],
         rest : 0..MaxEdits, mixed : Root \cup {NoRoot}]

\* Type invariant: the settings, the backups and the steps of a command.
TypeOK ==
  /\ settings \in File
  /\ backup \in [1..MaxSeconds -> NoBackup..MaxEdits]
  /\ second \in 1..MaxSeconds
  /\ present \subseteq Root
  /\ job \in [Process -> [at : {"idle", "create", "fill", "backup", "read", "truncate", "write",
                                "ran", "refused", "outage"},
                          root : Root \cup {NoRoot}, install : BOOLEAN, holds : File]]
  /\ edits \in 0..MaxEdits
  /\ installed \subseteq Root
  /\ slips \subseteq {"edit", "second"}
  /\ kills \in 0..MaxKills

\* install.sh:8 "backs up settings.json": the user's latest settings are in the file
\* or in a backup, whatever commands overlap, die, or remove an entry the user's
\* own hook shares, unless they were written between a command's look for the file
\* and its making it, or its backup and its write, or two backups since had one name.
SettingsKept ==
  edits > 0 /\ slips = {} =>
    settings.rest = edits \/ \E t \in 1..MaxSeconds : backup[t] = edits

\* install.sh:56 "if (matcher, cmd) not in have": a clone that was installed, while no
\* other command held the settings or was making them, and not taken out, by an
\* edit, by itself or by a clone whose path is the beginning of its own, runs its
\* gate once before every tool call, in whatever order installs, edits and moves
\* have come since.
InstalledOnce ==
  \A r \in installed : settings.state = "whole" => settings.hooks[r] = 1

-----------------------------------------------------------------------------

\* health.py:84 "A hook whose command file is gone exits 127, which the harness
\* treats as non-blocking: the gate is silently off": no tool call is refused by a
\* gate that is not there.
MissingGateIsOff == \A p \in Process : ~At(p, "outage")
=============================================================================
