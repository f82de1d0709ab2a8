-------------------------- MODULE InstallerProofs ---------------------------
(***************************************************************************)
(* Theorems about install.sh, for any number of commands, clones, edits    *)
(* and seconds, whatever the paths of the clones are prefixes of.          *)
(***************************************************************************)
EXTENDS Installer, TLAPS

-----------------------------------------------------------------------------
(* The settings, and what the commands make of them.                       *)

Work == {"create", "fill", "backup", "read", "truncate", "write"}
Step == Work \cup {"idle", "ran", "refused", "outage"}
Job == [at : Step, root : Root \cup {NoRoot}, install : BOOLEAN, holds : File]

\* A command at work is run by a clone.
Rooted == \A p \in Process : job[p].at \in Work => job[p].root \in Root

TypeInv == TypeOK /\ Rooted

\* The fields of the three files without hooks.
LEMMA Blank ==
  /\ Broken \in File /\ Absent \in File /\ Empty \in File /\ Idle \in Job
  /\ Broken.state = "broken" /\ Absent.state = "absent" /\ Empty.state = "whole"
  /\ Broken.rest = 0 /\ Absent.rest = 0 /\ Empty.rest = 0
  /\ \A r \in Root : Absent.hooks[r] = 0 /\ Empty.hooks[r] = 0
  /\ Idle.at = "idle"
  BY BoundAssumption DEF Broken, Absent, Empty, Idle, File, Job, Step

\* What is written over what others have written since.
LEMMA Overwritten ==
  ASSUME NEW d \in File
  PROVE  \A e \in Over(d) : e \in File /\ (e = d \/ e = Broken)
  BY Blank DEF Over

\* What an install makes of settings has one hook of its clone, and the others.
LEMMA InstalledHooks ==
  ASSUME NEW d \in File, NEW r \in Root
  PROVE  /\ Installed(d, r) \in File
         /\ Installed(d, r).state = d.state
         /\ \A q \in Root : Installed(d, r).hooks[q] =
              IF q = r /\ d.hooks[q] = 0 THEN 1 ELSE d.hooks[q]
  BY DEF Installed, File

\* What an uninstall makes of them has no hook whose text its path occurs in.
LEMMA UninstalledHooks ==
  ASSUME NEW d \in File, NEW r \in Root
  PROVE  /\ Uninstalled(d, r) \in File
         /\ Uninstalled(d, r).state = d.state
         /\ \A q \in Root : Uninstalled(d, r).hooks[q] =
              IF q \in Mentions[r] THEN 0 ELSE d.hooks[q]
  <1>1. Mentions[r] \subseteq Root
    BY RootAssumption
  <1> DEFINE h == [q \in Root |-> IF q \in Mentions[r] THEN 0 ELSE d.hooks[q]]
             m == IF d.mixed \in Mentions[r] THEN NoRoot ELSE d.mixed
             t == IF d.mixed \in Mentions[r] THEN 0 ELSE d.rest
  <1>2. h \in [Root -> 0..2] /\ m \in Root \cup {NoRoot} /\ t \in 0..MaxEdits
    BY BoundAssumption DEF File
  <1>3. Uninstalled(d, r) = [[[d EXCEPT !.hooks = h] EXCEPT !.mixed = m] EXCEPT !.rest = t]
    BY DEF Uninstalled, File
  <1>4. d.state \in {"absent", "broken", "whole"}
    BY DEF File
  <1> HIDE DEF h, m, t
  <1>5. /\ Uninstalled(d, r) \in File
        /\ Uninstalled(d, r).state = d.state /\ Uninstalled(d, r).hooks = h
    BY <1>2, <1>3, <1>4 DEF File
  <1> QED
    BY <1>5 DEF h

-----------------------------------------------------------------------------
(* Types.                                                                  *)

\* A process at another step is still one of a clone.
LEMMA MoveType ==
  ASSUME TypeInv, NEW p \in Process, NEW j \in Job, job' = [job EXCEPT ![p] = j],
         j.at \in Work => j.root \in Root
  PROVE  job' \in [Process -> Job] /\ Rooted'
  BY DEF TypeInv, TypeOK, Rooted, Job, Step, Work

\* A step forward keeps the clone and what is held.
LEMMA GotoMove ==
  ASSUME TypeInv, NEW p \in Process, NEW l \in Step, Goto(p, l)
  PROVE  /\ [job[p] EXCEPT !.at = l] \in Job
         /\ job' = [job EXCEPT ![p] = [job[p] EXCEPT !.at = l]]
  BY DEF TypeInv, TypeOK, Goto, Job, Step, Work

\* The types hold of the start.
LEMMA InstallerInit == Init => TypeInv
  <1> SUFFICES ASSUME Init PROVE TypeInv
    OBVIOUS
  <1>1. \A p \in Process : job[p] = Idle
    BY DEF Init
  <1>2. TypeOK
    BY Blank, BoundAssumption DEF Init, TypeOK, NoBackup, Job, Step, Work
  <1>3. Rooted
    BY <1>1, Blank DEF Rooted, Work
  <1> QED
    BY <1>2, <1>3 DEF TypeInv

\* Every step keeps them.
LEMMA InstallerStep == TypeInv /\ [Next]_vars => TypeInv'
  <1> SUFFICES ASSUME TypeInv, [Next]_vars PROVE TypeInv'
    OBVIOUS
  <1> DEFINE NoJob == /\ settings' \in File
                      /\ backup' \in [1..MaxSeconds -> NoBackup..MaxEdits]
                      /\ second' \in 1..MaxSeconds /\ present' \subseteq Root
                      /\ edits' \in 0..MaxEdits /\ installed' \subseteq Root
                      /\ slips' \subseteq {"edit", "second"} /\ kills' \in 0..MaxKills
  <1>0. NoJob /\ job' \in [Process -> Job] /\ Rooted' => TypeInv'
    BY DEF TypeInv, TypeOK, Job, Step, Work
  <1>A. ASSUME NEW p \in Process, NEW j \in Job, job' = [job EXCEPT ![p] = j], NoJob,
               j.at \in Work => j.root \in Root
        PROVE  TypeInv'
    BY <1>0, <1>A, MoveType
  <1>B. ASSUME NEW p \in Process, End(p), NoJob PROVE TypeInv'
    BY <1>A, <1>B, Blank DEF End, Work
  <1>C. ASSUME NEW p \in Process, NEW l \in Step, Goto(p, l), NoJob,
               job[p].at \in Work \/ l \in {"ran", "refused", "outage"}
        PROVE  TypeInv'
    <2> DEFINE j == [job[p] EXCEPT !.at = l]
    <2>1. j \in Job /\ job' = [job EXCEPT ![p] = j]
      BY <1>C, GotoMove
    <2>2. j.at \in Work => j.root \in Root
      BY <1>C DEF TypeInv, TypeOK, Rooted, Work
    <2> HIDE DEF j, NoJob
    <2> QED
      BY <1>A, <1>C, <2>1, <2>2
  <1>1. ASSUME NEW p \in Process, NEW r \in Root, NEW i \in BOOLEAN, Begin(p, r, i) PROVE TypeInv'
    <2>1. NoJob
      BY <1>1, Blank DEF Begin, TypeInv, TypeOK, world
    <2> DEFINE j == [at |-> IF settings = Absent THEN "create" ELSE "backup",
                     root |-> r, install |-> i, holds |-> Absent]
    <2>2. j \in Job /\ job' = [job EXCEPT ![p] = j]
      BY <1>1, Blank DEF Begin, Job, Step, Work
    <2>3. j.root \in Root
      OBVIOUS
    <2> HIDE DEF NoJob, j
    <2> QED
      BY <1>A, <2>1, <2>2, <2>3
  <1>2. ASSUME NEW p \in Process, Backup(p) PROVE TypeInv'
    <2>1. settings.rest \in NoBackup..MaxEdits
      BY DEF TypeInv, TypeOK, File, NoBackup
    <2>2. NoJob
      BY <1>2, <2>1 DEF Backup, TypeInv, TypeOK, world
    <2> HIDE DEF NoJob
    <2> QED
      BY <1>2, <1>C, <2>2 DEF Backup, At, Step, Work
  <1>3. ASSUME NEW p \in Process, Read(p) PROVE TypeInv'
    <2>1. NoJob
      BY <1>3 DEF Read, TypeInv, TypeOK, world
    <2>2. job[p] \in Job /\ job[p].at = "read" /\ job[p].root \in Root /\ settings \in File
      BY <1>3 DEF Read, At, TypeInv, TypeOK, Rooted, Job, Step, Work
    <2> HIDE DEF NoJob
    <2>3. CASE End(p)
      BY <1>B, <2>1, <2>3
    <2>4. CASE ~End(p)
      <3> DEFINE h == IF job[p].install THEN Installed(settings, job[p].root)
                      ELSE Uninstalled(settings, job[p].root)
                 j == [job[p] EXCEPT !.at = "truncate", !.holds = h]
      <3>1. h \in File
        BY <2>2, InstalledHooks, UninstalledHooks
      <3>2. job' = [job EXCEPT ![p].at = "truncate", ![p].holds = h]
        BY <1>3, <2>4 DEF Read
      <3> HIDE DEF h
      <3>3. j \in Job /\ job' = [job EXCEPT ![p] = j] /\ j.root \in Root
        BY <2>2, <3>1, <3>2 DEF TypeInv, TypeOK, Job, Step, Work
      <3> HIDE DEF j
      <3> QED
        BY <1>A, <2>1, <3>3
    <2> QED
      BY <2>3, <2>4
  <1>4. ASSUME NEW p \in Process, Create(p) \/ Truncate(p) PROVE TypeInv'
    <2>1. NoJob
      BY <1>4, Blank DEF Create, Truncate, TypeInv, TypeOK, world
    <2> HIDE DEF NoJob
    <2> QED
      BY <1>4, <1>C, <2>1 DEF Create, Truncate, At, Step, Work
  <1>5. ASSUME NEW p \in Process, Write(p) PROVE TypeInv'
    <2>1. job[p].holds \in File /\ job[p].root \in Root
      BY <1>5 DEF Write, At, TypeInv, TypeOK, Rooted, Work
    <2>2. settings' \in File
      BY <1>5, <2>1, Overwritten DEF Write
    <2>3. NoJob
      BY <1>5, <2>1, <2>2 DEF Write, TypeInv, TypeOK, world
    <2> HIDE DEF NoJob
    <2> QED
      BY <1>5, <1>B, <2>3 DEF Write
  <1>6. ASSUME NEW p \in Process, Dies(p) PROVE TypeInv'
    <2>1. NoJob
      BY <1>6, BoundAssumption DEF Dies, TypeInv, TypeOK, world
    <2> HIDE DEF NoJob
    <2> QED
      BY <1>6, <1>B, <2>1 DEF Dies
  <1>7. ASSUME NEW p \in Process, ToolCall(p) PROVE TypeInv'
    <2>1. NoJob
      BY <1>7 DEF ToolCall, TypeInv, TypeOK, world
    <2>2. \E a \in {"ran", "refused", "outage"} : Goto(p, a)
      BY <1>7 DEF ToolCall, Answers
    <2> HIDE DEF NoJob
    <2> QED
      BY <1>7, <1>C, <2>1, <2>2 DEF Step, Work
  <1>8. ASSUME NEW p \in Process, ToolCallEnds(p) PROVE TypeInv'
    <2>1. NoJob
      BY <1>8 DEF ToolCallEnds, TypeInv, TypeOK, world
    <2> HIDE DEF NoJob
    <2> QED
      BY <1>8, <1>B, <2>1 DEF ToolCallEnds
  <1>9. ASSUME Edit PROVE TypeInv'
    <2>1. PICK left \in SUBSET Root, m \in Root \cup {NoRoot} :
            /\ settings' = [state |-> "whole", rest |-> edits', mixed |-> m,
                            hooks |-> [r \in Root |-> IF r \in left THEN settings.hooks[r] ELSE 0]]
            /\ installed' = installed \cap left
      BY <1>9 DEF Edit
    <2>2. edits' \in 0..MaxEdits
      BY <1>9, BoundAssumption DEF Edit, TypeInv, TypeOK
    <2>3. settings' \in File
      BY <2>1, <2>2 DEF TypeInv, TypeOK, File
    <2> QED
      BY <1>9, <2>1, <2>2, <2>3 DEF Edit, TypeInv, TypeOK, Rooted
  <1>10. ASSUME Restore PROVE TypeInv'
    <2>1. PICK t \in 1..MaxSeconds, hooks \in [Root -> 0..1] :
            /\ backup[t] # NoBackup
            /\ settings' = [Empty EXCEPT !.hooks = hooks, !.rest = backup[t]]
      BY <1>10 DEF Restore
    <2>2. backup[t] \in 0..MaxEdits
      BY <2>1, BoundAssumption DEF TypeInv, TypeOK, NoBackup
    <2>3. hooks \in [Root -> 0..2] /\ Empty \in File
      BY Blank
    <2>4. settings' \in File
      BY <2>1, <2>2, <2>3 DEF File
    <2> QED
      BY <1>10, <2>4 DEF Restore, TypeInv, TypeOK, Rooted, world
  <1>11. CASE Move
    BY <1>11 DEF Move, TypeInv, TypeOK, Rooted
  <1>12. CASE Tick
    BY <1>12, BoundAssumption DEF Tick, TypeInv, TypeOK, Rooted
  <1>13. CASE UNCHANGED vars
    BY <1>13 DEF vars, TypeInv, TypeOK, Rooted
  <1>14. ASSUME NEW p \in Process, Fill(p) PROVE TypeInv'
    <2>1. settings' \in File
      BY <1>14, Blank, Overwritten DEF Fill
    <2>2. NoJob
      BY <1>14, <2>1 DEF Fill, TypeInv, TypeOK, world
    <2> HIDE DEF NoJob
    <2> QED
      BY <1>14, <1>C, <2>2 DEF Fill, At, Step, Work
  <1> QED
    BY <1>1, <1>2, <1>3, <1>4, <1>5, <1>6, <1>7, <1>8, <1>9, <1>10, <1>11, <1>12, <1>13, <1>14
    DEF Next

-----------------------------------------------------------------------------
(* The user's settings.                                                    *)

\* There are no settings until a command makes them or the user writes some, and
\* what a command holds it has read from settings that were there.
MadeInv ==
  /\ \/ settings.state = "whole" \/ settings = Broken
     \/ /\ settings = Absent /\ edits = 0
        /\ \A p \in Process : job[p].at \notin Work \ {"create"}
  /\ \A p \in Holding : job[p].holds.state = "whole"

\* A backup holds the user's latest version.
Backed == \E t \in 1..MaxSeconds : backup[t] = edits

\* While nothing has slipped, the latest version is backed up from the moment a
\* command has made its backup, however many have been at work by then, to the
\* moment it has written; and after that, if the file has lost it. Nobody is about
\* to make the settings who looked for them before that version.
BackupInv ==
  edits > 0 /\ slips = {} =>
    /\ settings.rest = edits \/ Backed
    /\ \A p \in Process : job[p].at \in {"read", "truncate", "write"} => Backed
    /\ Making = {}

\* No step without an edit loses a backup while nothing slips.
LEMMA BackupsStay ==
  ASSUME TypeInv, BackupInv, TypeInv',
         edits' = edits, slips \subseteq slips', backup' = backup,
         settings'.rest = settings.rest
           \/ (\E p \in Process : job[p].at \in {"read", "truncate", "write"})
           \/ (settings.rest # edits /\ edits > 0) \/ edits = 0 \/ Making # {},
         \A p \in Process :
           /\ job'[p].at \in {"read", "truncate", "write"} =>
                job[p].at \in {"read", "truncate", "write"}
           /\ job'[p].at \in {"create", "fill"} =>
                job[p].at \in {"create", "fill"} \/ edits = 0
  PROVE  BackupInv'
  <1> SUFFICES ASSUME edits > 0, slips = {}, slips' = {}
               PROVE  /\ settings'.rest = edits \/ Backed
                      /\ \A p \in Process : job'[p].at \in {"read", "truncate", "write"} => Backed
                      /\ \A p \in Process : job'[p].at \notin {"create", "fill"}
    BY DEF BackupInv, Backed, Making
  <1> QED
    BY DEF BackupInv, Making

\* A step of one process moves no other.
LEMMA Others ==
  ASSUME TypeInv, NEW p \in Process
  PROVE  /\ \A l : Goto(p, l) => \A q \in Process :
              job'[q] = IF q = p THEN [job[p] EXCEPT !.at = l] ELSE job[q]
         /\ End(p) => \A q \in Process : job'[q] = IF q = p THEN Idle ELSE job[q]
  BY DEF TypeInv, TypeOK, Goto, End

\* A step forward changes nothing else of a process.
LEMMA Forward ==
  ASSUME TypeInv, NEW p \in Process, NEW l, Goto(p, l)
  PROVE  \A q \in Process :
           /\ job'[q].at = IF q = p THEN l ELSE job[q].at
           /\ job'[q].root = job[q].root /\ job'[q].install = job[q].install
           /\ job'[q].holds = job[q].holds
  <1>1. \A q \in Process : job'[q] = IF q = p THEN [job[p] EXCEPT !.at = l] ELSE job[q]
    BY Others
  <1> QED
    BY <1>1 DEF TypeInv, TypeOK

\* Settings that are there stay there.
LEMMA MadeStep == TypeInv /\ MadeInv /\ [Next]_vars => MadeInv'
  <1> SUFFICES ASSUME TypeInv, MadeInv, [Next]_vars PROVE MadeInv'
    OBVIOUS
  <1> DEFINE There == settings.state = "whole" \/ settings = Broken
             Calm == \A q \in Process : job'[q].at \in {"truncate", "write"} =>
                       job[q].at \in {"truncate", "write"} /\ job'[q].holds = job[q].holds
  <1>A. ASSUME There', Calm PROVE MadeInv'
    BY <1>A DEF MadeInv, Holding
  <1>B. ASSUME NEW p \in Process, job[p].at \in Work \ {"create"} PROVE There
    BY <1>B DEF MadeInv
  <1>C. ASSUME settings' = settings, edits' = edits, Calm,
               There \/ (\A q \in Process : job'[q].at \in Work \ {"create"} =>
                                             job[q].at \in Work \ {"create"})
        PROVE  MadeInv'
    BY <1>C DEF MadeInv, Holding
  <1>D. ASSUME NEW p \in Process, End(p)
        PROVE  /\ Calm
               /\ \A q \in Process : job'[q].at \in Work \ {"create"} =>
                                     job[q].at \in Work \ {"create"}
    BY <1>D, Others, Blank DEF Work
  <1>E. ASSUME NEW p \in Process, NEW l \in Step, Goto(p, l),
               job[p].at = "truncate" \/ l \notin {"truncate", "write"}
        PROVE  Calm
    BY <1>E, Forward
  <1>1. ASSUME NEW p \in Process, NEW r \in Root, NEW i \in BOOLEAN, Begin(p, r, i)
        PROVE  MadeInv'
    <2>1. \A q \in Process : job'[q] = IF q = p
            THEN [at |-> IF settings = Absent THEN "create" ELSE "backup",
                  root |-> r, install |-> i, holds |-> Absent]
            ELSE job[q]
      BY <1>1 DEF Begin, TypeInv, TypeOK
    <2>2. Calm
      BY <2>1
    <2>3. There \/ settings = Absent
      BY DEF MadeInv
    <2>4. settings = Absent => \A q \in Process : job'[q].at \in Work \ {"create"} =>
                                                job[q].at \in Work \ {"create"}
      BY <2>1
    <2> HIDE DEF There, Calm
    <2> QED
      BY <1>1, <1>C, <2>2, <2>3, <2>4 DEF Begin, world
  <1>2. ASSUME NEW p \in Process, Create(p) \/ Truncate(p) PROVE MadeInv'
    <2>1. Calm
      BY <1>2, <1>E DEF Create, Truncate, At, Step, Work
    <2> HIDE DEF Calm
    <2> QED
      BY <1>2, <1>A, <2>1 DEF Create, Truncate
  <1>3. ASSUME NEW p \in Process, Fill(p) PROVE MadeInv'
    <2>1. Calm
      BY <1>3, <1>E DEF Fill, Step, Work
    <2>2. settings' \in Over(Empty) \/ settings' = Broken
      BY <1>3 DEF Fill
    <2>3. There'
      BY <2>2, Blank, Overwritten
    <2> HIDE DEF There, Calm
    <2> QED
      BY <1>A, <2>1, <2>3
  <1>4. ASSUME NEW p \in Process, Backup(p) PROVE MadeInv'
    <2>1. Calm
      BY <1>4, <1>E DEF Backup, Step, Work
    <2>2. There
      BY <1>4, <1>B DEF Backup, At, Work
    <2> HIDE DEF There, Calm
    <2> QED
      BY <1>4, <1>C, <2>1, <2>2 DEF Backup, world
  <1>5. ASSUME NEW p \in Process, Read(p) PROVE MadeInv'
    <2>1. CASE End(p)
      <3> HIDE DEF There, Calm
      <3> QED
        BY <1>5, <2>1, <1>C, <1>D DEF Read, world
    <2>2. CASE ~End(p)
      <3> DEFINE d == IF job[p].install THEN Installed(settings, job[p].root)
                      ELSE Uninstalled(settings, job[p].root)
      <3>1. /\ settings # Broken /\ At(p, "read")
            /\ job' = [job EXCEPT ![p].at = "truncate", ![p].holds = d]
            /\ settings' = settings /\ edits' = edits
        BY <1>5, <2>2 DEF Read, world
      <3>2. settings.state = "whole"
        BY <3>1, <1>B DEF At, Work
      <3>3. d.state = "whole"
        <4>1. job[p].root \in Root /\ settings \in File
          BY <3>1 DEF TypeInv, TypeOK, Rooted, At, Work
        <4> QED
          BY <3>2, <4>1, InstalledHooks, UninstalledHooks
      <3> HIDE DEF d
      <3>4. /\ job'[p].holds = d
            /\ \A q \in Process \ {p} : job'[q] = job[q]
        BY <3>1 DEF TypeInv, TypeOK
      <3>5. \A q \in Holding' : job'[q].holds.state = "whole"
        BY <3>3, <3>4 DEF MadeInv, Holding
      <3> QED
        BY <3>1, <3>2, <3>5 DEF MadeInv
    <2> QED
      BY <2>1, <2>2
  <1>6. ASSUME NEW p \in Process, Write(p) PROVE MadeInv'
    <2>1. job[p].holds \in File /\ job[p].holds.state = "whole"
      BY <1>6 DEF Write, At, TypeInv, TypeOK, MadeInv, Holding
    <2>2. There'
      BY <1>6, <2>1, Overwritten DEF Write
    <2>3. Calm
      BY <1>6, <1>D DEF Write
    <2> HIDE DEF There, Calm
    <2> QED
      BY <1>A, <2>2, <2>3
  <1>7. ASSUME NEW p \in Process, Dies(p) \/ ToolCallEnds(p) PROVE MadeInv'
    <2> HIDE DEF There, Calm
    <2> QED
      BY <1>7, <1>C, <1>D DEF Dies, ToolCallEnds, world
  <1>8. ASSUME NEW p \in Process, ToolCall(p) PROVE MadeInv'
    <2>1. PICK a \in {"ran", "refused", "outage"} : Goto(p, a)
      BY <1>8 DEF ToolCall, Answers
    <2>2. Calm
      BY <2>1, <1>E DEF Step
    <2>3. \A q \in Process : job'[q].at \in Work \ {"create"} =>
            job[q].at \in Work \ {"create"}
      BY <2>1, Forward DEF Work
    <2> HIDE DEF There, Calm
    <2> QED
      BY <1>8, <1>C, <2>2, <2>3 DEF ToolCall, world
  <1>9. CASE Edit \/ Restore
    <2>1. CASE Edit
      BY <1>A, <2>1 DEF Edit
    <2>2. CASE Restore
      <3>1. settings'.state = "whole" /\ job' = job
        BY <2>2, Blank DEF Restore, File
      <3> QED
        BY <1>A, <3>1
    <2> QED
      BY <1>9, <2>1, <2>2
  <1>10. CASE Move \/ Tick \/ UNCHANGED vars
    BY <1>10 DEF Move, Tick, vars, MadeInv, Holding
  <1> QED
    BY <1>1, <1>2, <1>3, <1>4, <1>5, <1>6, <1>7, <1>8, <1>9, <1>10 DEF Next

\* Every step keeps the latest version.
LEMMA BackupStep == TypeInv /\ TypeInv' /\ MadeInv /\ BackupInv /\ [Next]_vars => BackupInv'
  <1> SUFFICES ASSUME TypeInv, TypeInv', MadeInv, BackupInv, [Next]_vars PROVE BackupInv'
    OBVIOUS
  <1> DEFINE Kept(q) ==
        /\ job'[q].at \in {"read", "truncate", "write"} =>
             job[q].at \in {"read", "truncate", "write"}
        /\ job'[q].at \in {"create", "fill"} =>
             job[q].at \in {"create", "fill"} \/ edits = 0
  <1>1. ASSUME NEW p \in Process, NEW r \in Root, NEW i \in BOOLEAN, Begin(p, r, i)
        PROVE  BackupInv'
    <2>1. \A q \in Process : job'[q] = IF q = p
            THEN [at |-> IF settings = Absent THEN "create" ELSE "backup",
                  root |-> r, install |-> i, holds |-> Absent]
            ELSE job[q]
      BY <1>1 DEF Begin, TypeInv, TypeOK
    <2>2. settings = Absent => edits = 0
      BY Blank DEF MadeInv
    <2>3. \A q \in Process : Kept(q)
      BY <2>1, <2>2
    <2> QED
      BY <1>1, <2>3, BackupsStay DEF Begin, world
  <1>2. ASSUME NEW p \in Process, Backup(p) PROVE BackupInv'
    <2>0. ASSUME edits > 0, slips' = {} PROVE Making' = {}
      <3>1. Making = {}
        BY <1>2, <2>0 DEF Backup, BackupInv
      <3>2. \A q \in Process : job'[q].at \in {"create", "fill"} => job[q].at \in {"create", "fill"}
        BY <1>2, Others DEF Backup, TypeInv, TypeOK
      <3> QED
        BY <3>1, <3>2 DEF Making
    <2>1. SUFFICES ASSUME edits > 0, slips' = {} PROVE Backed'
      BY <2>0, <2>1, <1>2 DEF BackupInv, Backup, world
    <2>2. slips = {} /\ backup[second] = NoBackup
      BY <1>2, <2>1 DEF Backup
    <2>3. /\ second \in 1..MaxSeconds /\ edits \in Nat /\ edits' = edits
          /\ backup' = [backup EXCEPT ![second] = settings.rest]
          /\ backup \in [1..MaxSeconds -> NoBackup..MaxEdits]
      BY <1>2, BoundAssumption DEF Backup, TypeInv, TypeOK, world
    <2>4. CASE settings.rest = edits
      BY <2>3, <2>4 DEF Backed
    <2>5. CASE Backed
      <3>1. PICK t \in 1..MaxSeconds : backup[t] = edits
        BY <2>5 DEF Backed
      <3>2. t # second
        BY <3>1, <2>2, <2>3 DEF NoBackup
      <3> QED
        BY <3>1, <3>2, <2>3 DEF Backed
    <2> QED
      BY <2>1, <2>2, <2>4, <2>5 DEF BackupInv
  <1>3. ASSUME NEW p \in Process, Read(p) PROVE BackupInv'
    <2>1. \A q \in Process : Kept(q)
      BY <1>3, Others, Blank DEF Read, TypeInv, TypeOK, At
    <2> QED
      BY <1>3, <2>1, BackupsStay DEF Read, world
  <1>4. ASSUME NEW p \in Process, Truncate(p) PROVE BackupInv'
    <2>1. \A q \in Process : Kept(q)
      BY <1>4, Forward DEF Truncate, At
    <2> QED
      BY <1>4, <2>1, BackupsStay DEF Truncate, world, At
  <1>5. ASSUME NEW p \in Process, Write(p) PROVE BackupInv'
    <2>1. \A q \in Process : Kept(q)
      BY <1>5, Others, Blank DEF Write, At
    <2> QED
      BY <1>5, <2>1, BackupsStay DEF Write, world, At
  <1>6. ASSUME NEW p \in Process, Dies(p) \/ ToolCallEnds(p) PROVE BackupInv'
    <2>1. \A q \in Process : Kept(q)
      BY <1>6, Others, Blank DEF Dies, ToolCallEnds
    <2> QED
      BY <1>6, <2>1, BackupsStay DEF Dies, ToolCallEnds, world
  <1>7. ASSUME NEW p \in Process, ToolCall(p) PROVE BackupInv'
    <2>1. PICK a \in {"ran", "refused", "outage"} : Goto(p, a)
      BY <1>7 DEF ToolCall, Answers
    <2>2. \A q \in Process : Kept(q)
      BY <2>1, Others DEF TypeInv, TypeOK
    <2> QED
      BY <1>7, <2>2, BackupsStay DEF ToolCall, world
  <1>8. CASE Edit
    <2>1. SUFFICES ASSUME slips' = {}
                   PROVE  /\ settings'.rest = edits'
                          /\ \A p \in Process : job[p].at \notin Work \ {"backup"}
      BY <1>8, <2>1 DEF Edit, BackupInv, Making, Work
    <2>2. settings'.rest = edits'
      BY <1>8 DEF Edit
    <2> QED
      BY <1>8, <2>1, <2>2 DEF Edit, Work
  <1>9. CASE Restore
    <2>1. settings.rest = 0
      BY <1>9, Blank DEF Restore
    <2>2. edits = 0 \/ edits > 0
      BY DEF TypeInv, TypeOK
    <2> QED
      BY <1>9, <2>1, <2>2, BackupsStay DEF Restore, world
  <1>10. CASE Move \/ Tick \/ UNCHANGED vars
    BY <1>10, BackupsStay DEF Move, Tick, vars
  <1>11. ASSUME NEW p \in Process, Create(p) \/ Fill(p) PROVE BackupInv'
    <2>1. PICK l \in {"fill", "backup"} : Goto(p, l)
      BY <1>11 DEF Create, Fill
    <2>2. Making # {}
      BY <1>11 DEF Create, Fill, At, Making
    <2>3. \A q \in Process : Kept(q)
      BY <1>11, <2>1, Others DEF Create, Fill, At, TypeInv, TypeOK
    <2> QED
      BY <1>11, <2>2, <2>3, BackupsStay DEF Create, Fill, world
  <1> QED
    BY <1>1, <1>2, <1>3, <1>4, <1>5, <1>6, <1>7, <1>8, <1>9, <1>10, <1>11 DEF Next

-----------------------------------------------------------------------------
(* The hooks.                                                              *)

\* A settings file that can be read has one hook of each clone that was installed
\* and not taken out, and none was while a command makes the file. What a command is about to write would have, too, but for
\* those it takes out; and has the hook of the clone it installs.
HooksInv ==
  /\ \A r \in Root : settings.hooks[r] \in 0..1
  /\ settings # Broken => \A r \in installed : settings.hooks[r] = 1
  /\ Making # {} => installed = {}
  /\ \A p \in Holding :
       /\ \A r \in Root : job[p].holds.hooks[r] \in 0..1
       /\ job[p].install => job[p].holds.hooks[job[p].root] = 1
       /\ \A r \in installed : job[p].holds.hooks[r] = 1
            \/ (~job[p].install /\ r \in Mentions[job[p].root])

\* What a command reads keeps to it.
LEMMA ReadHooks ==
  ASSUME TypeInv, HooksInv, NEW p \in Process, At(p, "read"), settings # Broken, NEW d \in File,
         d = IF job[p].install THEN Installed(settings, job[p].root)
             ELSE Uninstalled(settings, job[p].root)
  PROVE  /\ \A r \in Root : d.hooks[r] \in 0..1
         /\ job[p].install => d.hooks[job[p].root] = 1
         /\ \A r \in installed : d.hooks[r] = 1
              \/ (~job[p].install /\ r \in Mentions[job[p].root])
  <1>1. settings \in File /\ job[p].root \in Root /\ installed \subseteq Root
    BY DEF TypeInv, TypeOK, Rooted, At, Work
  <1>2. /\ \A r \in Root : settings.hooks[r] \in 0..1
        /\ \A r \in installed : settings.hooks[r] = 1
    BY DEF HooksInv
  <1>3. CASE job[p].install
    BY <1>1, <1>2, <1>3, InstalledHooks
  <1>4. CASE ~job[p].install
    BY <1>1, <1>2, <1>4, UninstalledHooks
  <1> QED
    BY <1>3, <1>4

\* A step that installs nothing, and by which no process comes to hold settings.
LEMMA HooksStay ==
  ASSUME TypeInv, HooksInv,
         \A r \in Root : settings'.hooks[r] \in 0..1,
         settings' # Broken => \A r \in installed' : settings'.hooks[r] = 1,
         installed' \subseteq installed,
         \A q \in Process :
           /\ job'[q].at \in {"truncate", "write"} =>
                job[q].at \in {"truncate", "write"} /\ job'[q].holds = job[q].holds
                  /\ job'[q].install = job[q].install /\ job'[q].root = job[q].root
           /\ job'[q].at \in {"create", "fill"} =>
                job[q].at \in {"create", "fill"} \/ installed = {}
  PROVE  HooksInv'
  BY DEF HooksInv, Holding, Making

\* Every step keeps the hooks.
LEMMA HooksStep == TypeInv /\ TypeInv' /\ HooksInv /\ [Next]_vars => HooksInv'
  <1> SUFFICES ASSUME TypeInv, TypeInv', HooksInv, [Next]_vars PROVE HooksInv'
    OBVIOUS
  <1> DEFINE Kept(q) ==
        /\ job'[q].at \in {"truncate", "write"} =>
             job[q].at \in {"truncate", "write"} /\ job'[q].holds = job[q].holds
               /\ job'[q].install = job[q].install /\ job'[q].root = job[q].root
        /\ job'[q].at \in {"create", "fill"} =>
             job[q].at \in {"create", "fill"} \/ installed = {}
  <1>A. ASSUME NEW p \in Process, End(p) PROVE \A q \in Process : Kept(q)
    BY <1>A, Others, Blank
  <1>B. ASSUME NEW p \in Process, NEW l \in Step, Goto(p, l),
               job[p].at = "truncate" \/ l \notin {"truncate", "write"},
               job[p].at = "create" \/ l \notin {"create", "fill"}
        PROVE  \A q \in Process : Kept(q)
    BY <1>B, Others DEF TypeInv, TypeOK
  <1>1. ASSUME NEW p \in Process, NEW r \in Root, NEW i \in BOOLEAN, Begin(p, r, i)
        PROVE  HooksInv'
    <2>1. \A q \in Process : job'[q] = IF q = p
            THEN [at |-> IF settings = Absent THEN "create" ELSE "backup",
                  root |-> r, install |-> i, holds |-> Absent]
            ELSE job[q]
      BY <1>1 DEF Begin, TypeInv, TypeOK
    <2>2. ASSUME settings = Absent PROVE installed = {}
      <3>1. Absent # Broken /\ installed \subseteq Root /\ \A q \in Root : Absent.hooks[q] = 0
        BY Blank DEF TypeInv, TypeOK
      <3> QED
        BY <2>2, <3>1 DEF HooksInv
    <2>3. \A q \in Process : Kept(q)
      BY <2>1, <2>2
    <2> QED
      BY <1>1, <2>3, HooksStay DEF Begin, HooksInv
  <1>2. ASSUME NEW p \in Process, Backup(p) \/ Dies(p) \/ ToolCallEnds(p) PROVE HooksInv'
    <2>1. \A q \in Process : Kept(q)
      BY <1>2, <1>A, <1>B DEF Backup, Dies, ToolCallEnds, Step, Work
    <2> QED
      BY <1>2, <2>1, HooksStay DEF Backup, Dies, ToolCallEnds, HooksInv
  <1>3. ASSUME NEW p \in Process, Read(p) PROVE HooksInv'
    <2>1. CASE End(p)
      BY <1>3, <2>1, <1>A, HooksStay DEF Read, HooksInv
    <2>2. CASE ~End(p)
      <3> DEFINE d == IF job[p].install THEN Installed(settings, job[p].root)
                      ELSE Uninstalled(settings, job[p].root)
      <3>1. /\ settings # Broken /\ At(p, "read")
            /\ job' = [job EXCEPT ![p].at = "truncate", ![p].holds = d]
            /\ settings' = settings /\ installed' = installed
        BY <1>3, <2>2 DEF Read
      <3>2. d \in File
        <4>1. job[p].root \in Root /\ settings \in File
          BY <3>1 DEF TypeInv, TypeOK, Rooted, At, Work
        <4> QED
          BY <4>1, InstalledHooks, UninstalledHooks
      <3> HIDE DEF d
      <3>3. job'[p].holds = d /\ job'[p].install = job[p].install /\ job'[p].root = job[p].root
        BY <3>1 DEF TypeInv, TypeOK
      <3>4. \A q \in Process \ {p} : job'[q] = job[q]
        BY <3>1 DEF TypeInv, TypeOK
      <3>5. /\ \A r \in Root : d.hooks[r] \in 0..1
            /\ job[p].install => d.hooks[job[p].root] = 1
            /\ \A r \in installed : d.hooks[r] = 1
                 \/ (~job[p].install /\ r \in Mentions[job[p].root])
        BY <3>1, <3>2, ReadHooks DEF d
      <3>6. ASSUME NEW q \in Holding'
            PROVE  /\ \A r \in Root : job'[q].holds.hooks[r] \in 0..1
                   /\ job'[q].install => job'[q].holds.hooks[job'[q].root] = 1
                   /\ \A r \in installed : job'[q].holds.hooks[r] = 1
                        \/ (~job'[q].install /\ r \in Mentions[job'[q].root])
        <4>1. CASE q = p
          BY <3>3, <3>5, <4>1
        <4>2. CASE q # p
          <5>1. q \in Holding /\ job'[q] = job[q]
            BY <3>4, <3>6, <4>2 DEF Holding
          <5> QED
            BY <5>1 DEF HooksInv
        <4> QED
          BY <4>1, <4>2
      <3>7. Making' \subseteq Making
        BY <3>1, <3>4 DEF Making, TypeInv, TypeOK
      <3> QED
        BY <3>1, <3>6, <3>7 DEF HooksInv
    <2> QED
      BY <2>1, <2>2
  <1>4. ASSUME NEW p \in Process, Create(p) \/ Truncate(p) PROVE HooksInv'
    <2>1. \A q \in Process : Kept(q)
      BY <1>4, <1>B DEF Create, Truncate, At, Step, Work
    <2>2. /\ settings' = Broken /\ installed' = installed
          /\ \A r \in Root : settings'.hooks[r] = 0
      BY <1>4 DEF Create, Truncate, Broken
    <2> HIDE DEF Kept
    <2> QED
      BY <2>1, <2>2, HooksStay DEF Kept
  <1>5. ASSUME NEW p \in Process, Write(p) PROVE HooksInv'
    <2>1. \A q \in Process : Kept(q)
      BY <1>5, <1>A DEF Write
    <2>2. /\ settings' = job[p].holds \/ settings' = Broken
          /\ p \in Holding /\ job[p].root \in Root
          /\ \A r \in Root : job[p].holds.hooks[r] \in 0..1
      <3>1. job[p].holds \in File
        BY DEF TypeInv, TypeOK
      <3> QED
        BY <1>5, <3>1, Overwritten DEF Write, At, Holding, HooksInv, TypeInv, Rooted, Work
    <2>3. \A r \in Root : settings'.hooks[r] \in 0..1
      BY <2>2 DEF Broken
    <2>4. CASE Holding # {p} \/ Making # {}
      <3>1. installed' = {}
        BY <1>5, <2>4 DEF Write
      <3> HIDE DEF Kept
      <3> QED
        BY <2>1, <2>3, <3>1, HooksStay DEF Kept
    <2>5. CASE Holding = {p} /\ Making = {}
      <3>1. \A q \in Process : q \notin Holding' /\ q \notin Making'
        <4>1. \A q \in Process : job'[q] = IF q = p THEN Idle ELSE job[q]
          BY <1>5, Others DEF Write
        <4> QED
          BY <2>5, <4>1, Blank DEF Holding, Making
      <3>2. settings' # Broken => \A r \in installed' : settings'.hooks[r] = 1
        BY <1>5, <2>2, <2>5 DEF Write, HooksInv
      <3>3. Holding' = {} /\ Making' = {}
        BY <3>1 DEF Holding, Making
      <3> QED
        BY <2>3, <3>2, <3>3 DEF HooksInv
    <2> QED
      BY <2>4, <2>5
  <1>6. ASSUME NEW p \in Process, ToolCall(p) PROVE HooksInv'
    <2>1. PICK a \in {"ran", "refused", "outage"} : Goto(p, a)
      BY <1>6 DEF ToolCall, Answers
    <2>2. \A q \in Process : Kept(q)
      BY <2>1, <1>B DEF Step, Work
    <2> QED
      BY <1>6, <2>2, HooksStay DEF ToolCall, HooksInv
  <1>7. CASE Edit
    <2>1. PICK left \in SUBSET {r \in Root : settings.hooks[r] > 0} :
            /\ installed' = installed \cap left
            /\ settings'.hooks = [r \in Root |-> IF r \in left THEN settings.hooks[r] ELSE 0]
      BY <1>7 DEF Edit
    <2>2. settings # Broken /\ job' = job /\ installed \subseteq Root
      BY <1>7 DEF Edit, TypeInv, TypeOK
    <2>3. /\ \A r \in Root : settings'.hooks[r] \in 0..1
          /\ \A r \in installed' : settings'.hooks[r] = 1
      BY <2>1, <2>2 DEF HooksInv
    <2> QED
      BY <2>1, <2>2, <2>3, HooksStay
  <1>8. CASE Restore
    <2>1. /\ installed' = {} /\ job' = job
          /\ \E hooks \in [Root -> 0..1] : settings'.hooks = hooks
      BY <1>8, Blank DEF Restore, File
    <2> QED
      BY <2>1, HooksStay
  <1>9. CASE Move \/ Tick \/ UNCHANGED vars
    BY <1>9, HooksStay DEF Move, Tick, vars, HooksInv
  <1>10. ASSUME NEW p \in Process, Fill(p) PROVE HooksInv'
    <2>1. \A q \in Process : Kept(q)
      BY <1>10, <1>B DEF Fill, Step, Work
    <2>2. installed = {}
      BY <1>10 DEF Fill, At, Making, HooksInv
    <2>3. settings' = Empty \/ settings' = Broken
      BY <1>10, Blank, Overwritten DEF Fill
    <2>4. \A r \in Root : settings'.hooks[r] = 0
      BY <2>3 DEF Empty, Broken
    <2>5. installed' = {}
      BY <1>10, <2>2 DEF Fill
    <2> HIDE DEF Kept
    <2> QED
      BY <2>1, <2>4, <2>5, HooksStay DEF Kept
  <1> QED
    BY <1>1, <1>2, <1>3, <1>4, <1>5, <1>6, <1>7, <1>8, <1>9, <1>10 DEF Next

-----------------------------------------------------------------------------
(* The theorems.                                                           *)

\* The start has them all: no version, no hook and nobody at work.
LEMMA UserInit == Init => MadeInv /\ BackupInv /\ HooksInv
  <1> SUFFICES ASSUME Init PROVE MadeInv /\ BackupInv /\ HooksInv
    OBVIOUS
  <1>1. /\ edits = 0 /\ installed = {} /\ settings = Absent /\ Holding = {}
        /\ \A p \in Process : job[p].at = "idle"
    BY Blank DEF Init, Holding
  <1> QED
    BY <1>1, Blank DEF MadeInv, BackupInv, HooksInv, Work

\* What the theorems below rest on, of every behaviour.
LEMMA InstallerSafe == Spec => [](TypeInv /\ MadeInv /\ BackupInv /\ HooksInv)
  <1> DEFINE I == TypeInv /\ MadeInv /\ BackupInv /\ HooksInv
  <1>1. Init => I
    BY InstallerInit, UserInit
  <1>2. I /\ [Next]_vars => I'
    BY InstallerStep, MadeStep, BackupStep, HooksStep
  <1> QED
    BY <1>1, <1>2, PTL DEF Spec

\* install.sh: the settings, the backups and the steps of a command have their
\* types.
THEOREM InstallerTypes == Spec => []TypeOK
  <1>1. TypeInv => TypeOK
    BY DEF TypeInv
  <1> QED
    BY <1>1, InstallerSafe, PTL

\* install.sh:8 "backs up settings.json": the user's latest version is in the file
\* or a backup, however many commands overlap and wherever they die, but for what
\* the slips name.
THEOREM InstallerKeepsSettings == Spec => []SettingsKept
  <1>1. BackupInv => SettingsKept
    BY DEF BackupInv, SettingsKept, Backed
  <1> QED
    BY <1>1, InstallerSafe, PTL

\* install.sh:56: the hooks of a clone that was installed, by the only command that
\* made or held the settings, and not taken out since, are there once.
THEOREM InstallerOnce == Spec => []InstalledOnce
  <1>1. HooksInv => InstalledOnce
    BY Blank DEF HooksInv, InstalledOnce
  <1> QED
    BY <1>1, InstallerSafe, PTL
=============================================================================
