--------------------------- MODULE TombstoneProofs ---------------------------
(***************************************************************************)
(* What is proved of Tombstone for every set of processes, paths, file     *)
(* systems and entries and every bound: nothing the user wrote is lost to  *)
(* a trash or a restore, a trash that succeeded can be undone, and a       *)
(* restore brings back what was trashed.                                   *)
(***************************************************************************)
EXTENDS Tombstone, TLAPS

-----------------------------------------------------------------------------
(* Types.                                                                  *)

\* A path is no entry, and neither is nowhere.
LEMMA Places ==
  /\ Path \cap Entry = {} /\ Nowhere \notin Path /\ Nowhere \notin Entry
  /\ Elsewhere \subseteq Path /\ Nowhere \notin Elsewhere /\ Elsewhere \cap Entry = {}
  /\ \A x \in Path, e \in Entry : x # e /\ x \in Place /\ e \in Place
  BY PlacesDiffer, ElsewhereAssumption DEF Place

\* shutil.move makes a tree: the source, or the target directory with the source in it.
LEMMA MovedType ==
  ASSUME NEW s \in Tree, NEW t \in Tree
  PROVE /\ Moved(s, t) \in Tree
        /\ t.dir => Moved(s, t).data = t.data \cup s.data
        /\ ~t.dir => Moved(s, t) = s
  <1>1. CASE t.dir
    <2>1. Moved(s, t) = [t EXCEPT !.data = t.data \cup s.data, !.child = TRUE]
      BY <1>1 DEF Moved
    <2>2. t.data \cup s.data \in SUBSET Nat
      BY DEF Tree
    <2> QED
      BY <1>1, <2>1, <2>2 DEF Tree
  <1>2. CASE ~t.dir
    BY <1>2 DEF Moved
  <1> QED
    BY <1>1, <1>2

\* Other contents make another tree.
LEMMA TreeWith ==
  ASSUME NEW t \in Tree, NEW d \in SUBSET Nat
  PROVE [t EXCEPT !.data = d] \in Tree /\ [t EXCEPT !.data = d].data = d
  BY DEF Tree

\* The values a job, a tombstone and a place begin with have their types.
LEMMA NothingTypes == NoJob \in Job /\ NoStone \in Stone /\ Absent \in Tree /\ Absent.data = {}
  BY DEF NoJob, NoStone, Absent, Job, Stone, Tree, Steps

\* A process on its way, and one at its end, is at a job.
LEMMA GotoType ==
  ASSUME TypeOK, NEW p \in Process
  PROVE /\ \A l \in Steps : Goto(p, l) => job' \in [Process -> Job]
        /\ \A l \in Steps, v \in SUBSET Nat : GotoReading(p, l, v) => job' \in [Process -> Job]
        /\ End(p) => job' \in [Process -> Job]
  <1>0. job \in [Process -> Job] /\ job[p] \in Job
    BY DEF TypeOK
  <1>1. ASSUME NEW l \in Steps, Goto(p, l) PROVE job' \in [Process -> Job]
    <2>1. [job[p] EXCEPT !.at = l] \in Job
      BY <1>0 DEF Job
    <2> QED
      BY <1>0, <1>1, <2>1 DEF Goto
  <1>2. ASSUME End(p) PROVE job' \in [Process -> Job]
    BY <1>0, <1>2, NothingTypes DEF End
  <1>3. ASSUME NEW l \in Steps, NEW v \in SUBSET Nat, GotoReading(p, l, v) PROVE job' \in [Process -> Job]
    <2>1. job'[p] = [job[p] EXCEPT !.at = l, !.reads = v] /\ \A q \in Process \ {p} : job'[q] = job[q]
      BY <1>0, <1>3 DEF GotoReading
    <2>2. [job[p] EXCEPT !.at = l, !.reads = v] \in Job
      BY <1>0 DEF Job
    <2>3. job' = [q \in Process |-> job'[q]]
      BY <1>0, <1>3 DEF GotoReading
    <2> QED
      BY <1>0, <2>1, <2>2, <2>3
  <1> QED
    BY <1>1, <1>2, <1>3

\* Where a process goes and where it ends.
LEMMA GotoIs ==
  ASSUME TypeOK, NEW p \in Process
  PROVE /\ \A l : Goto(p, l) => /\ job'[p].at = l /\ job'[p].path = job[p].path
                                /\ job'[p].entry = job[p].entry /\ job'[p].before = job[p].before
                                /\ \A q \in Process \ {p} : job'[q] = job[q]
        /\ \A l, v : GotoReading(p, l, v) =>
             /\ job'[p].at = l /\ job'[p].path = job[p].path /\ job'[p].reads = v
             /\ job'[p].entry = job[p].entry /\ job'[p].before = job[p].before
             /\ \A q \in Process \ {p} : job'[q] = job[q]
        /\ End(p) => job'[p] = NoJob /\ \A q \in Process \ {p} : job'[q] = job[q]
  <1>0. job \in [Process -> Job] /\ job[p] \in Job
    BY DEF TypeOK
  <1>1. ASSUME NEW l, Goto(p, l)
        PROVE /\ job'[p].at = l /\ job'[p].path = job[p].path
              /\ job'[p].entry = job[p].entry /\ job'[p].before = job[p].before
              /\ \A q \in Process \ {p} : job'[q] = job[q]
    <2>1. job'[p] = [job[p] EXCEPT !.at = l] /\ \A q \in Process \ {p} : job'[q] = job[q]
      BY <1>0, <1>1 DEF Goto
    <2> QED
      BY <1>0, <2>1 DEF Job
  <1>2. ASSUME End(p) PROVE job'[p] = NoJob /\ \A q \in Process \ {p} : job'[q] = job[q]
    BY <1>0, <1>2 DEF End
  <1>3. ASSUME NEW l, NEW v, GotoReading(p, l, v)
        PROVE /\ job'[p].at = l /\ job'[p].path = job[p].path /\ job'[p].reads = v
              /\ job'[p].entry = job[p].entry /\ job'[p].before = job[p].before
              /\ \A q \in Process \ {p} : job'[q] = job[q]
    <2>1. job'[p] = [job[p] EXCEPT !.at = l, !.reads = v] /\ \A q \in Process \ {p} : job'[q] = job[q]
      BY <1>0, <1>3 DEF GotoReading
    <2> QED
      BY <1>0, <2>1 DEF Job
  <1> QED
    BY <1>1, <1>2, <1>3

\* What a copy of a source can hold in the end.
LEMMA CopiesAre ==
  ASSUME NEW s \in Tree, NEW reads \in SUBSET Nat, NEW got \in Copies(s, reads)
  PROVE /\ got \in SUBSET Nat
        /\ got \subseteq s.data \cup reads \cup {0}
        /\ reads \subseteq got \/ (~s.dir /\ s.data # reads)
        /\ s.data = reads => got = reads
  <1>0. s.data \in SUBSET Nat
    BY DEF Tree
  <1>1. CASE s.data = reads
    BY <1>1 DEF Copies
  <1>2. CASE s.data # reads /\ s.dir
    <2>1. PICK late \in SUBSET ((s.data \ reads) \cup {0}) : got = reads \cup late
      BY <1>2 DEF Copies
    <2>2. late \subseteq s.data \cup {0} /\ 0 \in Nat
      BY <2>1
    <2>3. got \in SUBSET Nat
      BY <1>0, <2>1, <2>2
    <2> QED
      BY <1>2, <2>1, <2>2, <2>3
  <1>3. CASE s.data # reads /\ ~s.dir
    BY <1>0, <1>3 DEF Copies
  <1> QED
    BY <1>1, <1>2, <1>3

\* The steps of shutil.move, from s to t.
MoveStep(p, s, t, copy, copied, done) ==
  \/ MoveDies(p, s, t)
  \/ Rename(p, s, t, done)
  \/ CopyPart(p, s, t, copy)
  \/ At(p, copy) /\ CopyRest(p, s, t, copied)
  \/ At(p, copied) /\ RemoveSource(p, s, done)

\* They leave types what they are.
LEMMA MoveTypes ==
  ASSUME TypeOK, NEW p \in Process, NEW s \in Place, NEW t \in Place,
         NEW copy \in Steps, NEW copied \in Steps, NEW done \in Steps,
         MoveStep(p, s, t, copy, copied, done)
  PROVE TypeOK'
  <1>0. disk \in [Place -> Tree] /\ disk[s] \in Tree /\ disk[t] \in Tree
    BY DEF TypeOK
  <1>1. job' \in [Process -> Job]
    <2>1. disk[s].data \in SUBSET Nat /\ {} \in SUBSET Nat
      BY <1>0 DEF Tree
    <2>2. CASE CopyPart(p, s, t, copy) \/ CopyRest(p, s, t, copied)
      BY <2>1, <2>2, GotoType DEF CopyPart, CopyRest
    <2>3. CASE MoveDies(p, s, t) \/ Rename(p, s, t, done) \/ RemoveSource(p, s, done)
      BY <2>3, GotoType DEF MoveDies, Rename, RemoveSource
    <2> QED
      BY <2>2, <2>3 DEF MoveStep
  <1>2. disk' \in [Place -> Tree]
    <2>1. CASE MoveDies(p, s, t)
      BY <1>0, <2>1 DEF MoveDies
    <2>2. CASE Rename(p, s, t, done)
      BY <1>0, <2>2, MovedType, NothingTypes DEF Rename
    <2>3. CASE CopyPart(p, s, t, copy)
      <3>1. PICK part \in SUBSET disk[s].data :
              disk' = [disk EXCEPT ![t] = [disk[s] EXCEPT !.data = part \cup {0}]]
        BY <2>3 DEF CopyPart
      <3>2. part \cup {0} \in SUBSET Nat
        BY <1>0 DEF Tree
      <3> QED
        BY <1>0, <3>1, <3>2, TreeWith
    <2>4. CASE RemoveSource(p, s, done)
      BY <1>0, <2>4, NothingTypes DEF RemoveSource
    <2>5. CASE CopyRest(p, s, t, copied)
      <3>1. PICK got \in Copies(disk[s], job[p].reads) :
              disk' = [disk EXCEPT ![t] = [disk[s] EXCEPT !.data = got]]
        BY <2>5 DEF CopyRest
      <3>2. job[p].reads \in SUBSET Nat
        BY DEF TypeOK, Job
      <3>3. got \in SUBSET Nat
        BY <1>0, <3>2, CopiesAre
      <3> QED
        BY <1>0, <3>1, <3>3, TreeWith
    <2> QED
      BY <2>1, <2>2, <2>3, <2>4, <2>5 DEF MoveStep
  <1>3. UNCHANGED <<stone, user>>
    BY DEF MoveStep, MoveDies, Rename, CopyPart, CopyRest, RemoveSource
  <1> QED
    BY <1>1, <1>2, <1>3 DEF TypeOK, user

\* A process that is at something is at a path and an entry.
PlacedInv == \A p \in Process : job[p].at # "idle" => job[p].path \in Path /\ job[p].entry \in Entry

\* What can be restored can be restored somewhere.
ReturnInv == \A e \in Entry : stone[e].state = "whole" /\ ~stone[e].restored => stone[e].path \in Path

\* The moves of trash and of restore are shutil.move, one way and the other.
LEMMA Moves ==
  ASSUME NEW p \in Process
  PROVE /\ TrashMove(p) =>
             /\ job[p].at \in {"move", "copy", "copied"}
             /\ MoveStep(p, job[p].path, job[p].entry, "copy", "copied", "rehash")
        /\ RestoreMove(p) =>
             /\ job[p].at \in {"return", "copyback", "copiedback"}
             /\ MoveStep(p, job[p].entry, job[p].path, "copyback", "copiedback", "stamp")
  BY DEF TrashMove, RestoreMove, MoveStep, At

\* Every step keeps types, and gives what it begins a place.
LEMMA TypeStep == TypeOK /\ PlacedInv /\ ReturnInv /\ [Next]_vars => TypeOK' /\ PlacedInv'
  <1> SUFFICES ASSUME TypeOK, PlacedInv, ReturnInv, [Next]_vars PROVE TypeOK' /\ PlacedInv'
    OBVIOUS
  <1>0. /\ job \in [Process -> Job] /\ stone \in [Entry -> Stone] /\ disk \in [Place -> Tree]
        /\ told \subseteq Entry /\ exposed \subseteq Nat /\ discarded \subseteq Nat
        /\ edits \in Nat /\ tampered \subseteq Entry /\ kills \in Nat
    BY DEF TypeOK
  <1>p. ASSUME NEW p \in Process,
               \/ \E l : Goto(p, l) /\ job[p].at # "idle"
               \/ \E l, v : GotoReading(p, l, v) /\ job[p].at # "idle"
               \/ End(p)
        PROVE PlacedInv'
    <2>1. \A q \in Process \ {p} : job'[q] = job[q]
      BY <1>p, GotoIs
    <2>2. \/ job'[p] = NoJob
          \/ job'[p].path = job[p].path /\ job'[p].entry = job[p].entry /\ job[p].at # "idle"
      <3>1. CASE End(p)
        BY <3>1, GotoIs
      <3>2. ASSUME NEW l, Goto(p, l), job[p].at # "idle"
            PROVE job'[p].path = job[p].path /\ job'[p].entry = job[p].entry
        BY <3>2, GotoIs
      <3>3. ASSUME NEW l, NEW v, GotoReading(p, l, v), job[p].at # "idle"
            PROVE job'[p].path = job[p].path /\ job'[p].entry = job[p].entry
        BY <3>3, GotoIs
      <3> QED
        BY <1>p, <3>1, <3>2, <3>3
    <2> QED
      BY <2>1, <2>2 DEF PlacedInv, NoJob
  <1>1. CASE UNCHANGED vars
    BY <1>1 DEF vars, TypeOK, PlacedInv
  <1>2. ASSUME NEW p \in Process, NEW x \in Path, NEW e \in Entry, TrashBegin(p, x, e)
        PROVE TypeOK' /\ PlacedInv'
    <2>1. [NoJob EXCEPT !.at = "hash", !.path = x, !.entry = e] \in Job
      BY DEF NoJob, Job, Steps, TrashSteps
    <2>2. job' \in [Process -> Job] /\ PlacedInv'
      BY <1>0, <1>2, <2>1 DEF TrashBegin, PlacedInv, NoJob
    <2>3. [stone[e] EXCEPT !.state = "made"] \in Stone
      BY <1>0 DEF Stone
    <2>4. stone' \in [Entry -> Stone]
      BY <1>0, <1>2, <2>3 DEF TrashBegin
    <2> QED
      BY <1>0, <1>2, <2>2, <2>4 DEF TrashBegin, TypeOK, user
  <1>3. ASSUME NEW p \in Process, TrashHash(p) PROVE TypeOK' /\ PlacedInv'
    <2>1. job[p].at = "hash" /\ job[p].path \in Path /\ job[p] \in Job
      BY <1>0, <1>3 DEF TrashHash, At, PlacedInv
    <2>2. disk[job[p].path].data \in SUBSET Nat
      BY <1>0, <2>1 DEF Tree, Place
    <2> DEFINE m == Manifest(disk[job[p].path])
    <2>3. m \in SUBSET Nat /\ job' = [job EXCEPT ![p].at = "move", ![p].before = m]
      BY <1>3, <2>2 DEF TrashHash, Manifest
    <2> HIDE DEF m
    <2>4. job'[p] = [job[p] EXCEPT !.at = "move", !.before = m] /\ \A q \in Process \ {p} : job'[q] = job[q]
      BY <1>0, <2>3
    <2>5. [job[p] EXCEPT !.at = "move", !.before = m] \in Job
      BY <2>1, <2>3 DEF Job, Steps, TrashSteps
    <2>6. job' \in [Process -> Job]
      BY <1>0, <2>3, <2>5
    <2>7. job'[p].path = job[p].path /\ job'[p].entry = job[p].entry
      BY <2>1, <2>4 DEF Job
    <2>8. PlacedInv'
      BY <2>1, <2>4, <2>7 DEF PlacedInv
    <2> QED
      BY <1>0, <1>3, <2>6, <2>8 DEF TrashHash, TypeOK, user
  <1>4. ASSUME NEW p \in Process, TrashMove(p) \/ RestoreMove(p) PROVE TypeOK' /\ PlacedInv'
    <2>0. job[p].at # "idle" /\ job[p].path \in Place /\ job[p].entry \in Place
      <3>1. job[p].at # "idle"
        BY <1>4, Moves
      <3> QED
        BY <3>1 DEF PlacedInv, Place
    <2>1. TypeOK'
      BY <1>4, <2>0, Moves, MoveTypes DEF Steps, TrashSteps, RestoreSteps
    <2>2. (\E l : Goto(p, l)) \/ (\E l, v : GotoReading(p, l, v)) \/ End(p)
      BY <1>4, Moves DEF MoveStep, MoveDies, Rename, CopyPart, CopyRest, RemoveSource
    <2> QED
      BY <1>p, <2>0, <2>1, <2>2
  <1>5. ASSUME NEW p \in Process, TrashRehash(p) PROVE TypeOK' /\ PlacedInv'
    <2>1. (Goto(p, "record") \/ End(p)) /\ job[p].at # "idle"
      BY <1>5 DEF TrashRehash, At
    <2>2. job' \in [Process -> Job] /\ PlacedInv'
      BY <1>p, <2>1, GotoType DEF Steps
    <2> QED
      BY <1>0, <1>5, <2>2 DEF TrashRehash, TypeOK, user
  <1>6. ASSUME NEW p \in Process, TrashOpen(p) \/ RestoreOpen(p) PROVE TypeOK' /\ PlacedInv'
    <2>1. (Goto(p, "recording") \/ Goto(p, "stamping")) /\ job[p].at # "idle"
      BY <1>6 DEF TrashOpen, RestoreOpen, At
    <2>2. job' \in [Process -> Job] /\ PlacedInv'
      BY <1>p, <2>1, GotoType DEF Steps
    <2>3. stone' = [stone EXCEPT ![job[p].entry].state = "open"] /\ job[p].entry \in Entry
      BY <1>6, <2>1 DEF TrashOpen, RestoreOpen, PlacedInv
    <2>4. [stone[job[p].entry] EXCEPT !.state = "open"] \in Stone
      BY <1>0, <2>3 DEF Stone
    <2>5. stone' \in [Entry -> Stone]
      BY <1>0, <2>3, <2>4
    <2> QED
      BY <1>0, <1>6, <2>2, <2>5 DEF TrashOpen, RestoreOpen, TypeOK, user
  <1>7. ASSUME NEW p \in Process, TrashRecord(p) PROVE TypeOK' /\ PlacedInv'
    <2>1. End(p) /\ job[p].at # "idle"
      BY <1>7 DEF TrashRecord, At
    <2>2. job' \in [Process -> Job] /\ PlacedInv'
      BY <1>p, <2>1, GotoType
    <2>3. job[p] \in Job /\ job[p].entry \in Entry /\ job[p].path \in Path
      BY <1>0, <2>1 DEF PlacedInv
    <2>4. [state |-> "whole", path |-> job[p].path, manifest |-> job[p].before, restored |-> FALSE] \in Stone
      BY <2>3 DEF Stone, Job
    <2>5. stone' \in [Entry -> Stone] /\ told' \subseteq Entry
      BY <1>0, <1>7, <2>3, <2>4 DEF TrashRecord
    <2> QED
      BY <1>0, <1>7, <2>2, <2>5 DEF TrashRecord, TypeOK
  <1>8. ASSUME NEW p \in Process, NEW e \in Entry, RestoreBegin(p, e) PROVE TypeOK' /\ PlacedInv'
    <2> DEFINE x == stone[e].path
               new == [at |-> "return", path |-> x, entry |-> e, before |-> stone[e].manifest, reads |-> {}]
    <2>0. stone[e] \in Stone /\ Return(p, e)
      BY <1>0, <1>8 DEF RestoreBegin
    <2>1. x \in Path
      <3>1. x # Nowhere
        BY <1>8, Places DEF RestoreBegin, ReturnInv
      <3> QED
        BY <2>0, <3>1 DEF Stone
    <2>2. new \in Job /\ job' = [job EXCEPT ![p] = new]
      BY <2>0, <2>1 DEF Stone, Job, Steps, RestoreSteps, Return
    <2>3. job' \in [Process -> Job] /\ PlacedInv'
      BY <1>0, <2>1, <2>2 DEF PlacedInv
    <2>4. exposed' \subseteq Nat
      <3>1. \A q \in Process : job[q].before \subseteq Nat
        BY <1>0 DEF Job
      <3>2. stone[e].manifest \subseteq Nat
        BY <2>0 DEF Stone
      <3> QED
        BY <1>0, <2>0, <3>1, <3>2 DEF Return
    <2> QED
      BY <1>0, <2>0, <2>3, <2>4 DEF Return, TypeOK
  <1>9. ASSUME NEW p \in Process, RestoreRecord(p) PROVE TypeOK' /\ PlacedInv'
    <2>1. End(p) /\ job[p].at # "idle"
      BY <1>9 DEF RestoreRecord, At
    <2>2. job' \in [Process -> Job] /\ PlacedInv'
      BY <1>p, <2>1, GotoType
    <2>3. stone' = [stone EXCEPT ![job[p].entry].state = "whole", ![job[p].entry].restored = TRUE]
      BY <1>9 DEF RestoreRecord
    <2>4. job[p].entry \in Entry
      BY <2>1 DEF PlacedInv
    <2>5. [stone[job[p].entry] EXCEPT !.state = "whole", !.restored = TRUE] \in Stone
      BY <1>0, <2>4, ZenonT(30) DEF Stone
    <2>6. stone' \in [Entry -> Stone]
      BY <1>0, <2>3, <2>4, <2>5
    <2> QED
      BY <1>0, <1>9, <2>2, <2>6 DEF RestoreRecord, TypeOK, user
  <1>10. ASSUME NEW p \in Process, Kill(p) PROVE TypeOK' /\ PlacedInv'
    <2>1. End(p) /\ job[p].at # "idle"
      BY <1>10 DEF Kill, At
    <2>2. job' \in [Process -> Job] /\ PlacedInv'
      BY <1>p, <2>1, GotoType
    <2>3. disk' \in [Place -> Tree]
      <3> DEFINE source == IF At(p, "copied") THEN job[p].path ELSE job[p].entry
      <3>1. source \in Place
        BY <2>1 DEF PlacedInv, Place
      <3>2. disk' = disk \/ \E rest \in SUBSET disk[source].data : disk' = [disk EXCEPT ![source].data = rest]
        BY <1>10 DEF Kill
      <3> HIDE DEF source
      <3>3. ASSUME NEW rest \in SUBSET disk[source].data, disk' = [disk EXCEPT ![source].data = rest]
            PROVE disk' \in [Place -> Tree]
        <4>1. rest \in SUBSET Nat
          BY <1>0, <3>1 DEF Tree
        <4>2. [disk[source] EXCEPT !.data = rest] \in Tree
          BY <1>0, <3>1, <4>1, TreeWith
        <4> QED
          BY <1>0, <3>3, <4>2
      <3> QED
        BY <1>0, <3>2, <3>3
    <2>4. kills' \in Nat
      BY <1>0, <1>10 DEF Kill
    <2> QED
      BY <1>0, <1>10, <2>2, <2>3, <2>4 DEF Kill, TypeOK
  <1>11. ASSUME NEW q \in Place, Edit(q) PROVE TypeOK' /\ PlacedInv'
    <2> DEFINE c == edits + 1
    <2>1. edits' = c
      BY <1>11, Zenon DEF Edit
    <2>c. c \in Nat
      BY <1>0
    <2>2. disk[q] \in Tree
      BY <1>0
    <2>3. disk' \in [Place -> Tree] /\ discarded' \subseteq Nat
      <3>1. CASE disk[q].dir
        <4>1. disk' = [disk EXCEPT ![q].data = disk[q].data \cup {c}] /\ discarded' = discarded
          BY <1>11, <3>1 DEF Edit
        <4>2. disk[q].data \cup {c} \in SUBSET Nat
          BY <2>c, <2>2 DEF Tree
        <4> HIDE DEF c
        <4> QED
          BY <1>0, <4>1, <4>2, TreeWith
      <3>2. CASE ~disk[q].dir
        <4>1. PICK d \in BOOLEAN :
                disk' = [disk EXCEPT ![q] = [Absent EXCEPT !.dir = d /\ ~Exists(q), !.data = {c}]]
          BY <1>11, <3>2 DEF Edit
        <4>2. discarded' = discarded \cup disk[q].data
          BY <1>11, <3>2 DEF Edit
        <4>3. [Absent EXCEPT !.dir = d /\ ~Exists(q), !.data = {c}] \in Tree
          BY <2>c DEF Absent, Tree, Exists
        <4> HIDE DEF c
        <4> QED
          BY <1>0, <2>2, <4>1, <4>2, <4>3 DEF Tree
      <3> QED
        BY <3>1, <3>2
    <2>4. exposed' \subseteq Nat /\ tampered' \subseteq Entry
      BY <1>0, <1>11, <2>c DEF Edit
    <2> QED
      BY <1>0, <1>11, <2>1, <2>c, <2>3, <2>4 DEF Edit, TypeOK, PlacedInv
  <1> QED
    BY <1>1, <1>2, <1>3, <1>4, <1>5, <1>6, <1>7, <1>8, <1>9, <1>10, <1>11 DEF Next, Step

\* What a step does to the tombstones.
LEMMA StoneMoves ==
  ASSUME TypeOK, PlacedInv, [Next]_vars, NEW e \in Entry, stone'[e] # stone[e]
  PROVE \E p \in Process :
          \/ /\ stone'[e] = [stone[e] EXCEPT !.state = "made"] /\ stone[e].state = "none"
             /\ \E x \in Path : TrashBegin(p, x, e)
          \/ /\ stone'[e] = [stone[e] EXCEPT !.state = "open"] /\ job[p].entry = e
             /\ TrashOpen(p) \/ RestoreOpen(p)
          \/ /\ stone'[e] = [state |-> "whole", path |-> job[p].path, manifest |-> job[p].before, restored |-> FALSE]
             /\ job[p].entry = e /\ TrashRecord(p)
          \/ /\ stone'[e] = [stone[e] EXCEPT !.state = "whole", !.restored = TRUE]
             /\ job[p].entry = e /\ RestoreRecord(p)
  <1>0. stone \in [Entry -> Stone]
    BY DEF TypeOK
  <1>1. stone' # stone
    OBVIOUS
  <1>2. ASSUME NEW p \in Process, NEW x \in Path, NEW d \in Entry, TrashBegin(p, x, d)
        PROVE  stone'[e] = [stone[e] EXCEPT !.state = "made"] /\ stone[e].state = "none" /\ d = e
    BY <1>0, <1>2 DEF TrashBegin
  <1>3. ASSUME NEW p \in Process, TrashOpen(p) \/ RestoreOpen(p)
        PROVE  stone'[e] = [stone[e] EXCEPT !.state = "open"] /\ job[p].entry = e
    BY <1>0, <1>3 DEF TrashOpen, RestoreOpen
  <1>4. ASSUME NEW p \in Process, TrashRecord(p)
        PROVE  /\ job[p].entry = e
               /\ stone'[e] = [state |-> "whole", path |-> job[p].path, manifest |-> job[p].before, restored |-> FALSE]
    BY <1>0, <1>4 DEF TrashRecord
  <1>5. ASSUME NEW p \in Process, RestoreRecord(p)
        PROVE  stone'[e] = [stone[e] EXCEPT !.state = "whole", !.restored = TRUE] /\ job[p].entry = e
    BY <1>0, <1>5 DEF RestoreRecord
  <1>6. ASSUME NEW p \in Process,
               \/ TrashHash(p) \/ TrashMove(p) \/ TrashRehash(p) \/ RestoreMove(p) \/ Kill(p)
               \/ \E d \in Entry : RestoreBegin(p, d)
        PROVE  FALSE
    BY <1>1, <1>6 DEF TrashHash, TrashMove, TrashRehash, RestoreMove, Kill, RestoreBegin, Return,
       MoveDies, Rename, CopyPart, CopyRest, RemoveSource
  <1>7. ASSUME NEW q \in Place, Edit(q) PROVE FALSE
    BY <1>1, <1>7 DEF Edit
  <1> QED
    BY <1>1, <1>2, <1>3, <1>4, <1>5, <1>6, <1>7 DEF Next, Step, vars

\* What becomes restorable comes from a path.
LEMMA ReturnStep == TypeOK /\ PlacedInv /\ ReturnInv /\ [Next]_vars => ReturnInv'
  <1> SUFFICES ASSUME TypeOK, PlacedInv, ReturnInv, [Next]_vars, NEW e \in Entry,
                      stone'[e].state = "whole", ~stone'[e].restored
               PROVE  stone'[e].path \in Path
    BY DEF ReturnInv
  <1>0. stone[e] \in Stone
    BY DEF TypeOK
  <1>1. CASE stone'[e] = stone[e]
    BY <1>1 DEF ReturnInv
  <1>2. CASE stone'[e] # stone[e]
    <2>1. PICK p \in Process :
            /\ stone'[e] = [state |-> "whole", path |-> job[p].path, manifest |-> job[p].before, restored |-> FALSE]
            /\ TrashRecord(p)
      <3>1. \A v \in {"made", "open"} : [stone[e] EXCEPT !.state = v].state # "whole"
        BY <1>0 DEF Stone
      <3>2. [stone[e] EXCEPT !.state = "whole", !.restored = TRUE].restored
        BY <1>0 DEF Stone
      <3> QED
        BY <1>2, <3>1, <3>2, StoneMoves
    <2> QED
      BY <2>1 DEF TrashRecord, At, PlacedInv
  <1> QED
    BY <1>1, <1>2

\* For every set of processes, paths and entries and every bound: types are kept.
THEOREM TombstoneTypes == Spec => []TypeOK
  <1>1. Init => TypeOK
    BY NothingTypes DEF Init, TypeOK
  <1>2. Init => PlacedInv /\ ReturnInv
    BY DEF Init, PlacedInv, ReturnInv, NoJob, NoStone
  <1> QED
    BY <1>1, <1>2, TypeStep, ReturnStep, PTL DEF Spec

-----------------------------------------------------------------------------
(* Who works on what.                                                      *)

Trashing == TrashSteps \cup {"rehash", "record", "recording"}
Restoring == RestoreSteps \cup {"stamp", "stamping"}
Copying == {"copy", "copied", "copyback", "copiedback"}

\* What a step makes of the job of p: it begins a trash or a restore, ends, or goes on.
Goes(p, here, there) ==
  /\ job[p].at = here /\ job'[p].at = there
  /\ job'[p].path = job[p].path /\ job'[p].entry = job[p].entry
  /\ here # "hash" => job'[p].before = job[p].before

\* A trash of p begins, or a restore, ...
Begins(p) ==
  \E x \in Path, e \in Entry :
    TrashBegin(p, x, e) /\ job'[p] = [NoJob EXCEPT !.at = "hash", !.path = x, !.entry = e]
Returns(p) ==
  \E e \in Entry :
    /\ RestoreBegin(p, e)
    /\ job'[p] = [at |-> "return", path |-> stone[e].path, entry |-> e, before |-> stone[e].manifest, reads |-> {}]

\* ... or a job of p goes on to the next step.
Proceeds(p) ==
  LET x == job[p].path
      e == job[p].entry IN
  \/ TrashHash(p) /\ Goes(p, "hash", "move")
  \/ Rename(p, x, e, "rehash") /\ Goes(p, "move", "rehash")
  \/ CopyPart(p, x, e, "copy") /\ Goes(p, "move", "copy")
  \/ CopyRest(p, x, e, "copied") /\ Goes(p, "copy", "copied")
  \/ RemoveSource(p, x, "rehash") /\ Goes(p, "copied", "rehash")
  \/ TrashRehash(p) /\ Goes(p, "rehash", "record") /\ disk[e].data = job[p].before
  \/ TrashOpen(p) /\ Goes(p, "record", "recording")
  \/ Rename(p, e, x, "stamp") /\ Goes(p, "return", "stamp")
  \/ CopyPart(p, e, x, "copyback") /\ Goes(p, "return", "copyback")
  \/ CopyRest(p, e, x, "copiedback") /\ Goes(p, "copyback", "copiedback")
  \/ RemoveSource(p, e, "stamp") /\ Goes(p, "copiedback", "stamp")
  \/ RestoreOpen(p) /\ Goes(p, "stamp", "stamping")

\* A step that changes the job of p is a step of p, which changes no other job.
LEMMA Advances ==
  ASSUME TypeOK, PlacedInv, [Next]_vars, NEW p \in Process, job'[p] # job[p]
  PROVE /\ \A q \in Process \ {p} : job'[q] = job[q]
        /\ Begins(p) \/ Returns(p) \/ Proceeds(p) \/ (job'[p] = NoJob /\ job[p].at # "idle")
  <1>0. job \in [Process -> Job] /\ job[p] \in Job
    BY DEF TypeOK
  <1>s. PICK r \in Process : Step(r)
    <2>1. ~UNCHANGED vars
      BY DEF vars
    <2>2. ASSUME NEW q \in Place, Edit(q) PROVE FALSE
      BY <2>2 DEF Edit
    <2> QED
      BY <2>1, <2>2 DEF Next
  <1>g. /\ \A l : Goto(r, l) => \A q \in Process \ {r} : job'[q] = job[q]
        /\ \A l, v : GotoReading(r, l, v) => \A q \in Process \ {r} : job'[q] = job[q]
    BY GotoIs
  <1>e. End(r) => \A q \in Process \ {r} : job'[q] = job[q]
    BY GotoIs
  <1>r. r = p /\ \A q \in Process \ {p} : job'[q] = job[q]
    <2>1. \A q \in Process \ {r} : job'[q] = job[q]
      <3>1. CASE \E x \in Path, e \in Entry : TrashBegin(r, x, e)
        BY <1>0, <3>1 DEF TrashBegin
      <3>2. CASE TrashHash(r)
        BY <1>0, <3>2 DEF TrashHash
      <3>3. CASE TrashMove(r)
        BY <1>e, <1>g, <3>3, Moves DEF MoveStep, MoveDies, Rename, CopyPart, CopyRest, RemoveSource
      <3>4. CASE RestoreMove(r)
        BY <1>e, <1>g, <3>4, Moves DEF MoveStep, MoveDies, Rename, CopyPart, CopyRest, RemoveSource
      <3>5. CASE TrashRehash(r) \/ TrashOpen(r) \/ TrashRecord(r)
        BY <1>e, <1>g, <3>5 DEF TrashRehash, TrashOpen, TrashRecord
      <3>6. CASE \E e \in Entry : RestoreBegin(r, e)
        BY <1>0, <3>6 DEF RestoreBegin, Return
      <3>7. CASE RestoreOpen(r) \/ RestoreRecord(r) \/ Kill(r)
        BY <1>e, <1>g, <3>7 DEF RestoreOpen, RestoreRecord, Kill
      <3> QED
        BY <1>s, <3>1, <3>2, <3>3, <3>4, <3>5, <3>6, <3>7 DEF Step
    <2> QED
      BY <2>1
  <1>n. \A here, there : job[p].at = here /\ Goto(p, there) => Goes(p, here, there)
    BY GotoIs DEF Goes
  <1>v. \A here, there, v : job[p].at = here /\ GotoReading(p, there, v) => Goes(p, here, there)
    BY GotoIs DEF Goes
  <1>d. End(p) => job'[p] = NoJob
    BY GotoIs
  <1>1. CASE \E x \in Path, e \in Entry : TrashBegin(p, x, e)
    <2>1. PICK x \in Path, e \in Entry : TrashBegin(p, x, e)
      BY <1>1
    <2>2. job'[p] = [NoJob EXCEPT !.at = "hash", !.path = x, !.entry = e]
      BY <1>0, <2>1 DEF TrashBegin
    <2> QED
      BY <1>r, <2>1, <2>2 DEF Begins
  <1>2. CASE TrashHash(p)
    <2>1. job'[p] = [job[p] EXCEPT !.at = "move", !.before = Manifest(disk[job[p].path])]
      BY <1>0, <1>2 DEF TrashHash
    <2>2. Goes(p, "hash", "move")
      BY <1>0, <1>2, <2>1 DEF Goes, TrashHash, At, Job
    <2> QED
      BY <1>r, <1>2, <2>2 DEF Proceeds
  <1>m. \A q, t, l : /\ MoveDies(p, q, t) => End(p)
                     /\ Rename(p, q, t, l) \/ RemoveSource(p, q, l) => Goto(p, l)
                     /\ CopyPart(p, q, t, l) => GotoReading(p, l, disk[q].data)
                     /\ CopyRest(p, q, t, l) => GotoReading(p, l, {})
    BY DEF MoveDies, Rename, CopyPart, CopyRest, RemoveSource
  <1>3. CASE TrashMove(p)
    BY <1>3, <1>r, <1>n, <1>v, <1>d, <1>m DEF TrashMove, At, Proceeds
  <1>4. CASE RestoreMove(p)
    BY <1>4, <1>r, <1>n, <1>v, <1>d, <1>m DEF RestoreMove, At, Proceeds
  <1>5. CASE TrashRehash(p) \/ TrashOpen(p) \/ TrashRecord(p)
    BY <1>5, <1>r, <1>n, <1>d DEF TrashRehash, TrashOpen, TrashRecord, At, Manifest, Proceeds
  <1>6. CASE \E e \in Entry : RestoreBegin(p, e)
    <2>1. PICK e \in Entry : RestoreBegin(p, e)
      BY <1>6
    <2>2. job'[p] = [at |-> "return", path |-> stone[e].path, entry |-> e, before |-> stone[e].manifest, reads |-> {}]
      BY <1>0, <2>1 DEF RestoreBegin, Return
    <2> QED
      BY <1>r, <2>1, <2>2 DEF Returns
  <1>7. CASE RestoreOpen(p) \/ RestoreRecord(p) \/ Kill(p)
    BY <1>7, <1>r, <1>n, <1>d DEF RestoreOpen, RestoreRecord, Kill, At, Proceeds
  <1> QED
    BY <1>s, <1>r, <1>1, <1>2, <1>3, <1>4, <1>5, <1>6, <1>7 DEF Step

\* Where a job that changes is.
LEMMA Goings ==
  ASSUME NEW p \in Process
  PROVE /\ Begins(p) => job'[p].at = "hash"
        /\ Returns(p) => job'[p].at = "return"
        /\ Proceeds(p) => /\ job'[p].path = job[p].path /\ job'[p].entry = job[p].entry
                          /\ job'[p].at \notin {"idle", "hash", "return"}
  <1>1. ASSUME NEW x, NEW e, job'[p] = [NoJob EXCEPT !.at = "hash", !.path = x, !.entry = e]
        PROVE job'[p].at = "hash"
    BY <1>1 DEF NoJob
  <1>2. Begins(p) => job'[p].at = "hash"
    BY <1>1 DEF Begins
  <1>3. Returns(p) => job'[p].at = "return"
    BY DEF Returns
  <1>4. Proceeds(p) => /\ job'[p].path = job[p].path /\ job'[p].entry = job[p].entry
                       /\ job'[p].at \notin {"idle", "hash", "return"}
    BY DEF Proceeds, Goes
  <1> QED
    BY <1>2, <1>3, <1>4

\* An entry that has not been made is nobody's.
Unmade(e) ==
  stone[e].state = "none" =>
    /\ ~stone[e].restored /\ e \notin told
    /\ \A p \in Process : job[p].entry # e

\* A trash has its entry for itself; a restore has the path and the manifest of its
\* entry; and the path of a copy is that of no other job.
Owns(p) ==
  /\ job[p].at = "idle" => job[p] = NoJob
  /\ job[p].at \in Copying => job[p].path \in Elsewhere
  /\ job[p].at \in Trashing =>
       /\ stone[job[p].entry].state = (IF job[p].at = "recording" THEN "open" ELSE "made")
       /\ ~stone[job[p].entry].restored /\ job[p].entry \notin told
       /\ \A q \in Process \ {p} : job[q].entry # job[p].entry
  /\ job[p].at \in Restoring =>
       /\ stone[job[p].entry].state \in {"open", "whole"}
       /\ stone[job[p].entry].path = job[p].path
       /\ stone[job[p].entry].manifest = job[p].before
  /\ job[p].path \in Elsewhere => \A q \in Process \ {p} : job[q].path # job[p].path

OwnInv == (\A e \in Entry : Unmade(e)) /\ \A p \in Process : Owns(p)

\* The entry another process comes to is made for it or whole, and its path, if it is
\* on another file system, no other job's.
LEMMA Comes ==
  ASSUME TypeOK, PlacedInv, [Next]_vars, NEW p \in Process
  PROVE /\ job'[p].entry \in Entry /\ job'[p].entry # job[p].entry =>
             \/ stone[job'[p].entry].state = "none" /\ job'[p].at = "hash"
             \/ stone[job'[p].entry].state = "whole" /\ job'[p].at = "return"
        /\ job'[p].path \in Elsewhere /\ job'[p].path # job[p].path =>
             \A q \in Process \ {p} : job[q].path # job'[p].path
  <1>1. CASE job'[p] = job[p]
    BY <1>1
  <1>2. ASSUME NEW x \in Path, NEW e \in Entry, TrashBegin(p, x, e),
               job'[p] = [NoJob EXCEPT !.at = "hash", !.path = x, !.entry = e]
        PROVE /\ stone[job'[p].entry].state = "none" /\ job'[p].at = "hash"
              /\ job'[p].path \in Elsewhere => \A q \in Process \ {p} : job[q].path # job'[p].path
    <2>1. job'[p].path = x /\ job'[p].entry = e /\ job'[p].at = "hash"
      BY <1>2 DEF NoJob
    <2> QED
      BY <1>2, <2>1 DEF TrashBegin, Reserved
  <1>3. ASSUME NEW e \in Entry, RestoreBegin(p, e),
               job'[p] = [at |-> "return", path |-> stone[e].path, entry |-> e, before |-> stone[e].manifest, reads |-> {}]
        PROVE /\ stone[job'[p].entry].state = "whole" /\ job'[p].at = "return"
              /\ job'[p].path \in Elsewhere => \A q \in Process \ {p} : job[q].path # job'[p].path
    BY <1>3 DEF RestoreBegin, Reserved
  <1>4. CASE job'[p] = NoJob
    BY <1>4, Places DEF NoJob
  <1>5. CASE Proceeds(p)
    BY <1>5, Goings
  <1>6. CASE Begins(p)
    BY <1>2, <1>6 DEF Begins
  <1>7. CASE Returns(p)
    BY <1>3, <1>7 DEF Returns
  <1> QED
    BY <1>1, <1>4, <1>5, <1>6, <1>7, Advances

\* A trash that is recorded reports its entry, and the user writes; nobody else does.
LEMMA ToldMoves ==
  ASSUME [Next]_vars
  PROVE /\ told' = told \/ \E p \in Process : TrashRecord(p) /\ told' = told \cup {job[p].entry}
        /\ edits' = edits \/ \E q \in Place : Edit(q)
  <1>1. ASSUME NEW p \in Process,
               \/ \E x \in Path, e \in Entry : TrashBegin(p, x, e)
               \/ \E e \in Entry : RestoreBegin(p, e)
        PROVE UNCHANGED <<told, edits>>
    BY <1>1 DEF TrashBegin, RestoreBegin, Return, user
  <1>2. ASSUME NEW p \in Process, TrashMove(p) \/ RestoreMove(p)
        PROVE UNCHANGED <<told, edits>>
    BY <1>2 DEF TrashMove, RestoreMove, MoveDies, Rename, CopyPart, CopyRest, RemoveSource, user
  <1>3. ASSUME NEW p \in Process,
               TrashHash(p) \/ TrashRehash(p) \/ TrashOpen(p) \/ RestoreOpen(p) \/ RestoreRecord(p) \/ Kill(p)
        PROVE UNCHANGED <<told, edits>>
    BY <1>3 DEF TrashHash, TrashRehash, TrashOpen, RestoreOpen, RestoreRecord, Kill, user
  <1>4. ASSUME NEW p \in Process, TrashRecord(p)
        PROVE told' = told \cup {job[p].entry} /\ edits' = edits
    BY <1>4 DEF TrashRecord
  <1>5. ASSUME NEW q \in Place, Edit(q) PROVE told' = told
    BY <1>5 DEF Edit
  <1>6. CASE UNCHANGED vars
    BY <1>6 DEF vars
  <1> QED
    BY <1>1, <1>2, <1>3, <1>4, <1>5, <1>6 DEF Next, Step

\* A process that keeps its job keeps what it owns.
LEMMA OwnsStill ==
  ASSUME TypeOK, PlacedInv, OwnInv, [Next]_vars, NEW p \in Process, job'[p] = job[p]
  PROVE Owns(p)'
  <1>0. Owns(p) /\ job[p] \in Job
    BY DEF OwnInv, TypeOK
  <1>1. CASE job[p].at \in Trashing
    <2> DEFINE e == job[p].entry
    <2>0. /\ e \in Entry /\ stone[e] \in Stone /\ stone[e].state \in {"made", "open"} /\ e \notin told
          /\ \A q \in Process \ {p} : job[q].entry # e
      BY <1>0, <1>1 DEF PlacedInv, Owns, TypeOK, Trashing, TrashSteps
    <2>1. \A q \in Process \ {p} : job'[q].entry # e
      BY <2>0, Comes
    <2>2. \A q \in Process : q # p => ~(job[q].entry = e)
      BY <2>0
    <2>3. ~TrashOpen(p) /\ ~RestoreOpen(p) /\ ~TrashRecord(p) /\ ~RestoreRecord(p)
      <3>1. \A l : Goto(p, l) => job[p].at = l
        BY GotoIs
      <3>2. End(p) => job[p] = NoJob
        BY GotoIs
      <3> QED
        BY <3>1, <3>2 DEF TrashOpen, RestoreOpen, TrashRecord, RestoreRecord, At, NoJob
    <2>4. stone'[e] = stone[e]
      BY <2>0, <2>2, <2>3, StoneMoves
    <2>5. e \notin told'
      <3>1. told' = told \/ \E q \in Process : TrashRecord(q) /\ told' = told \cup {job[q].entry}
        BY ToldMoves
      <3> QED
        BY <2>0, <2>2, <2>3, <3>1
    <2>6. p \in Process /\ job[p].at \notin Restoring /\ job[p].at # "idle"
      BY <1>1 DEF Trashing, Restoring, TrashSteps, RestoreSteps
    <2>7. job[p].path \in Elsewhere => \A q \in Process \ {p} : job'[q].path # job[p].path
      BY <1>0, Comes DEF Owns
    <2> QED
      BY <1>0, <2>1, <2>4, <2>5, <2>6, <2>7 DEF Owns
  <1>2. CASE job[p].at \in Restoring
    <2> DEFINE e == job[p].entry
    <2>0. /\ e \in Entry /\ stone[e] \in Stone /\ stone[e].state \in {"open", "whole"}
          /\ stone[e].path = job[p].path /\ stone[e].manifest = job[p].before
      BY <1>0, <1>2 DEF PlacedInv, Owns, TypeOK, Restoring, RestoreSteps
    <2>1. \A q \in Process : job[q].entry = e /\ job[q].at \in Trashing => FALSE
      <3> SUFFICES ASSUME NEW q \in Process, job[q].entry = e, job[q].at \in Trashing PROVE FALSE
        OBVIOUS
      <3>1. q # p
        BY <1>2 DEF Trashing, Restoring, TrashSteps, RestoreSteps
      <3> QED
        BY <3>1 DEF OwnInv, Owns
    <2>2. ~\E q \in Process : TrashRecord(q) /\ job[q].entry = e
      BY <2>1 DEF TrashRecord, At, Trashing
    <2>3. \/ stone'[e] = stone[e]
          \/ stone'[e] = [stone[e] EXCEPT !.state = "open"]
          \/ stone'[e] = [stone[e] EXCEPT !.state = "whole", !.restored = TRUE]
      BY <2>0, <2>2, StoneMoves
    <2>4. /\ stone'[e].state \in {"open", "whole"} /\ stone'[e].path = job[p].path
          /\ stone'[e].manifest = job[p].before
      BY <2>0, <2>3 DEF Stone
    <2>6. job[p].at \notin Trashing /\ job[p].at # "idle"
      BY <1>2 DEF Trashing, Restoring, TrashSteps, RestoreSteps
    <2>7. job[p].path \in Elsewhere => \A q \in Process \ {p} : job'[q].path # job[p].path
      BY <1>0, Comes DEF Owns
    <2> QED
      BY <1>0, <2>4, <2>6, <2>7 DEF Owns
  <1>3. CASE job[p].at \notin Trashing \cup Restoring
    <2>1. job[p] = NoJob
      BY <1>0, <1>3 DEF Job, Steps, Trashing, Restoring, Owns
    <2> QED
      BY <1>3, <2>1, Places DEF Owns, NoJob, Copying
  <1> QED
    BY <1>1, <1>2, <1>3

\* A process that goes on owns what it owned, and what it begins with.
LEMMA OwnsNext ==
  ASSUME TypeOK, PlacedInv, OwnInv, [Next]_vars, NEW p \in Process, job'[p] # job[p]
  PROVE Owns(p)'
  <1>0. /\ Owns(p) /\ \A q \in Process \ {p} : job'[q] = job[q]
        /\ stone \in [Entry -> Stone] /\ job[p] \in Job
    BY Advances DEF OwnInv, TypeOK
  <1>1. ASSUME NEW x \in Path, NEW e \in Entry, TrashBegin(p, x, e),
               job'[p] = [NoJob EXCEPT !.at = "hash", !.path = x, !.entry = e]
        PROVE Owns(p)'
    <2>1. job'[p].at = "hash" /\ job'[p].path = x /\ job'[p].entry = e
      BY <1>1 DEF NoJob
    <2>2. stone'[e] = [stone[e] EXCEPT !.state = "made"] /\ told' = told /\ stone[e].state = "none"
      BY <1>0, <1>1 DEF TrashBegin, user
    <2>3. stone'[e].state = "made" /\ stone'[e].restored = stone[e].restored
      BY <1>0, <2>2 DEF Stone
    <2>4. ~stone[e].restored /\ e \notin told /\ \A q \in Process : job[q].entry # e
      BY <2>2 DEF OwnInv, Unmade
    <2>5. x \in Elsewhere => \A q \in Process \ {p} : job[q].path # x
      BY <1>1 DEF TrashBegin, Reserved
    <2> QED
      BY <1>0, <2>1, <2>2, <2>3, <2>4, <2>5 DEF Owns, Copying, Restoring, RestoreSteps
  <1>2. ASSUME NEW e \in Entry, RestoreBegin(p, e),
               job'[p] = [at |-> "return", path |-> stone[e].path, entry |-> e, before |-> stone[e].manifest, reads |-> {}]
        PROVE Owns(p)'
    <2>1. stone' = stone /\ stone[e].state = "whole"
      BY <1>2 DEF RestoreBegin, Return
    <2>2. stone[e].path \in Elsewhere => \A q \in Process \ {p} : job[q].path # stone[e].path
      BY <1>2 DEF RestoreBegin, Reserved
    <2> QED
      BY <1>0, <1>2, <2>1, <2>2 DEF Owns, Copying, Trashing, TrashSteps
  <1>3. CASE job'[p] = NoJob
    BY <1>3, Places DEF Owns, NoJob, Copying, Trashing, TrashSteps, Restoring, RestoreSteps
  <1>4. ASSUME NEW here \in Trashing \ {"recording"}, NEW there \in Trashing \ {"recording"}, Goes(p, here, there),
               stone' = stone, told' = told, there \in Copying => job[p].path \in Elsewhere
        PROVE Owns(p)'
    BY <1>0, <1>4 DEF Goes, Owns, Trashing, Restoring, TrashSteps, RestoreSteps
  <1>5. ASSUME NEW here \in Restoring, NEW there \in Restoring, Goes(p, here, there),
               stone' = stone, there \in Copying => job[p].path \in Elsewhere
        PROVE Owns(p)'
    BY <1>0, <1>5 DEF Goes, Owns, Trashing, Restoring, TrashSteps, RestoreSteps
  <1>6. CASE TrashHash(p) /\ Goes(p, "hash", "move")
    BY <1>4, <1>6 DEF TrashHash, user, Trashing, TrashSteps, Copying
  <1>c. /\ job[p].at \in {"move", "return"} => job[p].path \in Path /\ job[p].entry \in Entry
        /\ job[p].path \in Path /\ job[p].entry \in Entry =>
             (job[p].path \in Elsewhere <=> {job[p].path, job[p].entry} \cap Elsewhere # {})
    BY Places DEF PlacedInv
  <1>7. ASSUME \/ Rename(p, job[p].path, job[p].entry, "rehash") /\ Goes(p, "move", "rehash")
               \/ CopyPart(p, job[p].path, job[p].entry, "copy") /\ Goes(p, "move", "copy")
               \/ CopyRest(p, job[p].path, job[p].entry, "copied") /\ Goes(p, "copy", "copied")
               \/ RemoveSource(p, job[p].path, "rehash") /\ Goes(p, "copied", "rehash")
        PROVE Owns(p)'
    <2>1. PICK here \in {"move", "copy", "copied"}, there \in {"rehash", "copy", "copied"} :
            /\ Goes(p, here, there) /\ (here = "move" /\ there = "copy" => {job[p].path, job[p].entry} \cap Elsewhere # {})
            /\ here = "move" /\ there = "copied" => FALSE
      BY <1>7 DEF CopyPart
    <2>2. there \in Copying => job[p].path \in Elsewhere
      BY <1>0, <1>c, <2>1 DEF Goes, Owns, Copying
    <2>3. stone' = stone /\ told' = told
      BY <1>7 DEF Rename, CopyPart, CopyRest, RemoveSource, user
    <2> QED
      BY <1>4, <2>1, <2>2, <2>3 DEF Trashing, TrashSteps
  <1>8. CASE TrashRehash(p) /\ Goes(p, "rehash", "record")
    BY <1>4, <1>8 DEF TrashRehash, user, Trashing, Copying
  <1>9. CASE TrashOpen(p) /\ Goes(p, "record", "recording")
    <2>1. job[p].entry \in Entry /\ stone' = [stone EXCEPT ![job[p].entry].state = "open"] /\ told' = told
      BY <1>9 DEF TrashOpen, At, PlacedInv, user
    <2>2. stone'[job[p].entry].state = "open" /\ stone'[job[p].entry].restored = stone[job[p].entry].restored
      BY <1>0, <2>1 DEF Stone
    <2> QED
      BY <1>0, <1>9, <2>1, <2>2 DEF Goes, Owns, Trashing, Restoring, RestoreSteps, Copying
  <1>10. ASSUME \/ Rename(p, job[p].entry, job[p].path, "stamp") /\ Goes(p, "return", "stamp")
                \/ CopyPart(p, job[p].entry, job[p].path, "copyback") /\ Goes(p, "return", "copyback")
                \/ CopyRest(p, job[p].entry, job[p].path, "copiedback") /\ Goes(p, "copyback", "copiedback")
                \/ RemoveSource(p, job[p].entry, "stamp") /\ Goes(p, "copiedback", "stamp")
         PROVE Owns(p)'
    <2>1. PICK here \in {"return", "copyback", "copiedback"}, there \in {"stamp", "copyback", "copiedback"} :
            /\ Goes(p, here, there) /\ (here = "return" /\ there = "copyback" => {job[p].path, job[p].entry} \cap Elsewhere # {})
            /\ here = "return" /\ there = "copiedback" => FALSE
      BY <1>10 DEF CopyPart
    <2>2. there \in Copying => job[p].path \in Elsewhere
      BY <1>0, <1>c, <2>1 DEF Goes, Owns, Copying
    <2>3. stone' = stone
      BY <1>10 DEF Rename, CopyPart, CopyRest, RemoveSource
    <2> QED
      BY <1>5, <2>1, <2>2, <2>3 DEF Restoring, RestoreSteps
  <1>11. CASE RestoreOpen(p) /\ Goes(p, "stamp", "stamping")
    <2>1. job[p].entry \in Entry /\ stone' = [stone EXCEPT ![job[p].entry].state = "open"]
      BY <1>11 DEF RestoreOpen, At, PlacedInv
    <2>2. /\ stone'[job[p].entry].state = "open" /\ stone'[job[p].entry].path = stone[job[p].entry].path
          /\ stone'[job[p].entry].manifest = stone[job[p].entry].manifest
      BY <1>0, <2>1 DEF Stone
    <2> QED
      BY <1>0, <1>11, <2>1, <2>2 DEF Goes, Owns, Trashing, TrashSteps, Restoring, Copying
  <1>12. CASE Proceeds(p)
    BY <1>6, <1>7, <1>8, <1>9, <1>10, <1>11, <1>12 DEF Proceeds
  <1>13. CASE Begins(p)
    BY <1>1, <1>13 DEF Begins
  <1>14. CASE Returns(p)
    BY <1>2, <1>14 DEF Returns
  <1> QED
    BY <1>3, <1>12, <1>13, <1>14, Advances

\* An entry that is not made was not made before either.
LEMMA StillNone ==
  ASSUME TypeOK, PlacedInv, [Next]_vars, NEW e \in Entry, stone'[e].state = "none"
  PROVE stone'[e] = stone[e]
  <1>0. stone[e] \in Stone
    BY DEF TypeOK
  <1>1. ASSUME stone'[e] # stone[e] PROVE FALSE
    <2>1. PICK p \in Process :
            \/ stone'[e] = [stone[e] EXCEPT !.state = "made"]
            \/ stone'[e] = [stone[e] EXCEPT !.state = "open"]
            \/ stone'[e] = [state |-> "whole", path |-> job[p].path, manifest |-> job[p].before, restored |-> FALSE]
            \/ stone'[e] = [stone[e] EXCEPT !.state = "whole", !.restored = TRUE]
      BY <1>1, StoneMoves
    <2>2. /\ [stone[e] EXCEPT !.state = "made"].state = "made"
          /\ [stone[e] EXCEPT !.state = "open"].state = "open"
          /\ [stone[e] EXCEPT !.state = "whole", !.restored = TRUE].state = "whole"
      BY <1>0 DEF Stone
    <2>3. CASE stone'[e] = [stone[e] EXCEPT !.state = "made"]
      BY <2>2, <2>3
    <2>4. CASE stone'[e] = [stone[e] EXCEPT !.state = "open"]
      BY <2>2, <2>4
    <2>5. CASE stone'[e] = [state |-> "whole", path |-> job[p].path, manifest |-> job[p].before, restored |-> FALSE]
      BY <2>5
    <2>6. CASE stone'[e] = [stone[e] EXCEPT !.state = "whole", !.restored = TRUE]
      BY <2>2, <2>6
    <2> QED
      BY <2>1, <2>3, <2>4, <2>5, <2>6
  <1> QED
    BY <1>1

\* Every step leaves everybody what is theirs.
LEMMA OwnStep == TypeOK /\ PlacedInv /\ OwnInv /\ [Next]_vars => OwnInv'
  <1> SUFFICES ASSUME TypeOK, PlacedInv, OwnInv, [Next]_vars PROVE OwnInv'
    OBVIOUS
  <1>1. ASSUME NEW e \in Entry, stone'[e].state = "none"
        PROVE ~stone'[e].restored /\ e \notin told' /\ \A p \in Process : job'[p].entry # e
    <2>0. stone[e] \in Stone
      BY DEF TypeOK
    <2>1. stone'[e] = stone[e]
      BY <1>1, StillNone
    <2>2. ~stone[e].restored /\ e \notin told /\ \A p \in Process : job[p].entry # e
      BY <1>1, <2>1 DEF OwnInv, Unmade
    <2>3. ASSUME NEW p \in Process, job'[p].entry = e PROVE FALSE
      <3>0. job[p].entry # e /\ stone[e].state = "none"
        BY <1>1, <2>1, <2>2
      <3>1. job'[p].at = "hash" /\ job'[p] # job[p]
        <4>1. job'[p].entry \in Entry /\ job'[p].entry # job[p].entry
          BY <2>3, <3>0
        <4>2. job'[p].at = "hash"
          BY <2>3, <3>0, <4>1, Comes
        <4> QED
          BY <4>1, <4>2
      <3>2. PICK x \in Path, d \in Entry :
              TrashBegin(p, x, d) /\ job'[p] = [NoJob EXCEPT !.at = "hash", !.path = x, !.entry = d]
        <4>1. Begins(p)
          BY <3>1, Goings, Advances DEF NoJob
        <4> QED
          BY <4>1 DEF Begins
      <3>3. d = e /\ stone'[e] = [stone[e] EXCEPT !.state = "made"]
        BY <2>3, <3>2 DEF NoJob, TrashBegin, TypeOK
      <3> QED
        BY <1>1, <2>0, <3>3 DEF Stone
    <2>4. told' = told \/ \E q \in Process : told' = told \cup {job[q].entry}
      BY ToldMoves
    <2> QED
      BY <2>1, <2>2, <2>3, <2>4
  <1>2. ASSUME NEW p \in Process PROVE Owns(p)'
    BY OwnsStill, OwnsNext
  <1> QED
    BY <1>1, <1>2 DEF OwnInv, Unmade

-----------------------------------------------------------------------------
(* What changes on the disk.                                               *)

\* The places of a process at work.
LEMMA PlacesOf ==
  ASSUME PlacedInv, NEW p \in Process, job[p].at # "idle"
  PROVE /\ job[p].path \in Place /\ job[p].entry \in Place /\ job[p].path # job[p].entry
        /\ job[p].entry \notin Elsewhere
        /\ job[p].path \notin Entry /\ job[p].entry \notin Path
  BY Places DEF PlacedInv, Place

\* What a rename leaves at the two places, and what it leaves alone.
LEMMA RenameIs ==
  ASSUME TypeOK, NEW p \in Process, NEW s \in Place, NEW t \in Place, s # t, NEW l, Rename(p, s, t, l)
  PROVE /\ disk'[s] = Absent /\ disk'[t] = Moved(disk[s], disk[t]) /\ disk[s] # Absent
        /\ s \notin Elsewhere /\ t \notin Elsewhere
        /\ \A q \in Place \ {s, t} : disk'[q] = disk[q]
        /\ disk[s].data \subseteq disk'[t].data
        /\ disk'[t].data \subseteq disk[s].data \cup disk[t].data
        /\ disk'[t].data = disk[s].data \/ disk'[t].data = disk[t].data \cup disk[s].data
  <1>0. disk \in [Place -> Tree] /\ disk[s] \in Tree /\ disk[t] \in Tree
    BY DEF TypeOK
  <1>1. disk' = [disk EXCEPT ![t] = Moved(disk[s], disk[t]), ![s] = Absent]
    BY DEF Rename
  <1>2. disk'[s] = Absent /\ disk'[t] = Moved(disk[s], disk[t])
        /\ \A q \in Place \ {s, t} : disk'[q] = disk[q]
    BY <1>0, <1>1
  <1>3. disk[s] # Absent /\ s \notin Elsewhere /\ t \notin Elsewhere
    BY DEF Rename, MoveFails
  <1>4. disk[t].dir => disk'[t].data = disk[t].data \cup disk[s].data
    BY <1>0, <1>2, MovedType
  <1>5. ~disk[t].dir => disk'[t] = disk[s]
    BY <1>0, <1>2, MovedType
  <1>6. disk'[t].data = disk[s].data \/ disk'[t].data = disk[t].data \cup disk[s].data
    BY <1>4, <1>5
  <1> QED
    BY <1>2, <1>3, <1>6

\* What a copy in part leaves at the target.
LEMMA CopyIs ==
  ASSUME TypeOK, NEW p \in Process, NEW s \in Place, NEW t \in Place, s # t, NEW l, CopyPart(p, s, t, l)
  PROVE /\ disk'[t].data \subseteq disk[s].data \cup {0} /\ disk[s] # Absent
        /\ {s, t} \cap Elsewhere # {}
        /\ \A q \in Place \ {t} : disk'[q] = disk[q]
        /\ job'[p].reads = disk[s].data
  <1>0. disk \in [Place -> Tree] /\ disk[s] \in Tree
    BY DEF TypeOK
  <1>1. PICK part \in SUBSET disk[s].data :
          disk' = [disk EXCEPT ![t] = [disk[s] EXCEPT !.data = part \cup {0}]]
    BY DEF CopyPart
  <1>2. part \cup {0} \in SUBSET Nat
    BY <1>0 DEF Tree
  <1>3. disk'[t] = [disk[s] EXCEPT !.data = part \cup {0}] /\ \A q \in Place \ {t} : disk'[q] = disk[q]
    BY <1>0, <1>1
  <1>4. disk'[t].data = part \cup {0}
    BY <1>0, <1>2, <1>3, TreeWith
  <1>5. disk[s] # Absent /\ {s, t} \cap Elsewhere # {}
    BY DEF CopyPart, MoveFails
  <1>6. job'[p].reads = disk[s].data
    BY GotoIs DEF CopyPart
  <1> QED
    BY <1>3, <1>4, <1>5, <1>6

\* What the rest of a copy leaves at the target.
LEMMA CopyRestIs ==
  ASSUME TypeOK, NEW p \in Process, NEW s \in Place, NEW t \in Place, s # t, NEW l, CopyRest(p, s, t, l)
  PROVE /\ disk'[t].data \in Copies(disk[s], job[p].reads)
        /\ \A q \in Place \ {t} : disk'[q] = disk[q]
        /\ job[p].reads \subseteq disk'[t].data \/ (~disk[s].dir /\ disk[s].data # job[p].reads)
        /\ disk[s].data = job[p].reads => disk'[t].data = disk[s].data
  <1>0. disk \in [Place -> Tree] /\ disk[s] \in Tree /\ job[p].reads \in SUBSET Nat
    BY DEF TypeOK, Job
  <1>1. PICK got \in Copies(disk[s], job[p].reads) :
          disk' = [disk EXCEPT ![t] = [disk[s] EXCEPT !.data = got]]
    BY DEF CopyRest
  <1>2. /\ got \in SUBSET Nat
        /\ job[p].reads \subseteq got \/ (~disk[s].dir /\ disk[s].data # job[p].reads)
        /\ disk[s].data = job[p].reads => got = job[p].reads
    BY <1>0, CopiesAre
  <1>3. disk'[t] = [disk[s] EXCEPT !.data = got] /\ \A q \in Place \ {t} : disk'[q] = disk[q]
    BY <1>0, <1>1
  <1>4. disk'[t].data = got
    BY <1>0, <1>2, <1>3, TreeWith
  <1> QED
    BY <1>2, <1>3, <1>4

\* What r makes of the place q, as one end of its move.
Changes(r, q) ==
  /\ job[r].at # "idle" /\ job'[r] # job[r]
  /\ \/ job[r].at = "move" /\ q = job[r].entry
     \/ /\ job[r].at = "move" /\ q = job[r].path
        /\ Rename(r, job[r].path, job[r].entry, "rehash")
     \/ /\ job[r].at = "copy" /\ q = job[r].entry
        /\ CopyRest(r, job[r].path, job[r].entry, "copied")
     \/ /\ job[r].at = "copied" /\ q = job[r].path /\ disk'[job[r].entry] = disk[job[r].entry]
     \/ /\ job[r].at = "return" /\ q = job[r].entry
        /\ Rename(r, job[r].entry, job[r].path, "stamp")
     \/ /\ job[r].at = "return" /\ q = job[r].path
        /\ job[r].path \in Elsewhere \/ Rename(r, job[r].entry, job[r].path, "stamp")
     \/ /\ job[r].at = "copyback" /\ q = job[r].path
        /\ CopyRest(r, job[r].entry, job[r].path, "copiedback")
     \/ /\ job[r].at = "copiedback" /\ q = job[r].entry
        /\ disk'[job[r].path] = disk[job[r].path] /\ disk[q] # Absent

\* What changes at a place is the user's edit, or one end of a move.
LEMMA DiskMoves ==
  ASSUME TypeOK, PlacedInv, [Next]_vars, NEW q \in Place, disk'[q] # disk[q]
  PROVE Edit(q) \/ \E r \in Process : Changes(r, q)
  <1>0. disk \in [Place -> Tree] /\ job \in [Process -> Job]
    BY DEF TypeOK
  <1>1. disk' # disk
    OBVIOUS
  <1> SUFFICES ASSUME ~Edit(q) PROVE \E r \in Process : Changes(r, q)
    OBVIOUS
  <1>2. ASSUME NEW u \in Place, Edit(u) PROVE Edit(q)
    <2>1. q = u
      BY <1>0, <1>2 DEF Edit
    <2> QED
      BY <1>2, <2>1
  <1>3. PICK r \in Process : Step(r)
    BY <1>1, <1>2 DEF Next, vars
  <1>m. ASSUME NEW l, Goto(r, l) \/ \E v : GotoReading(r, l, v), job[r].at # l PROVE job'[r] # job[r]
    <2>1. Goto(r, l) => job'[r].at = l
      BY GotoIs
    <2>2. \A v : GotoReading(r, l, v) => job'[r].at = l
      BY GotoIs
    <2> QED
      BY <1>m, <2>1, <2>2
  <1>e. End(r) /\ job[r].at # "idle" => job'[r] # job[r]
    BY GotoIs DEF NoJob
  <1>4. CASE TrashMove(r)
    <2> DEFINE x == job[r].path  e == job[r].entry
    <2>0. /\ job[r].at \in {"move", "copy", "copied"} /\ job[r].at # "idle"
          /\ x \in Place /\ e \in Place /\ x # e
      <3>1. job[r].at \in {"move", "copy", "copied"} /\ job[r].at # "idle"
        BY <1>4, Moves
      <3> QED
        BY <3>1, PlacesOf
    <2>1. CASE At(r, "move") /\ Rename(r, x, e, "rehash")
      <3>1. q \in {x, e} /\ job'[r] # job[r]
        <4>1. q \in {x, e}
          BY <2>0, <2>1, RenameIs
        <4>2. job'[r] # job[r]
          BY <2>1, <1>m DEF Rename, At
        <4> QED
          BY <4>1, <4>2
      <3> QED
        BY <2>0, <2>1, <3>1 DEF At, Changes
    <2>2. CASE At(r, "move") /\ CopyPart(r, x, e, "copy")
      <3>1. q = e
        BY <2>0, <2>2, CopyIs
      <3>2. job'[r] # job[r]
        BY <2>2, <1>m DEF CopyPart, At
      <3> QED
        BY <2>0, <2>2, <3>1, <3>2 DEF At, Changes
    <2>3. CASE At(r, "copy") /\ CopyRest(r, x, e, "copied")
      <3>1. q = e /\ job'[r] # job[r]
        <4>1. q = e
          BY <2>0, <2>3, CopyRestIs
        <4>2. job'[r] # job[r]
          BY <2>3, <1>m DEF CopyRest, At
        <4> QED
          BY <4>1, <4>2
      <3> QED
        BY <2>0, <2>3, <3>1 DEF At, Changes
    <2>4. CASE At(r, "copied") /\ RemoveSource(r, x, "rehash")
      <3>1. q = x /\ job'[r] # job[r] /\ disk'[e] = disk[e]
        BY <1>0, <2>0, <2>4, <1>m DEF RemoveSource, At
      <3> QED
        BY <2>0, <2>4, <3>1 DEF At, Changes
    <2> QED
      BY <1>1, <1>4, <2>1, <2>2, <2>3, <2>4 DEF TrashMove, MoveDies
  <1>5. CASE RestoreMove(r)
    <2> DEFINE x == job[r].path  e == job[r].entry
    <2>0. /\ job[r].at \in {"return", "copyback", "copiedback"} /\ job[r].at # "idle"
          /\ x \in Place /\ e \in Place /\ x # e /\ e \notin Elsewhere
      <3>1. job[r].at \in {"return", "copyback", "copiedback"} /\ job[r].at # "idle"
        BY <1>5, Moves
      <3> QED
        BY <3>1, PlacesOf
    <2>1. CASE At(r, "return") /\ Rename(r, e, x, "stamp")
      <3>1. q \in {x, e} /\ job'[r] # job[r]
        <4>1. q \in {x, e}
          BY <2>0, <2>1, RenameIs
        <4>2. job'[r] # job[r]
          BY <2>1, <1>m DEF Rename, At
        <4> QED
          BY <4>1, <4>2
      <3> QED
        BY <2>0, <2>1, <3>1 DEF At, Changes
    <2>2. CASE At(r, "return") /\ CopyPart(r, e, x, "copyback")
      <3>1. q = x /\ x \in Elsewhere
        BY <2>0, <2>2, CopyIs
      <3>2. job'[r] # job[r]
        BY <2>2, <1>m DEF CopyPart, At
      <3> QED
        BY <2>0, <2>2, <3>1, <3>2 DEF At, Changes
    <2>3. CASE At(r, "copyback") /\ CopyRest(r, e, x, "copiedback")
      <3>1. q = x /\ job'[r] # job[r]
        <4>1. q = x
          BY <2>0, <2>3, CopyRestIs
        <4>2. job'[r] # job[r]
          BY <2>3, <1>m DEF CopyRest, At
        <4> QED
          BY <4>1, <4>2
      <3> QED
        BY <2>0, <2>3, <3>1 DEF At, Changes
    <2>4. CASE At(r, "copiedback") /\ RemoveSource(r, e, "stamp")
      <3>1. q = e /\ job'[r] # job[r] /\ disk'[x] = disk[x] /\ disk'[q] = Absent
        BY <1>0, <2>0, <2>4, <1>m DEF RemoveSource, At
      <3>2. disk[q] # Absent
        BY <3>1
      <3> QED
        BY <2>0, <2>4, <3>1, <3>2 DEF At, Changes
    <2> QED
      BY <1>1, <1>5, <2>1, <2>2, <2>3, <2>4 DEF RestoreMove, MoveDies
  <1>6. CASE Kill(r)
    <2>1. job[r].at # "idle" /\ job'[r] # job[r] /\ job[r].at \in {"copied", "copiedback"}
      BY <1>1, <1>6, <1>e DEF Kill, At
    <2>0. job[r].path \in Place /\ job[r].entry \in Place /\ job[r].path # job[r].entry
      BY <2>1, PlacesOf
    <2>2. CASE job[r].at = "copied"
      <3>1. \E rest \in SUBSET disk[job[r].path].data : disk' = [disk EXCEPT ![job[r].path].data = rest]
        BY <1>6, <2>2 DEF Kill, At
      <3>2. q = job[r].path /\ disk'[job[r].entry] = disk[job[r].entry]
        BY <1>0, <2>0, <3>1
      <3> QED
        BY <2>1, <2>2, <3>2 DEF Changes
    <2>3. CASE job[r].at = "copiedback"
      <3>1. PICK rest \in SUBSET disk[job[r].entry].data : disk' = [disk EXCEPT ![job[r].entry].data = rest]
        BY <1>6, <2>3 DEF Kill, At
      <3>2. /\ q = job[r].entry /\ disk'[job[r].path] = disk[job[r].path]
            /\ disk'[q] = [disk[q] EXCEPT !.data = rest]
        BY <1>0, <2>0, <3>1
      <3>3. disk[q] # Absent
        <4>1. SUFFICES ASSUME disk[q] = Absent PROVE FALSE
          OBVIOUS
        <4>2. rest = {}
          BY <3>2, <4>1 DEF Absent
        <4>3. [Absent EXCEPT !.data = {}] = Absent
          BY SMTT(30) DEF Absent
        <4> QED
          BY <3>2, <4>1, <4>2, <4>3
      <3> QED
        BY <2>1, <2>3, <3>2, <3>3 DEF Changes
    <2> QED
      BY <2>1, <2>2, <2>3
  <1>7. CASE \/ \E x \in Path, e \in Entry : TrashBegin(r, x, e)
             \/ TrashHash(r) \/ TrashRehash(r) \/ TrashOpen(r) \/ TrashRecord(r)
             \/ \E e \in Entry : RestoreBegin(r, e)
             \/ RestoreOpen(r) \/ RestoreRecord(r)
    BY <1>1, <1>7 DEF TrashBegin, TrashHash, TrashRehash, TrashOpen, TrashRecord, RestoreBegin,
       Return, RestoreOpen, RestoreRecord
  <1> QED
    BY <1>3, <1>4, <1>5, <1>6, <1>7 DEF Step

\* What the user edits: what was there is still there or is discarded, and what is new
\* there is what has been written.
LEMMA EditIs ==
  ASSUME TypeOK, NEW q \in Place, Edit(q)
  PROVE /\ disk[q].data \subseteq disk'[q].data \cup discarded'
        /\ IF disk[q].dir THEN disk'[q].dir ELSE disk[q].data \subseteq discarded'
        /\ edits + 1 \in disk'[q].data /\ edits' = edits + 1
        /\ disk'[q].data \subseteq disk[q].data \cup {edits + 1}
        /\ \A u \in Place \ {q} : disk'[u] = disk[u]
        /\ UNCHANGED <<stone, job, told>>
        /\ tampered' = tampered \cup ({q} \cap Entry)
        /\ q \in Entry => disk[q] # Absent
        /\ \A p \in Process : q = job[p].path /\ job[p].at \in {"return", "copy", "copied"} => edits + 1 \in exposed'
        /\ \A p \in Process : job[p].at \in Steps /\ q \in Entry => q # job[p].entry
        /\ \A p \in Process : q = job[p].path /\ job[p].at \in RestoreSteps => q \notin Elsewhere
  <1>0. disk \in [Place -> Tree] /\ disk[q] \in Tree /\ edits \in Nat
    BY DEF TypeOK
  <1> DEFINE c == edits + 1
  <1>c. c \in Nat
    BY <1>0
  <1>1. /\ edits' = c /\ UNCHANGED <<stone, job, told>> /\ tampered' = tampered \cup ({q} \cap Entry)
        /\ q \in Entry => Exists(q) /\ ~Working(q, Steps)
        /\ q \in Elsewhere => ~Working(q, RestoreSteps)
        /\ exposed' = IF Working(q, {"return", "copy", "copied"}) THEN exposed \cup {c} ELSE exposed
    BY Zenon DEF Edit
  <1>2. /\ disk[q].data \subseteq disk'[q].data \cup discarded'
        /\ IF disk[q].dir THEN disk'[q].dir ELSE disk[q].data \subseteq discarded'
        /\ c \in disk'[q].data
        /\ disk'[q].data \subseteq disk[q].data \cup {c}
        /\ \A u \in Place \ {q} : disk'[u] = disk[u]
    <2>1. CASE disk[q].dir
      <3>1. disk' = [disk EXCEPT ![q].data = disk[q].data \cup {c}]
        BY <2>1 DEF Edit
      <3>2. disk[q].data \cup {c} \in SUBSET Nat
        BY <1>0, <1>c DEF Tree
      <3> HIDE DEF c
      <3>3. disk'[q] = [disk[q] EXCEPT !.data = disk[q].data \cup {c}] /\ \A u \in Place \ {q} : disk'[u] = disk[u]
        BY <1>0, <3>1
      <3>4. disk'[q].data = disk[q].data \cup {c} /\ disk'[q].dir
        <4>1. disk'[q].data = disk[q].data \cup {c}
          BY <1>0, <3>2, <3>3, TreeWith
        <4>2. disk'[q].dir
          BY <1>0, <2>1, <3>3 DEF Tree
        <4> QED
          BY <4>1, <4>2
      <3> QED
        BY <3>3, <3>4
    <2>2. CASE ~disk[q].dir
      <3>1. PICK d \in BOOLEAN :
              disk' = [disk EXCEPT ![q] = [Absent EXCEPT !.dir = d /\ ~Exists(q), !.data = {c}]]
        BY <2>2 DEF Edit
      <3>2. discarded' = discarded \cup disk[q].data
        BY <2>2 DEF Edit
      <3>3. [Absent EXCEPT !.dir = d /\ ~Exists(q), !.data = {c}].data = {c}
        BY DEF Absent
      <3> HIDE DEF c
      <3>4. disk'[q].data = {c} /\ \A u \in Place \ {q} : disk'[u] = disk[u]
        BY <1>0, <3>1, <3>3
      <3> QED
        BY <2>2, <3>2, <3>4
    <2> QED
      BY <2>1, <2>2
  <1> HIDE DEF c
  <1>3. \A p \in Process : q = job[p].path /\ job[p].at \in {"return", "copy", "copied"} => c \in exposed'
    BY <1>1 DEF Working
  <1>4. \A p \in Process : job[p].at \in Steps /\ q \in Entry => q # job[p].entry
    BY <1>1 DEF Working
  <1>5. \A p \in Process : q = job[p].path /\ job[p].at \in RestoreSteps => q \notin Elsewhere
    BY <1>1 DEF Working
  <1>6. q \in Entry => disk[q] # Absent
    BY <1>1 DEF Exists
  <1> QED
    BY <1>1, <1>2, <1>3, <1>4, <1>5, <1>6 DEF c

-----------------------------------------------------------------------------
(* What a job finds on the disk.                                           *)

\* A new entry and a source that was moved are gone; a copy begun has nothing its source
\* has not, or had, and its source nothing but what the copy has read and what came
\* since; a verified payload is what the manifest says; and where a restore has
\* looked for the last time, there is nothing that is not exposed.
Finds(p) ==
  LET x == job[p].path
      e == job[p].entry IN
  /\ job[p].at \in {"hash", "move", "stamp", "stamping"} => disk[e] = Absent
  /\ job[p].at = "copy" =>
       /\ disk[e].data \subseteq disk[x].data \cup {0} \cup discarded
       /\ disk[x].data \subseteq job[p].reads \cup exposed
       /\ ~disk[x].dir /\ disk[x].data # job[p].reads => job[p].reads \subseteq discarded
  /\ job[p].at = "copied" => disk[x].data \subseteq disk[e].data \cup discarded \cup exposed
  /\ job[p].at \in {"record", "recording", "copyback", "copiedback"} => disk[e].data = job[p].before
  /\ job[p].at = "return" =>
       /\ disk[e] = Absent \/ disk[e].data = job[p].before
       /\ disk[x].data \subseteq exposed
       /\ x \in Elsewhere => disk[x] = Absent
       /\ \A q \in Process \ {p} : job[q].at = "return" /\ job[q].path = x => job[p].before \subseteq exposed
  /\ job[p].at = "copyback" =>
       disk[x].data \subseteq job[p].before \cup {0} /\ job[p].reads = job[p].before
  /\ job[p].at = "copiedback" => disk[x].data = job[p].before

FindsInv == \A p \in Process : Finds(p)

\* An entry not made yet is not there.
FreshInv == \A e \in Entry : stone[e].state = "none" => disk[e] = Absent

\* What has been exposed or discarded stays so.
LEMMA Grows ==
  ASSUME [Next]_vars
  PROVE exposed \subseteq exposed' /\ discarded \subseteq discarded' /\ tampered \subseteq tampered'
  <1>1. ASSUME NEW p \in Process, NEW e \in Entry, RestoreBegin(p, e)
        PROVE exposed \subseteq exposed' /\ UNCHANGED <<discarded, tampered>>
    BY <1>1 DEF RestoreBegin, Return
  <1>2. ASSUME NEW p \in Process,
               \/ \E x \in Path, e \in Entry : TrashBegin(p, x, e)
               \/ TrashHash(p) \/ TrashMove(p) \/ TrashRehash(p) \/ TrashOpen(p) \/ TrashRecord(p)
               \/ RestoreMove(p) \/ RestoreOpen(p) \/ RestoreRecord(p) \/ Kill(p)
        PROVE UNCHANGED <<exposed, discarded, tampered>>
    BY <1>2 DEF TrashBegin, TrashHash, TrashMove, TrashRehash, TrashOpen, TrashRecord, RestoreMove,
       RestoreOpen, RestoreRecord, Kill, MoveDies, Rename, CopyPart, CopyRest, RemoveSource, user
  <1>3. ASSUME NEW q \in Place, Edit(q)
        PROVE exposed \subseteq exposed' /\ discarded \subseteq discarded' /\ tampered \subseteq tampered'
    <2>1. exposed \subseteq exposed' /\ tampered \subseteq tampered'
      BY <1>3 DEF Edit
    <2>2. discarded' = discarded \/ discarded' = discarded \cup disk[q].data
      BY <1>3 DEF Edit
    <2> QED
      BY <2>1, <2>2
  <1> QED
    BY <1>1, <1>2, <1>3 DEF Next, Step, vars

\* The entry of a job under way changes only when another restore of it takes the
\* payload away.
LEMMA EntryKept ==
  ASSUME TypeOK, PlacedInv, OwnInv, [Next]_vars, NEW p \in Process,
         job[p].at # "idle", job'[p] = job[p], disk'[job[p].entry] # disk[job[p].entry]
  PROVE disk'[job[p].entry] = Absent /\ job[p].at \in {"return", "stamp", "stamping"}
  <1> DEFINE e == job[p].entry
  <1>0. /\ e \in Entry /\ e \in Place /\ job[p].at \in Steps /\ Owns(p)
        /\ job[p].at \in Trashing \cup Restoring
    BY DEF PlacedInv, Place, TypeOK, Job, OwnInv, Steps, Trashing, Restoring
  <1>1. ~Edit(e)
    BY <1>0, EditIs
  <1>2. PICK r \in Process : Changes(r, e)
    BY <1>0, <1>1, DiskMoves
  <1>3. /\ r # p /\ Owns(r) /\ job[r].at # "idle" /\ job[r].path # e
        /\ job[r].path \in Place /\ job[r].entry \in Place /\ job[r].path # job[r].entry
    BY <1>0, <1>2, PlacesOf DEF Changes, OwnInv
  <1>4. e = job[r].entry /\ job[r].at \notin Trashing
    <2>1. e = job[r].entry
      BY <1>2, <1>3 DEF Changes
    <2> QED
      BY <1>3, <2>1 DEF Owns
  <1>5. job[p].at \notin Trashing
    BY <1>0, <1>3, <1>4 DEF Owns
  <1>6. job[r].at \in Restoring
    BY <1>3, <1>4 DEF TypeOK, Job, Steps, Trashing, Restoring
  <1>7. job[r].path = job[p].path
    BY <1>0, <1>3, <1>4, <1>5, <1>6 DEF Owns
  <1>8. job[r].path \notin Elsewhere
    BY <1>3, <1>7 DEF Owns
  <1>9. job[r].at = "return" /\ Rename(r, e, job[r].path, "stamp")
    BY <1>2, <1>3, <1>4, <1>8 DEF Changes, Trashing, TrashSteps, Owns, Copying
  <1>10. disk'[e] = Absent
    BY <1>0, <1>3, <1>4, <1>9, RenameIs
  <1> QED
    BY <1>0, <1>5, <1>7, <1>8, <1>10 DEF Owns, Trashing, Restoring, RestoreSteps, Copying

\* The path of a job under way changes as the user edits it, as a trash takes away what
\* is there, or as another restore puts back something there.
LEMMA PathKept ==
  ASSUME TypeOK, PlacedInv, OwnInv, [Next]_vars, NEW p \in Process,
         job[p].at # "idle", job'[p] = job[p], disk'[job[p].path] # disk[job[p].path]
  PROVE \/ Edit(job[p].path)
        \/ job[p].path \notin Elsewhere /\ disk'[job[p].path] = Absent
        \/ /\ job[p].path \notin Elsewhere
           /\ \E r \in Process \ {p} :
                /\ job[r].at = "return" /\ job[r].path = job[p].path
                /\ Rename(r, job[r].entry, job[p].path, "stamp")
  <1> DEFINE x == job[p].path
  <1>0. x \in Path /\ x \in Place /\ Owns(p)
    BY DEF PlacedInv, Place, OwnInv
  <1>1. CASE Edit(x)
    BY <1>1
  <1>2. ASSUME NEW r \in Process, Changes(r, x)
        PROVE \/ x \notin Elsewhere /\ disk'[x] = Absent
              \/ /\ x \notin Elsewhere
                 /\ \E q \in Process \ {p} :
                      /\ job[q].at = "return" /\ job[q].path = x
                      /\ Rename(q, job[q].entry, x, "stamp")
    <2>1. /\ r # p /\ Owns(r) /\ job[r].at # "idle" /\ job[r].entry # x
          /\ job[r].path \in Place /\ job[r].entry \in Place /\ job[r].path # job[r].entry
      BY <1>0, <1>2, PlacesOf DEF Changes, OwnInv
    <2>2. x = job[r].path
      BY <1>2, <2>1 DEF Changes
    <2>3. x \notin Elsewhere
      BY <1>0, <2>1, <2>2 DEF Owns
    <2>4. \/ Rename(r, x, job[r].entry, "rehash")
          \/ job[r].at = "return" /\ Rename(r, job[r].entry, x, "stamp")
      BY <1>2, <2>1, <2>2, <2>3 DEF Changes, Owns, Copying
    <2>5. CASE Rename(r, x, job[r].entry, "rehash")
      BY <1>0, <2>1, <2>2, <2>3, <2>5, RenameIs
    <2>6. CASE job[r].at = "return" /\ Rename(r, job[r].entry, x, "stamp")
      BY <2>1, <2>2, <2>3, <2>6
    <2> QED
      BY <2>4, <2>5, <2>6
  <1> QED
    BY <1>0, <1>1, <1>2, DiskMoves

\* A job that stays where it is finds what it found.
LEMMA FindsStill ==
  ASSUME TypeOK, PlacedInv, OwnInv, FindsInv, [Next]_vars, NEW p \in Process, job'[p] = job[p]
  PROVE Finds(p)'
  <1>0. Finds(p) /\ Owns(p) /\ exposed \subseteq exposed' /\ discarded \subseteq discarded'
    BY Grows DEF FindsInv, OwnInv
  <1>1. CASE job[p].at = "idle"
    BY <1>1 DEF Finds
  <1>2. CASE job[p].at # "idle"
    <2> DEFINE x == job[p].path
               e == job[p].entry
    <2>0. x \in Place /\ e \in Place /\ x # e
      BY <1>2, PlacesOf
    <2>1. disk'[e] = disk[e] \/ (disk'[e] = Absent /\ job[p].at \in {"return", "stamp", "stamping"})
      BY <1>2, EntryKept
    <2>2. job[p].at \in {"hash", "move", "stamp", "stamping"} => disk'[e] = Absent
      BY <1>0, <2>1 DEF Finds
    <2>3. job[p].at \in {"record", "recording", "copyback", "copiedback"} => disk'[e].data = job[p].before
      BY <1>0, <2>1 DEF Finds
    <2>4. ASSUME job[p].at = "copy"
          PROVE /\ disk'[e].data \subseteq disk'[x].data \cup {0} \cup discarded'
                /\ disk'[x].data \subseteq job[p].reads \cup exposed'
                /\ ~disk'[x].dir /\ disk'[x].data # job[p].reads => job[p].reads \subseteq discarded'
      <3>1. disk'[e] = disk[e] /\ x \in Elsewhere
        BY <1>0, <2>1, <2>4 DEF Owns, Copying
      <3>2. /\ disk[x].data \subseteq disk'[x].data \cup discarded'
            /\ disk'[x].data \subseteq disk[x].data \cup exposed'
            /\ disk'[x] = disk[x] \/ disk'[x].dir \/ disk[x].data \subseteq discarded'
            /\ disk'[x] = disk[x] \/ disk'[x].dir \/ ~disk[x].dir
        <4>1. disk'[x] = disk[x] \/ Edit(x)
          BY <1>2, <3>1, PathKept
        <4>2. CASE Edit(x)
          <5>1. disk[x].dir => disk'[x].dir
            BY <2>0, <4>2, EditIs
          <5> QED
            BY <2>0, <2>4, <4>2, <5>1, EditIs
        <4> QED
          BY <4>1, <4>2
      <3>3. /\ disk[e].data \subseteq disk[x].data \cup {0} \cup discarded
            /\ disk[x].data \subseteq job[p].reads \cup exposed
            /\ ~disk[x].dir /\ disk[x].data # job[p].reads => job[p].reads \subseteq discarded
        BY <1>0, <2>4 DEF Finds
      <3>4. ~disk'[x].dir /\ disk'[x].data # job[p].reads => job[p].reads \subseteq discarded'
        <4>1. CASE disk'[x] = disk[x]
          BY <1>0, <3>3, <4>1
        <4>2. CASE disk[x].data \subseteq discarded' /\ ~disk[x].dir
          BY <1>0, <3>3, <4>2
        <4> QED
          BY <3>2, <4>1, <4>2
      <3> QED
        BY <1>0, <3>1, <3>2, <3>3, <3>4
    <2>5. ASSUME job[p].at = "copied" PROVE disk'[x].data \subseteq disk'[e].data \cup discarded' \cup exposed'
      <3>1. disk'[e] = disk[e] /\ x \in Elsewhere
        BY <1>0, <2>1, <2>5 DEF Owns, Copying
      <3>2. disk'[x].data \subseteq disk[x].data \cup exposed'
        <4>1. disk'[x] = disk[x] \/ Edit(x)
          BY <1>2, <3>1, PathKept
        <4> QED
          BY <2>0, <2>5, <4>1, EditIs
      <3> QED
        BY <1>0, <2>5, <3>1, <3>2 DEF Finds
    <2>6. ASSUME job[p].at \in {"copyback", "copiedback"} PROVE disk'[x] = disk[x]
      <3>1. x \in Elsewhere
        BY <1>0, <2>6 DEF Owns, Copying
      <3>2. ~Edit(x)
        BY <2>0, <2>6, <3>1, EditIs DEF RestoreSteps
      <3> QED
        BY <1>2, <3>1, <3>2, PathKept
    <2>7. ASSUME job[p].at = "return"
          PROVE /\ disk'[e] = Absent \/ disk'[e].data = job[p].before
                /\ disk'[x].data \subseteq exposed'
                /\ x \in Elsewhere => disk'[x] = Absent
                /\ \A q \in Process \ {p} : job'[q].at = "return" /\ job'[q].path = x => job[p].before \subseteq exposed'
      <3>1. disk'[e] = Absent \/ disk'[e].data = job[p].before
        BY <1>0, <2>1, <2>7 DEF Finds
      <3>2. disk[x].data \subseteq exposed /\ (x \in Elsewhere => disk[x] = Absent)
        BY <1>0, <2>7 DEF Finds
      <3>3. x \in Elsewhere => disk'[x] = Absent
        <4>1. x \in Elsewhere => ~Edit(x)
          BY <2>0, <2>7, EditIs DEF RestoreSteps
        <4> QED
          BY <1>2, <3>2, <4>1, PathKept
      <3>4. disk'[x].data \subseteq exposed'
        <4>1. CASE disk'[x] = disk[x]
          BY <1>0, <3>2, <4>1
        <4>2. CASE Edit(x)
          BY <1>0, <2>0, <2>7, <3>2, <4>2, EditIs
        <4>3. CASE disk'[x] = Absent
          BY <4>3, NothingTypes
        <4>4. ASSUME NEW r \in Process \ {p}, job[r].at = "return", job[r].path = x,
                     Rename(r, job[r].entry, x, "stamp")
              PROVE disk'[x].data \subseteq exposed'
          <5>1. Finds(r) /\ job[r].entry \in Place /\ job[r].entry # x
            BY <4>4, PlacesOf DEF FindsInv
          <5>2. disk[job[r].entry] # Absent /\ disk'[x].data \subseteq disk[job[r].entry].data \cup disk[x].data
            BY <2>0, <4>4, <5>1, RenameIs
          <5>3. disk[job[r].entry].data \subseteq exposed
            BY <2>7, <4>4, <5>1, <5>2 DEF Finds
          <5> QED
            BY <1>0, <3>2, <5>2, <5>3
        <4> QED
          BY <1>2, <4>1, <4>2, <4>3, <4>4, PathKept
      <3>5. ASSUME NEW q \in Process \ {p}, job'[q].at = "return", job'[q].path = x
            PROVE job[p].before \subseteq exposed'
        <4>1. CASE job'[q] = job[q]
          BY <1>0, <2>7, <3>5, <4>1 DEF Finds
        <4>2. CASE job'[q] # job[q]
          <5>1. Returns(q)
            BY <3>5, <4>2, Goings, Advances DEF NoJob
          <5>4. PICK d \in Entry :
                  /\ RestoreBegin(q, d)
                  /\ job'[q] = [at |-> "return", path |-> stone[d].path, entry |-> d,
                                before |-> stone[d].manifest, reads |-> {}]
            BY <5>1 DEF Returns
          <5>5. p \in {r \in Process : At(r, "return") /\ job[r].path = stone[d].path}
            BY <2>7, <3>5, <5>4 DEF At
          <5> QED
            BY <5>4, <5>5 DEF RestoreBegin, Return
        <4> QED
          BY <4>1, <4>2
      <3> QED
        BY <3>1, <3>3, <3>4, <3>5
    <2>8. job[p].at = "copyback" =>
            disk'[x].data \subseteq job[p].before \cup {0} /\ job[p].reads = job[p].before
      BY <1>0, <2>6 DEF Finds
    <2>9. job[p].at = "copiedback" => disk'[x].data = job[p].before
      BY <1>0, <2>6 DEF Finds
    <2> QED
      BY <2>2, <2>3, <2>4, <2>5, <2>7, <2>8, <2>9 DEF Finds
  <1> QED
    BY <1>1, <1>2

\* A job that goes on finds what its step has left.
LEMMA FindsNext ==
  ASSUME TypeOK, PlacedInv, OwnInv, FindsInv, FreshInv, [Next]_vars, NEW p \in Process, job'[p] # job[p]
  PROVE Finds(p)'
  <1> DEFINE x == job[p].path
             e == job[p].entry
  <1>0. /\ Finds(p) /\ Owns(p) /\ disk \in [Place -> Tree]
        /\ \A q \in Process \ {p} : job'[q] = job[q]
        /\ job[p].at # "idle" => x \in Place /\ e \in Place /\ x # e
    BY PlacesOf, Advances DEF FindsInv, OwnInv, TypeOK
  <1>1. ASSUME NEW y \in Path, NEW d \in Entry, TrashBegin(p, y, d),
               job'[p] = [NoJob EXCEPT !.at = "hash", !.path = y, !.entry = d]
        PROVE Finds(p)'
    <2>1. job'[p].at = "hash" /\ job'[p].entry = d
      BY <1>1 DEF NoJob
    <2>2. disk' = disk /\ disk[d] = Absent
      BY <1>1 DEF TrashBegin, FreshInv
    <2> QED
      BY <2>1, <2>2 DEF Finds
  <1>2. ASSUME NEW d \in Entry, RestoreBegin(p, d),
               job'[p] = [at |-> "return", path |-> stone[d].path, entry |-> d, before |-> stone[d].manifest, reads |-> {}]
        PROVE Finds(p)'
    <2>1. /\ disk' = disk /\ disk[d].data = stone[d].manifest /\ disk[stone[d].path] = Absent
          /\ Return(p, d)
      BY <1>2 DEF RestoreBegin, Return, Exists, Manifest
    <2>2. ASSUME NEW q \in Process \ {p}, job'[q].at = "return", job'[q].path = stone[d].path
          PROVE stone[d].manifest \subseteq exposed'
      <3>1. q \in {r \in Process : At(r, "return") /\ job[r].path = stone[d].path}
        BY <1>0, <2>2 DEF At
      <3> QED
        BY <2>1, <3>1 DEF Return
    <2> QED
      BY <1>2, <2>1, <2>2, NothingTypes DEF Finds
  <1>3. CASE job'[p] = NoJob
    BY <1>3 DEF Finds, NoJob
  <1>4. CASE TrashHash(p) /\ Goes(p, "hash", "move")
    <2>1. disk' = disk /\ disk[e] = Absent
      BY <1>0, <1>4 DEF TrashHash, Goes, Finds
    <2> QED
      BY <1>4, <2>1 DEF Goes, Finds
  <1>5. CASE Goes(p, "move", "rehash") \/ Goes(p, "copied", "rehash")
    BY <1>5 DEF Goes, Finds
  <1>6. CASE CopyPart(p, x, e, "copy") /\ Goes(p, "move", "copy")
    <2>1. /\ disk'[e].data \subseteq disk[x].data \cup {0} /\ disk'[x] = disk[x]
          /\ job'[p].reads = disk[x].data
      BY <1>0, <1>6, CopyIs DEF Goes
    <2> QED
      BY <1>6, <2>1 DEF Goes, Finds
  <1>7. CASE CopyRest(p, x, e, "copied") /\ Goes(p, "copy", "copied")
    <2>1. /\ disk'[x] = disk[x]
          /\ job[p].reads \subseteq disk'[e].data \/ (~disk[x].dir /\ disk[x].data # job[p].reads)
      BY <1>0, <1>7, CopyRestIs DEF Goes
    <2>2. /\ disk[x].data \subseteq job[p].reads \cup exposed
          /\ ~disk[x].dir /\ disk[x].data # job[p].reads => job[p].reads \subseteq discarded
      BY <1>0, <1>7 DEF Goes, Finds
    <2>3. exposed \subseteq exposed' /\ discarded \subseteq discarded'
      BY Grows
    <2>4. disk'[x].data \subseteq disk'[e].data \cup discarded' \cup exposed'
      BY <2>1, <2>2, <2>3
    <2> QED
      BY <1>7, <2>4 DEF Goes, Finds
  <1>8. CASE TrashRehash(p) /\ Goes(p, "rehash", "record") /\ disk[e].data = job[p].before
    BY <1>8 DEF TrashRehash, Goes, Finds
  <1>9. CASE TrashOpen(p) /\ Goes(p, "record", "recording")
    BY <1>0, <1>9 DEF TrashOpen, Goes, Finds
  <1>10. CASE Rename(p, e, x, "stamp") /\ Goes(p, "return", "stamp")
    <2>1. disk'[e] = Absent
      BY <1>0, <1>10, RenameIs DEF Goes
    <2> QED
      BY <1>10, <2>1 DEF Goes, Finds
  <1>11. CASE CopyPart(p, e, x, "copyback") /\ Goes(p, "return", "copyback")
    <2>1. /\ disk'[x].data \subseteq disk[e].data \cup {0} /\ disk'[e] = disk[e] /\ disk[e] # Absent
          /\ job'[p].reads = disk[e].data
      BY <1>0, <1>11, CopyIs DEF Goes
    <2>2. disk[e].data = job[p].before
      BY <1>0, <1>11, <2>1 DEF Goes, Finds
    <2> QED
      BY <1>11, <2>1, <2>2 DEF Goes, Finds
  <1>12. CASE CopyRest(p, e, x, "copiedback") /\ Goes(p, "copyback", "copiedback")
    <2>2. disk[e].data = job[p].before /\ job[p].reads = job[p].before
      BY <1>0, <1>12 DEF Goes, Finds
    <2>1. disk'[x].data = disk[e].data /\ disk'[e] = disk[e]
      BY <1>0, <1>12, <2>2, CopyRestIs DEF Goes
    <2> QED
      BY <1>12, <2>1, <2>2 DEF Goes, Finds
  <1>13. CASE RemoveSource(p, e, "stamp") /\ Goes(p, "copiedback", "stamp")
    <2>1. disk'[e] = Absent
      BY <1>0, <1>13 DEF RemoveSource, Goes
    <2> QED
      BY <1>13, <2>1 DEF Goes, Finds
  <1>14. CASE RestoreOpen(p) /\ Goes(p, "stamp", "stamping")
    BY <1>0, <1>14 DEF RestoreOpen, Goes, Finds
  <1>15. CASE Proceeds(p)
    BY <1>4, <1>5, <1>6, <1>7, <1>8, <1>9, <1>10, <1>11, <1>12, <1>13, <1>14, <1>15 DEF Proceeds
  <1>16. CASE Begins(p)
    BY <1>1, <1>16 DEF Begins
  <1>17. CASE Returns(p)
    BY <1>2, <1>17 DEF Returns
  <1> QED
    BY <1>3, <1>15, <1>16, <1>17, Advances

-----------------------------------------------------------------------------
(* What the tombstones say.                                                *)

\* What changes at an entry: its user changes it, its trash brings it, its restore takes
\* it away or, towards another file system, removes it.
LEMMA EntryMoves ==
  ASSUME TypeOK, PlacedInv, OwnInv, [Next]_vars, NEW e \in Entry, disk'[e] # disk[e]
  PROVE \/ disk[e] # Absent /\ e \in tampered'
        \/ stone[e].state # "none" /\ ~stone[e].restored /\ e \notin told
        \/ disk'[e] = Absent
        \/ stone[e].path \in Elsewhere /\ disk[e] # Absent /\ stone[e].state # "none"
  <1>0. e \in Place
    BY DEF Place
  <1>1. CASE Edit(e)
    BY <1>0, <1>1, EditIs
  <1>2. ASSUME NEW r \in Process, Changes(r, e)
        PROVE \/ stone[e].state # "none" /\ ~stone[e].restored /\ e \notin told
              \/ disk'[e] = Absent
              \/ stone[e].path \in Elsewhere /\ disk[e] # Absent /\ stone[e].state # "none"
    <2>1. /\ Owns(r) /\ job[r].at # "idle" /\ job[r].path # e
          /\ job[r].path \in Place /\ job[r].entry \in Place /\ job[r].path # job[r].entry
      BY <1>0, <1>2, PlacesOf DEF Changes, OwnInv
    <2>2. e = job[r].entry
      BY <1>2, <2>1 DEF Changes
    <2>3. CASE job[r].at \in Trashing
      BY <2>1, <2>2, <2>3 DEF Owns
    <2>4. CASE job[r].at \in Restoring
      <3>1. job[r].at \in {"return", "copiedback"}
        BY <1>2, <2>1, <2>2, <2>4 DEF Changes, Restoring, RestoreSteps
      <3>2. stone[e].state # "none" /\ stone[e].path = job[r].path
        BY <2>1, <2>2, <2>4 DEF Owns
      <3>3. CASE job[r].at = "return"
        <4>1. Rename(r, e, job[r].path, "stamp")
          BY <1>2, <2>1, <2>2, <3>3 DEF Changes
        <4> QED
          BY <1>0, <2>1, <2>2, <4>1, RenameIs
      <3>4. CASE job[r].at = "copiedback"
        BY <1>2, <2>1, <2>2, <3>2, <3>4 DEF Changes, Owns, Copying
      <3> QED
        BY <3>1, <3>3, <3>4
    <2> QED
      BY <2>1, <2>3, <2>4 DEF TypeOK, Job, Steps, Trashing, Restoring
  <1> QED
    BY <1>0, <1>1, <1>2, DiskMoves

\* What is not made yet is not there yet.
LEMMA FreshStep == TypeOK /\ PlacedInv /\ OwnInv /\ FreshInv /\ [Next]_vars => FreshInv'
  <1> SUFFICES ASSUME TypeOK, PlacedInv, OwnInv, FreshInv, [Next]_vars, NEW e \in Entry,
                      stone'[e].state = "none"
               PROVE  disk'[e] = Absent
    BY DEF FreshInv
  <1>1. stone[e].state = "none"
    BY StillNone
  <1>2. disk[e] = Absent
    BY <1>1 DEF FreshInv
  <1> QED
    BY <1>1, <1>2, EntryMoves

\* Everybody finds what it must after every step.
LEMMA FindsStep ==
  TypeOK /\ PlacedInv /\ OwnInv /\ FindsInv /\ FreshInv /\ [Next]_vars => FindsInv'
  BY FindsStill, FindsNext DEF FindsInv

\* A tombstone that is restored has no payload.
LEMMA GoneStep ==
  TypeOK /\ PlacedInv /\ OwnInv /\ FindsInv /\ RestoredIsGone /\ [Next]_vars => RestoredIsGone'
  <1> SUFFICES ASSUME TypeOK, PlacedInv, OwnInv, FindsInv, RestoredIsGone, [Next]_vars,
                      NEW e \in Entry, stone'[e].restored
               PROVE  disk'[e] = Absent
    BY DEF RestoredIsGone, Exists
  <1>0. stone[e] \in Stone
    BY DEF TypeOK
  <1>1. CASE stone[e].restored
    <2>1. disk[e] = Absent
      BY <1>1 DEF RestoredIsGone, Exists
    <2> QED
      BY <1>1, <2>1, EntryMoves
  <1>2. CASE ~stone[e].restored
    <2>1. PICK p \in Process :
            \/ stone'[e] = [stone[e] EXCEPT !.state = "made"]
            \/ stone'[e] = [stone[e] EXCEPT !.state = "open"]
            \/ stone'[e] = [state |-> "whole", path |-> job[p].path, manifest |-> job[p].before, restored |-> FALSE]
            \/ job[p].entry = e /\ RestoreRecord(p)
      BY <1>2, StoneMoves
    <2>2. \A v \in {"made", "open"} : [stone[e] EXCEPT !.state = v].restored = stone[e].restored
      BY <1>0 DEF Stone
    <2>3. job[p].entry = e /\ RestoreRecord(p)
      <3>1. CASE \/ stone'[e] = [stone[e] EXCEPT !.state = "made"]
                 \/ stone'[e] = [stone[e] EXCEPT !.state = "open"]
        BY <1>2, <2>2, <3>1
      <3>2. CASE stone'[e] = [state |-> "whole", path |-> job[p].path, manifest |-> job[p].before, restored |-> FALSE]
        BY <3>2
      <3> QED
        BY <2>1, <3>1, <3>2
    <2>4. disk' = disk /\ disk[e] = Absent
      BY <2>3 DEF RestoreRecord, At, FindsInv, Finds
    <2> QED
      BY <2>4
  <1> QED
    BY <1>1, <1>2

\* What has been reported can be undone.
LEMMA UndoStep ==
  TypeOK /\ PlacedInv /\ OwnInv /\ FindsInv /\ RestoredIsGone /\ Undoable /\ [Next]_vars => Undoable'
  <1> SUFFICES ASSUME TypeOK, PlacedInv, OwnInv, FindsInv, RestoredIsGone, Undoable, [Next]_vars,
                      NEW e \in told', e \notin tampered', disk'[e] # Absent
               PROVE  /\ stone'[e].state = "whole" /\ ~stone'[e].restored
                      /\ stone'[e].path \notin Elsewhere => disk'[e].data = stone'[e].manifest
    BY DEF Undoable, Exists, Manifest
  <1>0. tampered \subseteq tampered'
    BY Grows
  <1>t. told' = told \/ \E p \in Process : TrashRecord(p) /\ told' = told \cup {job[p].entry}
    BY ToldMoves
  <1>1. CASE e \in told
    <2>0. e \in Entry /\ stone[e] \in Stone
      BY <1>1 DEF TypeOK
    <2>1. disk[e] # Absent /\ (disk'[e] = disk[e] \/ stone[e].path \in Elsewhere)
      BY <1>1, <2>0, EntryMoves
    <2>2. /\ stone[e].state = "whole" /\ ~stone[e].restored
          /\ stone[e].path \notin Elsewhere => disk[e].data = stone[e].manifest
      BY <1>0, <1>1, <2>1 DEF Undoable, Exists, Manifest
    <2>3. ASSUME NEW p \in Process, job[p].entry = e,
                 TrashOpen(p) \/ RestoreOpen(p) \/ TrashRecord(p) \/ RestoreRecord(p)
          PROVE FALSE
      <3>1. job[p].at \in {"record", "recording", "stamp", "stamping"}
        BY <2>3 DEF TrashOpen, RestoreOpen, TrashRecord, RestoreRecord, At
      <3>2. job[p].at \notin {"record", "recording"}
        BY <1>1, <2>3 DEF OwnInv, Owns, Trashing
      <3> QED
        BY <2>1, <2>3, <3>1, <3>2 DEF FindsInv, Finds
    <2>4. stone'[e] = stone[e]
      BY <2>0, <2>2, <2>3, StoneMoves
    <2> QED
      BY <2>1, <2>2, <2>4
  <1>2. CASE e \notin told
    <2>1. PICK p \in Process : TrashRecord(p) /\ e = job[p].entry
      BY <1>2, <1>t
    <2>2. /\ e \in Entry /\ disk' = disk /\ disk[e].data = job[p].before
          /\ stone' = [stone EXCEPT ![e] = [state |-> "whole", path |-> job[p].path,
                                            manifest |-> job[p].before, restored |-> FALSE]]
      BY <2>1 DEF TrashRecord, At, PlacedInv, FindsInv, Finds
    <2>3. stone'[e] = [state |-> "whole", path |-> job[p].path,
                       manifest |-> job[p].before, restored |-> FALSE]
      BY <2>2 DEF TypeOK
    <2> QED
      BY <2>2, <2>3
  <1> QED
    BY <1>1, <1>2

-----------------------------------------------------------------------------
(* What the user wrote.                                                    *)

\* A content that is there stays somewhere, but for what is discarded or exposed.
LEMMA Stays ==
  ASSUME TypeOK, PlacedInv, OwnInv, FindsInv, [Next]_vars, NEW q \in Place, NEW c \in disk[q].data,
         c # 0, c \notin discarded', c \notin exposed'
  PROVE \E u \in Place : c \in disk'[u].data
  <1>0. c \notin discarded /\ c \notin exposed /\ disk \in [Place -> Tree]
    BY Grows DEF TypeOK
  <1>1. CASE disk'[q] = disk[q]
    BY <1>1
  <1>2. CASE Edit(q)
    BY <1>2, EditIs
  <1>3. ASSUME NEW r \in Process, Changes(r, q) PROVE \E u \in Place : c \in disk'[u].data
    <2> DEFINE x == job[r].path
               e == job[r].entry
    <2>0. /\ Finds(r) /\ x \in Place /\ e \in Place /\ x # e
      BY <1>3, PlacesOf DEF Changes, FindsInv
    <2>1. CASE job[r].at = "move" /\ q = e
      BY <2>0, <2>1, NothingTypes DEF Finds
    <2>2. CASE q = x /\ Rename(r, x, e, "rehash")
      BY <2>0, <2>2, RenameIs
    <2>3. CASE job[r].at = "copy" /\ q = e /\ CopyRest(r, x, e, "copied")
      <3>1. disk'[x] = disk[x]
        BY <2>0, <2>3, CopyRestIs
      <3>2. c \in disk[x].data
        BY <1>0, <2>0, <2>3 DEF Finds
      <3> QED
        BY <2>0, <3>1, <3>2
    <2>4. CASE job[r].at = "copied" /\ q = x /\ disk'[e] = disk[e]
      BY <1>0, <2>0, <2>4 DEF Finds
    <2>5. CASE q = e /\ Rename(r, e, x, "stamp")
      BY <2>0, <2>5, RenameIs
    <2>6. CASE job[r].at = "return" /\ q = x
      BY <1>0, <2>0, <2>6 DEF Finds
    <2>7. CASE job[r].at = "copyback" /\ q = x /\ CopyRest(r, e, x, "copiedback")
      <3>1. disk'[e] = disk[e]
        BY <2>0, <2>7, CopyRestIs
      <3>2. c \in disk[e].data
        BY <2>0, <2>7 DEF Finds
      <3> QED
        BY <2>0, <3>1, <3>2
    <2>8. CASE job[r].at = "copiedback" /\ q = e /\ disk'[x] = disk[x]
      BY <2>0, <2>8 DEF Finds
    <2> QED
      BY <1>3, <2>1, <2>2, <2>3, <2>4, <2>5, <2>6, <2>7, <2>8 DEF Changes
  <1> QED
    BY <1>1, <1>2, <1>3, DiskMoves

\* Nothing the user wrote is destroyed by a step.
LEMMA KeptStep ==
  TypeOK /\ PlacedInv /\ OwnInv /\ FindsInv /\ NothingDestroyed /\ [Next]_vars => NothingDestroyed'
  <1> SUFFICES ASSUME TypeOK, PlacedInv, OwnInv, FindsInv, NothingDestroyed, [Next]_vars,
                      NEW c \in 1..edits', c \notin discarded', c \notin exposed'
               PROVE  \E u \in Place : c \in disk'[u].data
    BY DEF NothingDestroyed, OnDisk
  <1>0. edits \in Nat /\ c \notin discarded /\ c \notin exposed
    BY Grows DEF TypeOK
  <1>e. edits' = edits \/ \E q \in Place : Edit(q)
    BY ToldMoves
  <1>1. CASE c \in 1..edits
    <2>1. \E q \in Place : c \in disk[q].data
      BY <1>0, <1>1 DEF NothingDestroyed, OnDisk
    <2>2. c # 0
      BY <1>0, <1>1
    <2> QED
      BY <2>1, <2>2, Stays
  <1>2. CASE c \notin 1..edits
    <2>1. PICK q \in Place : Edit(q)
      BY <1>2, <1>e
    <2>2. edits' = edits + 1 /\ edits + 1 \in disk'[q].data
      BY <2>1, EditIs
    <2>3. c = edits + 1
      BY <1>0, <1>2, <2>2
    <2> QED
      BY <2>2, <2>3
  <1> QED
    BY <1>1, <1>2

-----------------------------------------------------------------------------
(* The theorems.                                                           *)

\* What the promises of the trash are proved from.
TrashInv == TypeOK /\ PlacedInv /\ ReturnInv /\ OwnInv /\ FreshInv /\ FindsInv

\* At the start no job, no entry and no content is there.
LEMMA TrashInit == Init => TrashInv
  <1> SUFFICES ASSUME Init PROVE TrashInv
    OBVIOUS
  <1>1. TypeOK
    BY NothingTypes DEF Init, TypeOK
  <1>2. PlacedInv /\ ReturnInv
    BY DEF Init, PlacedInv, ReturnInv, NoJob, NoStone
  <1>3. OwnInv
    BY Places DEF Init, OwnInv, Unmade, Owns, NoJob, NoStone, Trashing, TrashSteps, Restoring,
       RestoreSteps, Copying
  <1>4. FreshInv /\ FindsInv
    BY DEF Init, FreshInv, FindsInv, Finds, NoJob, Place
  <1> QED
    BY <1>1, <1>2, <1>3, <1>4 DEF TrashInv

\* And no step changes that.
LEMMA TrashStep == TrashInv /\ [Next]_vars => TrashInv'
  BY TypeStep, ReturnStep, OwnStep, FreshStep, FindsStep DEF TrashInv

\* For every set of processes, paths and entries and every bound, tombstone.py destroys
\* nothing: what the user wrote and has not overwritten is at some path or in the trash,
\* save what was written between restore's check and its move or, on another file
\* system, while the item was copied and its source removed.
THEOREM NothingLost == Spec => []NothingDestroyed
  <1>1. Init => NothingDestroyed
    <2> SUFFICES ASSUME Init PROVE NothingDestroyed
      OBVIOUS
    <2>1. 1..edits = {}
      BY DEF Init
    <2> QED
      BY <2>1 DEF NothingDestroyed
  <1>2. TrashInv /\ NothingDestroyed /\ [Next]_vars => NothingDestroyed'
    BY KeptStep DEF TrashInv
  <1> QED
    BY <1>1, <1>2, TrashInit, TrashStep, PTL DEF Spec

\* A tombstone.json that says restored has no payload beside it.
THEOREM RestoredCorrect == Spec => []RestoredIsGone
  <1>1. Init => RestoredIsGone
    BY DEF Init, RestoredIsGone, NoStone
  <1>2. TrashInv /\ RestoredIsGone /\ [Next]_vars => RestoredIsGone'
    BY GoneStep DEF TrashInv
  <1> QED
    BY <1>1, <1>2, TrashInit, TrashStep, PTL DEF Spec

\* A trash that reported success can be undone while its payload is there untouched.
THEOREM UndoCorrect == Spec => []Undoable
  <1>1. Init => Undoable
    BY DEF Init, Undoable
  <1>2. TrashInv /\ RestoredIsGone /\ Undoable /\ [Next]_vars => Undoable'
    BY UndoStep DEF TrashInv
  <1> QED
    BY <1>1, <1>2, RestoredCorrect, TrashInit, TrashStep, PTL DEF Spec

\* tombstone.py restore puts back at its path what was trashed there, all of it and
\* nothing else, unless something else came there in the meantime.
THEOREM RestoreCorrect == Spec => RestoreFaithful
  <1>1. ASSUME TrashInv, [Next]_vars, NEW p \in Process, ~At(p, "stamp"), job'[p].at = "stamp",
               disk'[job[p].path].data \cap exposed = {}
        PROVE disk'[job[p].path].data = stone[job[p].entry].manifest
    <2> DEFINE x == job[p].path
               e == job[p].entry
    <2>0. /\ Finds(p) /\ Owns(p) /\ job'[p] # job[p] /\ TypeOK /\ PlacedInv /\ disk \in [Place -> Tree]
      BY <1>1 DEF TrashInv, FindsInv, OwnInv, At, TypeOK
    <2>1. \/ Rename(p, e, x, "stamp") /\ job[p].at = "return"
          \/ RemoveSource(p, e, "stamp") /\ job[p].at = "copiedback"
      <3>1. Proceeds(p)
        BY <1>1, <2>0, Goings, Advances DEF NoJob
      <3> QED
        BY <1>1, <3>1 DEF Proceeds, Goes
    <2>2. x \in Place /\ e \in Place /\ x # e
      BY <2>0, <2>1, PlacesOf
    <2>3. stone[e].manifest = job[p].before
      BY <2>0, <2>1 DEF Owns, Restoring, RestoreSteps
    <2>4. CASE Rename(p, e, x, "stamp") /\ job[p].at = "return"
      <3>1. /\ disk[e] # Absent
            /\ disk'[x].data = disk[e].data \/ disk'[x].data = disk[x].data \cup disk[e].data
        BY <2>0, <2>2, <2>4, RenameIs
      <3>2. disk[e].data = job[p].before /\ disk[x].data \subseteq exposed
        BY <2>0, <2>4, <3>1 DEF Finds
      <3>3. CASE disk'[x].data = disk[x].data \cup disk[e].data
        <4>1. disk[x].data = {}
          BY <1>1, <3>2, <3>3
        <4> QED
          BY <2>3, <3>2, <3>3, <4>1
      <3> QED
        BY <2>3, <3>1, <3>2, <3>3
    <2>5. CASE RemoveSource(p, e, "stamp") /\ job[p].at = "copiedback"
      <3>1. disk'[x] = disk[x]
        BY <2>0, <2>2, <2>5 DEF RemoveSource
      <3> QED
        BY <2>0, <2>3, <2>5, <3>1 DEF Finds
    <2> QED
      BY <2>1, <2>4, <2>5
  <1>2. TrashInv /\ [Next]_vars =>
          [\A p \in Process :
             LET back == disk'[job[p].path].data IN
             ~At(p, "stamp") /\ job'[p].at = "stamp" /\ back \cap exposed = {}
               => back = stone[job[p].entry].manifest]_vars
    BY <1>1
  <1> QED
    BY <1>2, TrashInit, TrashStep, PTL DEF Spec, RestoreFaithful
=============================================================================
