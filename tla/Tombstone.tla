----------------------------- MODULE Tombstone -----------------------------
(***************************************************************************)
(* The trash of rollback/tombstone.py: processes that trash a path or      *)
(* restore a trash entry, the user who goes on working on those paths, and *)
(* the processes that die between two steps.                               *)
(*                                                                         *)
(* The content of a file is the number of the edit that wrote it, so two   *)
(* contents are never equal and a sha256 manifest is the set of them; 0 is *)
(* the content of a file copied in part.                                   *)
(***************************************************************************)
EXTENDS Naturals, FiniteSets

CONSTANTS
  Process,    \* the processes that run tombstone.py
  Path,       \* the paths items are trashed from
  Elsewhere,  \* those that are on another file system than TRASH
  Entry,      \* the directories unique_entry makes under TRASH
  Nowhere,    \* the path and the entry of a process that has none
  MaxEdits,   \* bound: contents the user writes
  MaxKills    \* bound: processes that die

ASSUME PlacesDiffer == Path \cap Entry = {} /\ Nowhere \notin Path \cup Entry
ASSUME ElsewhereAssumption == Elsewhere \subseteq Path
ASSUME BoundAssumption == MaxEdits \in Nat /\ MaxKills \in Nat

VARIABLES
  disk,       \* what is at each path, and the payload of each entry
  stone,      \* tombstone.json of each entry
  job,        \* what each process is doing
  told,       \* the entries whose trash reported success
  edits,      \* number of contents the user has written
  discarded,  \* those the user has overwritten
  exposed,    \* those put at a path that a command was about to move over, or
              \* was copying in order to remove it: it may have looked at the
              \* path, or at the file, for the last time
  tampered,   \* the entries whose payload the user has changed
  kills       \* number of processes that have died

vars == <<disk, stone, job, told, edits, discarded, exposed, tampered, kills>>

Place == Path \cup Entry

-----------------------------------------------------------------------------
(* Files, directories and moves.                                           *)

\* A directory holds contents, and perhaps an item of its own name (child).
Tree == [dir : BOOLEAN, child : BOOLEAN, data : SUBSET Nat]
Absent == [dir |-> FALSE, child |-> FALSE, data |-> {}]

Exists(q) == disk[q] # Absent
Manifest(t) == t.data

\* shutil.move fails when its source is gone, when a directory would replace
\* a file, and when the target directory already has an item of that name.
MoveFails(s, t) ==
  \/ s = Absent
  \/ s.dir /\ t # Absent /\ ~t.dir
  \/ t.dir /\ t.child

\* It replaces a file and goes inside a directory.
Moved(s, t) == IF t.dir THEN [t EXCEPT !.data = @ \cup s.data, !.child = TRUE] ELSE s

\* An entry and its tombstone.json: no directory yet, a directory without the
\* file, the file being written, the file whole.
Stone == [state : {"none", "made", "open", "whole"}, path : Path \cup {Nowhere},
          manifest : SUBSET Nat, restored : BOOLEAN]
NoStone == [state |-> "none", path |-> Nowhere, manifest |-> {}, restored |-> FALSE]

-----------------------------------------------------------------------------

TrashSteps == {"hash", "move", "copy", "copied"}
RestoreSteps == {"return", "copyback", "copiedback"}
Steps == TrashSteps \cup RestoreSteps
           \cup {"idle", "rehash", "record", "recording", "stamp", "stamping"}

Job == [at : Steps, path : Path \cup {Nowhere}, entry : Entry \cup {Nowhere},
        before : SUBSET Nat, reads : SUBSET Nat]
\* before is the manifest the job goes by, reads what its copy found at the source.
NoJob == [at |-> "idle", path |-> Nowhere, entry |-> Nowhere, before |-> {}, reads |-> {}]

Init ==
  /\ disk = [q \in Place |-> Absent]
  /\ stone = [e \in Entry |-> NoStone]
  /\ job = [p \in Process |-> NoJob]
  /\ told = {}
  /\ edits = 0
  /\ discarded = {}
  /\ exposed = {}
  /\ tampered = {}
  /\ kills = 0

At(p, l) == job[p].at = l
Goto(p, l) == job' = [job EXCEPT ![p].at = l]
GotoReading(p, l, reads) == job' = [job EXCEPT ![p].at = l, ![p].reads = reads]
End(p) == job' = [job EXCEPT ![p] = NoJob]

user == <<told, edits, discarded, exposed, tampered, kills>>

-----------------------------------------------------------------------------
(* tombstone.py trash <path>                                               *)

\* A path on another file system is worked on by one command at a time.
Reserved(p, x) == x \in Elsewhere /\ \E q \in Process \ {p} : job[q].path = x

\* The path exists; unique_entry and mkdir make an entry nobody else has.
TrashBegin(p, x, e) ==
  /\ At(p, "idle")
  /\ Exists(x) /\ ~Reserved(p, x)
  /\ stone[e].state = "none"
  /\ stone' = [stone EXCEPT ![e].state = "made"]
  /\ job' = [job EXCEPT ![p] = [NoJob EXCEPT !.at = "hash", !.path = x, !.entry = e]]
  /\ UNCHANGED <<disk, user>>

TrashHash(p) ==
  /\ At(p, "hash")
  /\ job' = [job EXCEPT ![p].at = "move", ![p].before = Manifest(disk[job[p].path])]
  /\ UNCHANGED <<disk, stone, user>>

\* shutil.move fails and the exception ends the process.
MoveDies(p, s, t) ==
  /\ MoveFails(disk[s], disk[t])
  /\ End(p)
  /\ UNCHANGED <<disk, stone, user>>

\* On one file system shutil.move is a rename, ...
Rename(p, s, t, l) ==
  /\ {s, t} \cap Elsewhere = {}
  /\ ~MoveFails(disk[s], disk[t])
  /\ disk' = [disk EXCEPT ![t] = Moved(disk[s], @), ![s] = Absent]
  /\ Goto(p, l)
  /\ UNCHANGED <<stone, user>>

\* ... between two of them it copies, file by file, ...
CopyPart(p, s, t, l) ==
  /\ {s, t} \cap Elsewhere # {}
  /\ ~MoveFails(disk[s], disk[t])
  /\ \E part \in SUBSET disk[s].data :
        /\ disk[s].dir \/ part = {}
        /\ disk' = [disk EXCEPT ![t] = [disk[s] EXCEPT !.data = part \cup {0}]]
  /\ GotoReading(p, l, disk[s].data)
  /\ UNCHANGED <<stone, user>>

\* What a copy of s can hold in the end.  It reads each file once: what was there
\* when it began is in it, unless the file was rewritten; what was written since
\* may be in it, in part or not at all.
Copies(s, reads) ==
  IF s.data = reads THEN {reads}
  ELSE IF s.dir THEN {reads \cup late : late \in SUBSET ((s.data \ reads) \cup {0})}
  ELSE {reads, s.data, {0}}

CopyRest(p, s, t, l) ==
  /\ \E got \in Copies(disk[s], job[p].reads) :
        disk' = [disk EXCEPT ![t] = [disk[s] EXCEPT !.data = got]]
  /\ GotoReading(p, l, {})
  /\ UNCHANGED <<stone, user>>

\* Mutant: the source stays.
SourceStays(p, s, l) == Goto(p, l) /\ UNCHANGED <<disk, stone, user>>

\* ... and then removes the source.
RemoveSource(p, s, l) ==
  /\ disk' = [disk EXCEPT ![s] = Absent]
  /\ Goto(p, l)
  /\ UNCHANGED <<stone, user>>

TrashMove(p) ==
  LET x == job[p].path e == job[p].entry IN
  \/ At(p, "move")
       /\ (MoveDies(p, x, e) \/ Rename(p, x, e, "rehash") \/ CopyPart(p, x, e, "copy"))
  \/ At(p, "copy") /\ CopyRest(p, x, e, "copied")
  \/ At(p, "copied") /\ RemoveSource(p, x, "rehash")

\* Mutant: the two manifests are not compared.
TrashTrust(p) ==
  /\ At(p, "rehash")
  /\ Goto(p, "record")
  /\ UNCHANGED <<disk, stone, user>>

\* A manifest that changed during the move ends the command with exit 1.
TrashRehash(p) ==
  /\ At(p, "rehash")
  /\ IF Manifest(disk[job[p].entry]) = job[p].before THEN Goto(p, "record") ELSE End(p)
  /\ UNCHANGED <<disk, stone, user>>

\* write_text truncates tombstone.json, then fills it.
TrashOpen(p) ==
  /\ At(p, "record")
  /\ stone' = [stone EXCEPT ![job[p].entry].state = "open"]
  /\ Goto(p, "recording")
  /\ UNCHANGED <<disk, user>>

\* Mutant: "what" is where the payload is, not where it came from.
TrashRecordTarget(p) ==
  /\ At(p, "recording")
  /\ stone' = [stone EXCEPT ![job[p].entry] =
       [state |-> "whole", path |-> job[p].entry, manifest |-> job[p].before, restored |-> FALSE]]
  /\ told' = told \cup {job[p].entry}
  /\ End(p)
  /\ UNCHANGED <<disk, edits, discarded, exposed, tampered, kills>>

TrashRecord(p) ==
  /\ At(p, "recording")
  /\ stone' = [stone EXCEPT ![job[p].entry] =
       [state |-> "whole", path |-> job[p].path, manifest |-> job[p].before, restored |-> FALSE]]
  /\ told' = told \cup {job[p].entry}
  /\ End(p)
  /\ UNCHANGED <<disk, edits, discarded, exposed, tampered, kills>>
-----------------------------------------------------------------------------
(* tombstone.py restore <entry>                                            *)

\* The process has made its checks. Another that is as far, towards the same
\* path, and this one each expose what the other brings.
Return(p, e) ==
  LET x == stone[e].path
      others == {q \in Process : At(q, "return") /\ job[q].path = x} IN
  /\ job' = [job EXCEPT ![p] = [at |-> "return", path |-> x, entry |-> e,
                                before |-> stone[e].manifest, reads |-> {}]]
  /\ exposed' = IF others = {} THEN exposed
                ELSE exposed \cup stone[e].manifest \cup UNION {job[q].before : q \in others}
  /\ UNCHANGED <<disk, stone, told, edits, discarded, tampered, kills>>

\* Mutant: what is at the path by now is not looked at.
RestoreOver(p, e) ==
  /\ At(p, "idle")
  /\ stone[e].state = "whole" /\ ~stone[e].restored
  /\ Exists(e) /\ Manifest(disk[e]) = stone[e].manifest
  /\ ~Reserved(p, stone[e].path)
  /\ Return(p, e)

\* Mutant: the payload's manifest is not compared.
RestoreUnverified(p, e) ==
  /\ At(p, "idle")
  /\ stone[e].state = "whole" /\ ~stone[e].restored
  /\ Exists(e)
  /\ ~Exists(stone[e].path) /\ ~Reserved(p, stone[e].path)
  /\ Return(p, e)

\* Every check passes: a whole tombstone not yet restored, its payload as the
\* manifest says, and nothing at the path it came from.
RestoreBegin(p, e) ==
  /\ At(p, "idle")
  /\ stone[e].state = "whole" /\ ~stone[e].restored
  /\ Exists(e) /\ Manifest(disk[e]) = stone[e].manifest
  /\ ~Exists(stone[e].path) /\ ~Reserved(p, stone[e].path)
  /\ Return(p, e)

RestoreMove(p) ==
  LET x == job[p].path e == job[p].entry IN
  \/ At(p, "return")
       /\ (MoveDies(p, e, x) \/ Rename(p, e, x, "stamp") \/ CopyPart(p, e, x, "copyback"))
  \/ At(p, "copyback") /\ CopyRest(p, e, x, "copiedback")
  \/ At(p, "copiedback") /\ RemoveSource(p, e, "stamp")

RestoreOpen(p) ==
  /\ At(p, "stamp")
  /\ stone' = [stone EXCEPT ![job[p].entry].state = "open"]
  /\ Goto(p, "stamping")
  /\ UNCHANGED <<disk, user>>

RestoreRecord(p) ==
  /\ At(p, "stamping")
  /\ stone' = [stone EXCEPT ![job[p].entry].state = "whole", ![job[p].entry].restored = TRUE]
  /\ End(p)
  /\ UNCHANGED <<disk, user>>

-----------------------------------------------------------------------------
(* The user, and death.                                                    *)

Working(q, steps) ==
  \E p \in Process : job[p].at \in steps /\ q \in {job[p].path, job[p].entry}

\* The user writes new content at a path, or into a payload in the trash that
\* no command works on. What a copy back is being made of is left alone.
Edit(q) ==
  LET t == disk[q] c == edits + 1 IN
  /\ edits < MaxEdits
  /\ q \in Entry => Exists(q) /\ ~Working(q, Steps)
  /\ q \in Elsewhere => ~Working(q, RestoreSteps)
  /\ edits' = c
  /\ IF t.dir
     THEN disk' = [disk EXCEPT ![q].data = @ \cup {c}] /\ UNCHANGED discarded
     ELSE /\ \E d \in BOOLEAN :
               disk' = [disk EXCEPT ![q] = [Absent EXCEPT !.dir = d /\ ~Exists(q), !.data = {c}]]
          /\ discarded' = discarded \cup t.data
  /\ exposed' = IF Working(q, {"return", "copy", "copied"}) THEN exposed \cup {c} ELSE exposed
  /\ tampered' = tampered \cup ({q} \cap Entry)
  /\ UNCHANGED <<stone, job, told, kills>>

\* A process dies, or its removal of the source raises; one that was removing its
\* source may have removed part.
Kill(p) ==
  LET source == IF At(p, "copied") THEN job[p].path ELSE job[p].entry IN
  /\ kills < MaxKills
  /\ ~At(p, "idle")
  /\ kills' = kills + 1
  /\ End(p)
  /\ IF job[p].at \in {"copied", "copiedback"}
     THEN \E rest \in SUBSET disk[source].data : disk' = [disk EXCEPT ![source].data = rest]
     ELSE UNCHANGED disk
  /\ UNCHANGED <<stone, told, edits, discarded, exposed, tampered>>

Step(p) ==
  \/ \E x \in Path, e \in Entry : TrashBegin(p, x, e)
  \/ TrashHash(p) \/ TrashMove(p) \/ TrashRehash(p) \/ TrashOpen(p) \/ TrashRecord(p)
  \/ \E e \in Entry : RestoreBegin(p, e)
  \/ RestoreMove(p) \/ RestoreOpen(p) \/ RestoreRecord(p)
  \/ Kill(p)

Next == (\E p \in Process : Step(p)) \/ (\E q \in Place : Edit(q))

Spec == Init /\ [][Next]_vars

-----------------------------------------------------------------------------
(* What the trash promises.                                                *)

\* Type invariant: what the paths, the entries and the processes of
\* tombstone.py can hold.
TypeOK ==
  /\ disk \in [Place -> Tree]
  /\ stone \in [Entry -> Stone]
  /\ job \in [Process -> Job]
  /\ told \subseteq Entry
  /\ edits \in Nat
  /\ discarded \subseteq Nat
  /\ exposed \subseteq Nat
  /\ tampered \subseteq Entry
  /\ kills \in Nat

OnDisk == UNION {disk[q].data : q \in Place}

\* What the user wrote, and has not overwritten, is at some path or in the
\* trash, whatever interleaves and whoever dies; save what is written at a path
\* between restore's check of it and its move, or, on another file system, while
\* the item there is copied and removed: the copy reads a file once, the source
\* then goes as a whole, and the manifests agree about what the copy has read.
NothingDestroyed == (1..edits) \ (discarded \cup exposed) \subseteq OnDisk

\* A trash that reported success can be undone: as long as the payload is in
\* the trash and nobody has touched it there, its tombstone is whole, says it
\* is not restored and, but for a restore to another file system that died
\* while it removed the payload, has its manifest.
Undoable ==
  \A e \in told \ tampered : Exists(e) =>
    /\ stone[e].state = "whole" /\ ~stone[e].restored
    /\ stone[e].path \notin Elsewhere => Manifest(disk[e]) = stone[e].manifest

\* What restore puts back at its path is what was trashed there, all of it and
\* nothing else, unless something else came there in the meantime.
RestoreFaithful ==
  [][\A p \in Process :
       LET back == disk'[job[p].path].data IN
       ~At(p, "stamp") /\ job'[p].at = "stamp" /\ back \cap exposed = {}
         => back = stone[job[p].entry].manifest]_vars

\* An entry marked restored has no payload left in the trash to be restored, or
\* emptied, as if it were the only one.
RestoredIsGone == \A e \in Entry : stone[e].restored => ~Exists(e)
=============================================================================
