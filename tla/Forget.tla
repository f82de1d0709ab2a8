------------------------------- MODULE Forget -------------------------------
(***************************************************************************)
(* The acceptance test for forgetting, rollback/forget_check.py: baseline, *)
(* which rewrites the table of baselines whole, and check, which measures  *)
(* a store that goes on changing and compares it with that table.          *)
(*                                                                         *)
(* The store is SQLite's: a deleted row leaves a free page in the file, a  *)
(* new one takes it, and VACUUM gives the free pages back.                 *)
(***************************************************************************)
EXTENDS Naturals, FiniteSets

CONSTANTS
  Process,   \* the processes that run forget_check.py
  Db,        \* the stores
  NoDb,      \* the store of a process that has none
  MaxRows,   \* bound: pages of a store that hold rows, live or deleted
  MaxKills   \* bound: processes that die

ASSUME NoDbAssumption == NoDb \notin Db
ASSUME BoundAssumption == MaxRows \in Nat /\ MaxKills \in Nat

VARIABLES
  store,     \* the pages of each store with live rows, the free ones, and whether
             \* rows are orphans
  table,     \* forget_baselines.json
  job,       \* what each process is doing, and what it holds
  recorded,  \* the baseline last reported for each store; 0 is none
  lossy,     \* two baselines have been at work at once
  kills      \* number of processes that have died

vars == <<store, table, job, recorded, lossy, kills>>

\* A file in pages: SQLite keeps one of its own.
Rows(d) == store[d].live + store[d].free
Bytes(d) == 1 + Rows(d)
NoBaselines == [d \in Db |-> 0]

Idle == [at |-> "idle", db |-> NoDb, table |-> NoBaselines, bytes |-> 0, still |-> FALSE]

Init ==
  /\ store = [d \in Db |-> [live |-> 0, free |-> 0, orphans |-> FALSE]]
  /\ table = [state |-> "absent", bytes |-> NoBaselines]
  /\ job = [p \in Process |-> Idle]
  /\ recorded = NoBaselines
  /\ lossy = FALSE
  /\ kills = 0

At(p, l) == job[p].at = l
Goto(p, l) == job' = [job EXCEPT ![p].at = l]
End(p) == job' = [job EXCEPT ![p] = Idle]

\* The checks of d are no longer of a store, and a baseline, at rest.
Disturbed(js, d) ==
  [p \in Process |-> IF js[p].db = d THEN [js[p] EXCEPT !.still = FALSE] ELSE js[p]]

\* Mutant: what cannot be read is no baselines either.
LoadsAnything == TRUE

\* load raises on a file that is no JSON; a file that is not there is no baselines.
Loads == table.state # "broken"

-----------------------------------------------------------------------------
(* forget_check.py baseline                                                *)

Recording(p) == job[p].at \in {"measure", "truncate", "write"}

BaselineLoads(p, d) ==
  /\ At(p, "idle") /\ Loads
  /\ job' = [job EXCEPT ![p] = [Idle EXCEPT !.at = "measure", !.db = d, !.table = table.bytes]]
  /\ lossy' = (lossy \/ \E q \in Process : Recording(q))
  /\ UNCHANGED <<store, table, recorded, kills>>

BaselineMeasures(p) ==
  /\ At(p, "measure")
  /\ job' = [job EXCEPT ![p].at = "truncate", ![p].table[job[p].db] = Bytes(job[p].db)]
  /\ UNCHANGED <<store, table, recorded, lossy, kills>>

BaselineTruncates(p) ==
  /\ At(p, "truncate")
  /\ table' = [state |-> "broken", bytes |-> NoBaselines]
  /\ Goto(p, "write")
  /\ UNCHANGED <<store, recorded, lossy, kills>>

BaselineWrites(p) ==
  /\ At(p, "write")
  /\ LET d == job[p].db IN
     /\ table' = [state |-> "whole", bytes |-> job[p].table]
     /\ recorded' = [recorded EXCEPT ![d] = job[p].table[d]]
     /\ job' = Disturbed([job EXCEPT ![p] = Idle], d)
  /\ UNCHANGED <<store, lossy, kills>>

-----------------------------------------------------------------------------
(* forget_check.py check                                                   *)

Vacuumed(s) == [s EXCEPT !.free = 0]

\* With --vacuum or without.
CheckBegins(p, d) ==
  /\ At(p, "idle")
  /\ \E s \in {store[d], Vacuumed(store[d])} :
       /\ store' = [store EXCEPT ![d] = s]
       /\ job' = [Disturbed(job, d) EXCEPT
                    ![p] = [Idle EXCEPT !.at = "free", !.db = d, !.still = TRUE]]
  /\ UNCHANGED <<table, recorded, lossy, kills>>

\* A measure that finds a problem leads to a refusal, whatever comes after.
Measures(p, from, to, accepted) ==
  /\ At(p, from)
  /\ IF accepted THEN Goto(p, to) ELSE End(p)
  /\ UNCHANGED <<store, table, recorded, lossy, kills>>

\* Every check here is given its --orphan-sql: without it none are counted.
CountsFree(p) == Measures(p, "free", "orphans", store[job[p].db].free = 0)
CountsOrphans(p) == Measures(p, "orphans", "bytes", ~store[job[p].db].orphans)

\* The size of the file is taken after the connection is closed.
TakesSize(p) ==
  /\ At(p, "bytes")
  /\ job' = [job EXCEPT ![p].at = "judge", ![p].bytes = Bytes(job[p].db)]
  /\ UNCHANGED <<store, table, recorded, lossy, kills>>

Judges(p) ==
  LET base == table.bytes[job[p].db] IN
  Measures(p, "judge", "accepted", Loads /\ (base = 0 \/ job[p].bytes <= base))

Ends(p) ==
  /\ At(p, "accepted")
  /\ End(p)
  /\ UNCHANGED <<store, table, recorded, lossy, kills>>

Dies(p) ==
  /\ job[p] # Idle /\ kills < MaxKills
  /\ End(p)
  /\ kills' = kills + 1
  /\ UNCHANGED <<store, table, recorded, lossy>>

-----------------------------------------------------------------------------
(* The store in use, and the operator who removes a table nothing can read. *)

Changes(d, s) ==
  /\ store' = [store EXCEPT ![d] = s]
  /\ job' = Disturbed(job, d)
  /\ UNCHANGED <<table, recorded, lossy, kills>>

Insert(d) ==
  /\ Rows(d) < MaxRows \/ store[d].free > 0
  /\ Changes(d, [store[d] EXCEPT !.live = @ + 1, !.free = IF @ > 0 THEN @ - 1 ELSE 0])

\* Mutant: a row is only marked.
DeleteMarks(d) ==
  /\ store[d].live > 0
  /\ \E o \in {store[d].orphans, TRUE} :
       Changes(d, [live |-> store[d].live, free |-> store[d].free + 1, orphans |-> o])

Delete(d) ==
  /\ store[d].live > 0
  /\ \E o \in {store[d].orphans, TRUE} :
       Changes(d, [live |-> store[d].live - 1, free |-> store[d].free + 1, orphans |-> o])

\* VACUUM by hand, or the orphans removed.
Clean(d) == Changes(d, Vacuumed(store[d])) \/ Changes(d, [store[d] EXCEPT !.orphans = FALSE])

RemoveTable ==
  /\ table.state = "broken" /\ \A p \in Process : ~Recording(p)
  /\ table' = [table EXCEPT !.state = "absent"]
  /\ recorded' = NoBaselines
  /\ UNCHANGED <<store, job, lossy, kills>>

Next ==
  \/ \E p \in Process :
       \/ \E d \in Db : BaselineLoads(p, d) \/ CheckBegins(p, d)
       \/ BaselineMeasures(p) \/ BaselineTruncates(p) \/ BaselineWrites(p)
       \/ CountsFree(p) \/ CountsOrphans(p) \/ TakesSize(p) \/ Judges(p) \/ Ends(p) \/ Dies(p)
  \/ \E d \in Db : Insert(d) \/ Delete(d) \/ Clean(d)
  \/ RemoveTable

Spec == Init /\ [][Next]_vars

-----------------------------------------------------------------------------

Baselines == [Db -> 0..MaxRows + 1]

\* Type invariant: no store outgrows the bound, no job is at an unknown step.
TypeOK ==
  /\ store \in [Db -> [live : 0..MaxRows, free : 0..MaxRows, orphans : BOOLEAN]]
  /\ \A d \in Db : Rows(d) <= MaxRows
  /\ table \in [state : {"absent", "broken", "whole"}, bytes : Baselines]
  /\ job \in [Process -> [at : {"idle", "measure", "truncate", "write", "free", "orphans",
                                "bytes", "judge", "accepted"},
                          db : Db \cup {NoDb}, table : Baselines, bytes : 0..MaxRows + 1,
                          still : BOOLEAN]]
  /\ recorded \in Baselines
  /\ lossy \in BOOLEAN
  /\ kills \in 0..MaxKills

\* forget_check.py:69 "forgetting accepted: no free pages, no orphans, file did not
\* grow": of a store, and a baseline, that were left alone while check ran, that is
\* so when it accepts, against the baseline last reported, whatever was written for
\* the other stores and whoever died, unless two baselines were recorded at once.
AcceptedIsForgotten ==
  \A p \in Process : At(p, "accepted") /\ job[p].still =>
    LET d == job[p].db IN
    /\ store[d].free = 0 /\ ~store[d].orphans
    /\ ~lossy /\ recorded[d] > 0 => Bytes(d) <= recorded[d]
=============================================================================
