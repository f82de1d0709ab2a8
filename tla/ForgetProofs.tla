---------------------------- MODULE ForgetProofs ----------------------------
(* Theorems about forget_check.py, for any number of processes and stores. *)
EXTENDS Forget, TLAPS

-----------------------------------------------------------------------------
(* Types.                                                                  *)

StoreType == [live : 0..MaxRows, free : 0..MaxRows, orphans : BOOLEAN]

JobType == [at : {"idle", "measure", "truncate", "write", "free", "orphans", "bytes", "judge",
                  "accepted"},
            db : Db \cup {NoDb}, table : Baselines, bytes : 0..MaxRows + 1, still : BOOLEAN]

\* The types, and that whoever has begun works on a store.
TypeInv ==
  /\ store \in [Db -> StoreType] /\ \A d \in Db : Rows(d) <= MaxRows
  /\ table \in [state : {"absent", "broken", "whole"}, bytes : Baselines]
  /\ job \in [Process -> JobType]
  /\ recorded \in Baselines
  /\ lossy \in BOOLEAN
  /\ kills \in 0..MaxKills
  /\ \A p \in Process : ~At(p, "idle") => job[p].db \in Db

\* That is the type invariant, and more.
LEMMA TypeEnough == TypeInv => TypeOK
  BY DEF TypeInv, TypeOK, StoreType, JobType

\* Nobody works on nothing, and there is a table without baselines.
LEMMA IdleType ==
  /\ Idle \in JobType /\ NoBaselines \in Baselines
  /\ Idle.at = "idle" /\ Idle.db = NoDb /\ Idle.still = FALSE
  <1>1. NoBaselines \in Baselines
    BY BoundAssumption DEF NoBaselines, Baselines
  <1> QED
    BY <1>1, BoundAssumption DEF Idle, JobType

\* Everything has its type at the start.
LEMMA TypeInit == Init => TypeInv
  <1> SUFFICES ASSUME Init PROVE TypeInv
    OBVIOUS
  <1>1. store \in [Db -> StoreType] /\ \A d \in Db : Rows(d) <= MaxRows
    <2>1. store = [d \in Db |-> [live |-> 0, free |-> 0, orphans |-> FALSE]]
      BY DEF Init
    <2>2. [live |-> 0, free |-> 0, orphans |-> FALSE] \in StoreType
      BY BoundAssumption DEF StoreType
    <2>3. \A d \in Db : store[d].live = 0 /\ store[d].free = 0
      BY <2>1
    <2> QED
      <3>1. store \in [Db -> StoreType]
        BY <2>1, <2>2
      <3>2. \A d \in Db : Rows(d) <= MaxRows
        BY <2>3, BoundAssumption DEF Rows
      <3> QED
        BY <3>1, <3>2
  <1>2. job \in [Process -> JobType] /\ \A p \in Process : At(p, "idle")
    BY IdleType DEF Init, At
  <1> QED
    <2>1. table \in [state : {"absent", "broken", "whole"}, bytes : Baselines] /\ recorded \in Baselines
      BY IdleType DEF Init
    <2>2. lossy \in BOOLEAN
      BY DEF Init
    <2>3. kills \in 0..MaxKills
      BY BoundAssumption DEF Init
    <2> QED
      BY <1>1, <1>2, <2>1, <2>2, <2>3 DEF TypeInv

\* The size of a store within the bound is one a baseline can hold.
LEMMA BytesType ==
  ASSUME TypeInv, NEW d \in Db
  PROVE  Bytes(d) \in 1..MaxRows + 1 /\ Rows(d) \in 0..MaxRows
  <1>1. store[d].live \in Nat /\ store[d].free \in Nat /\ Rows(d) <= MaxRows
    BY BoundAssumption DEF TypeInv, StoreType
  <1> QED
    BY <1>1, BoundAssumption DEF Bytes, Rows

\* What a process that goes on, begins or ends does to the types.
LEMMA JobStep ==
  ASSUME TypeInv, NEW p \in Process, NEW j \in JobType, job' = [job EXCEPT ![p] = j],
         j.at # "idle" => j.db \in Db
  PROVE  job' \in [Process -> JobType] /\ \A q \in Process : ~At(q, "idle")' => job'[q].db \in Db
  BY DEF TypeInv, At

\* A check that is no longer of a store at rest keeps its type.
LEMMA DisturbedType ==
  ASSUME NEW js \in [Process -> JobType], NEW d
  PROVE  /\ Disturbed(js, d) \in [Process -> JobType]
         /\ \A p \in Process : Disturbed(js, d)[p].at = js[p].at /\ Disturbed(js, d)[p].db = js[p].db
  <1>1. ASSUME NEW p \in Process PROVE [js[p] EXCEPT !.still = FALSE] \in JobType
    BY DEF JobType
  <1> QED
    BY <1>1 DEF Disturbed, JobType

\* A store that changes within the bound.
LEMMA StoreStep ==
  ASSUME TypeInv, NEW d \in Db, NEW s \in StoreType, s.live + s.free <= MaxRows,
         store' = [store EXCEPT ![d] = s]
  PROVE  store' \in [Db -> StoreType] /\ \A e \in Db : Rows(e)' <= MaxRows
  BY DEF TypeInv, Rows

\* The table of a baseline that has measured its store.
LEMMA MeasuredType ==
  ASSUME TypeInv, NEW p \in Process, At(p, "measure")
  PROVE  [job[p].table EXCEPT ![job[p].db] = Bytes(job[p].db)] \in Baselines
  <1>1. job[p].db \in Db /\ job[p].table \in Baselines
    BY DEF TypeInv, JobType, At
  <1>2. Bytes(job[p].db) \in 0..MaxRows + 1
    BY <1>1, BytesType, BoundAssumption
  <1> QED
    BY <1>1, <1>2 DEF Baselines

\* Every step of a baseline, a check, the stores in use and the operator keeps them.
LEMMA TypeStep == TypeInv /\ [Next]_vars => TypeInv'
  <1> SUFFICES ASSUME TypeInv, [Next]_vars PROVE TypeInv'
    OBVIOUS
  <1>0. \A p \in Process : job[p] \in JobType
    BY DEF TypeInv
  <1>1. CASE UNCHANGED vars
    BY <1>1 DEF vars, TypeInv, Rows, At
  <1>2. ASSUME NEW p \in Process, NEW d \in Db, BaselineLoads(p, d) PROVE TypeInv'
    <2>1. [Idle EXCEPT !.at = "measure", !.db = d, !.table = table.bytes] \in JobType
      BY IdleType DEF TypeInv, JobType, Idle
    <2>2. job' \in [Process -> JobType] /\ \A q \in Process : ~At(q, "idle")' => job'[q].db \in Db
      BY <1>2, <2>1, JobStep DEF BaselineLoads, Idle
    <2>3. lossy' \in BOOLEAN
      BY <1>2 DEF BaselineLoads, TypeInv
    <2> QED
      BY <1>2, <2>2, <2>3 DEF BaselineLoads, TypeInv, Rows
  <1>3. ASSUME NEW p \in Process, BaselineMeasures(p) PROVE TypeInv'
    <2> DEFINE t == [job[p].table EXCEPT ![job[p].db] = Bytes(job[p].db)]
    <2>1. t \in Baselines /\ job[p].db \in Db
      BY <1>3, MeasuredType DEF BaselineMeasures, TypeInv, At
    <2>2. job' = [job EXCEPT ![p] = [job[p] EXCEPT !.at = "truncate", !.table = t]]
      BY <1>3 DEF BaselineMeasures, TypeInv, JobType
    <2>3. [job[p] EXCEPT !.at = "truncate", !.table = t] \in JobType
          /\ [job[p] EXCEPT !.at = "truncate", !.table = t].db \in Db
      BY <1>0, <2>1 DEF JobType
    <2>4. job' \in [Process -> JobType] /\ \A q \in Process : ~At(q, "idle")' => job'[q].db \in Db
      BY <2>2, <2>3, JobStep
    <2> QED
      BY <1>3, <2>4 DEF BaselineMeasures, TypeInv, Rows
  <1>4. ASSUME NEW p \in Process, NEW l \in {"write", "orphans", "bytes", "accepted"},
               job[p].db \in Db, Goto(p, l)
        PROVE  job' \in [Process -> JobType] /\ \A q \in Process : ~At(q, "idle")' => job'[q].db \in Db
    <2>1. [job[p] EXCEPT !.at = l] \in JobType /\ [job[p] EXCEPT !.at = l].db \in Db
      BY <1>0, <1>4 DEF JobType
    <2> QED
      BY <1>4, <2>1, JobStep DEF Goto
  <1>5. ASSUME NEW p \in Process, End(p)
        PROVE  job' \in [Process -> JobType] /\ \A q \in Process : ~At(q, "idle")' => job'[q].db \in Db
    BY <1>5, IdleType, JobStep DEF End
  <1>6. ASSUME NEW p \in Process, BaselineTruncates(p) PROVE TypeInv'
    <2>1. job[p].db \in Db
      BY <1>6 DEF BaselineTruncates, TypeInv, At
    <2> QED
      BY <1>4, <1>6, <2>1, IdleType DEF BaselineTruncates, TypeInv, Rows
  <1>7. ASSUME NEW p \in Process, BaselineWrites(p) PROVE TypeInv'
    <2> DEFINE ended == [job EXCEPT ![p] = Idle]
    <2>1. ended \in [Process -> JobType] /\ \A q \in Process : ended[q].at # "idle" => ended[q].db \in Db
      BY IdleType DEF TypeInv, At
    <2>2. job' = Disturbed(ended, job[p].db)
      BY <1>7 DEF BaselineWrites
    <2>3. job' \in [Process -> JobType] /\ \A q \in Process : ~At(q, "idle")' => job'[q].db \in Db
      BY <2>1, <2>2, DisturbedType DEF At
    <2>4. job[p].table \in Baselines /\ job[p].db \in Db
      BY <1>0, <1>7 DEF JobType, BaselineWrites, TypeInv, At
    <2>5. table' \in [state : {"absent", "broken", "whole"}, bytes : Baselines] /\ recorded' \in Baselines
      BY <1>7, <2>4 DEF BaselineWrites, TypeInv, Baselines
    <2> QED
      BY <1>7, <2>3, <2>5 DEF BaselineWrites, TypeInv, Rows
  <1>8. ASSUME NEW p \in Process, NEW d \in Db, CheckBegins(p, d) PROVE TypeInv'
    <2>1. PICK s \in {store[d], Vacuumed(store[d])} :
            /\ store' = [store EXCEPT ![d] = s]
            /\ job' = [Disturbed(job, d) EXCEPT
                         ![p] = [Idle EXCEPT !.at = "free", !.db = d, !.still = TRUE]]
      BY <1>8 DEF CheckBegins
    <2>2. s \in StoreType /\ s.live + s.free <= MaxRows
      <3>1. store[d] \in StoreType /\ store[d].live + store[d].free <= MaxRows
        BY DEF TypeInv, Rows
      <3> QED
        BY <2>1, <3>1, BoundAssumption DEF Vacuumed, StoreType
    <2>3. [Idle EXCEPT !.at = "free", !.db = d, !.still = TRUE] \in JobType
      BY IdleType DEF Idle, JobType
    <2>4. Disturbed(job, d) \in [Process -> JobType]
          /\ \A q \in Process : Disturbed(job, d)[q].at # "idle" => Disturbed(job, d)[q].db \in Db
      BY DisturbedType DEF TypeInv, At
    <2>5. job' \in [Process -> JobType] /\ \A q \in Process : ~At(q, "idle")' => job'[q].db \in Db
      BY <2>1, <2>3, <2>4 DEF At, Idle
    <2>6. store' \in [Db -> StoreType] /\ \A e \in Db : Rows(e)' <= MaxRows
      BY <2>1, <2>2, StoreStep
    <2> QED
      BY <1>8, <2>5, <2>6 DEF CheckBegins, TypeInv
  <1>9. ASSUME NEW p \in Process, CountsFree(p) \/ CountsOrphans(p) \/ Judges(p) \/ Ends(p) PROVE TypeInv'
    <2>1. job[p].db \in Db
      BY <1>9 DEF CountsFree, CountsOrphans, Judges, Ends, Measures, TypeInv, At
    <2>2. End(p) \/ \E l \in {"orphans", "bytes", "accepted"} : Goto(p, l)
      BY <1>9 DEF CountsFree, CountsOrphans, Judges, Ends, Measures
    <2>3. UNCHANGED <<store, table, recorded, lossy, kills>>
      BY <1>9 DEF CountsFree, CountsOrphans, Judges, Ends, Measures
    <2>4. job' \in [Process -> JobType] /\ \A q \in Process : ~At(q, "idle")' => job'[q].db \in Db
      BY <1>4, <1>5, <2>1, <2>2
    <2> QED
      BY <2>3, <2>4 DEF TypeInv, Rows
  <1>10. ASSUME NEW p \in Process, Dies(p) PROVE TypeInv'
    <2>1. kills' \in 0..MaxKills
      BY <1>10, BoundAssumption DEF Dies, TypeInv
    <2> QED
      BY <1>5, <1>10, <2>1 DEF Dies, TypeInv, Rows
  <1>11. ASSUME NEW p \in Process, TakesSize(p) PROVE TypeInv'
    <2>1. job[p].db \in Db
      BY <1>11 DEF TakesSize, TypeInv, At
    <2>2. Bytes(job[p].db) \in 0..MaxRows + 1
      BY <2>1, BytesType, BoundAssumption
    <2>3. job' = [job EXCEPT ![p] = [job[p] EXCEPT !.at = "judge", !.bytes = Bytes(job[p].db)]]
      BY <1>11 DEF TakesSize, TypeInv, JobType
    <2>4. [job[p] EXCEPT !.at = "judge", !.bytes = Bytes(job[p].db)] \in JobType
          /\ [job[p] EXCEPT !.at = "judge", !.bytes = Bytes(job[p].db)].db \in Db
      BY <1>0, <2>1, <2>2 DEF JobType
    <2>5. job' \in [Process -> JobType] /\ \A q \in Process : ~At(q, "idle")' => job'[q].db \in Db
      BY <2>3, <2>4, JobStep
    <2> QED
      BY <1>11, <2>5 DEF TakesSize, TypeInv, Rows
  <1>12. ASSUME NEW d \in Db, NEW s \in StoreType, s.live + s.free <= MaxRows, Changes(d, s) PROVE TypeInv'
    <2>1. store' \in [Db -> StoreType] /\ \A e \in Db : Rows(e)' <= MaxRows
      BY <1>12, StoreStep DEF Changes
    <2>2. job' \in [Process -> JobType] /\ \A q \in Process : ~At(q, "idle")' => job'[q].db \in Db
      BY <1>12, DisturbedType DEF Changes, TypeInv, At
    <2> QED
      BY <1>12, <2>1, <2>2 DEF Changes, TypeInv
  <1>13. ASSUME NEW d \in Db, Insert(d) \/ Delete(d) \/ Clean(d) PROVE TypeInv'
    <2>1. store[d] \in StoreType /\ store[d].live + store[d].free <= MaxRows
      BY DEF TypeInv, Rows
    <2>2. CASE Insert(d)
      <3> DEFINE s == [store[d] EXCEPT !.live = @ + 1, !.free = IF @ > 0 THEN @ - 1 ELSE 0]
      <3>1. s \in StoreType /\ s.live + s.free <= MaxRows
        <4>1. store[d].live \in Nat /\ store[d].free \in Nat /\ MaxRows \in Nat
              /\ store[d].orphans \in BOOLEAN
          BY <2>1, BoundAssumption DEF StoreType
        <4>2. store[d].live + store[d].free < MaxRows \/ store[d].free > 0
          BY <2>2 DEF Insert, Rows
        <4>3. s.live = store[d].live + 1 /\ s.orphans = store[d].orphans
              /\ s.free = (IF store[d].free > 0 THEN store[d].free - 1 ELSE 0)
          BY <2>1 DEF StoreType
        <4>4. s.live \in 0..MaxRows /\ s.free \in 0..MaxRows /\ s.live + s.free <= MaxRows
          <5>1. CASE store[d].free > 0
            BY <2>1, <4>1, <4>3, <5>1
          <5>2. CASE store[d].free = 0
            BY <2>1, <4>1, <4>2, <4>3, <5>2
          <5> QED
            BY <4>1, <5>1, <5>2
        <4>5. ASSUME NEW a \in 0..MaxRows, NEW b \in 0..MaxRows
              PROVE  [store[d] EXCEPT !.live = a, !.free = b] \in StoreType
          BY <2>1 DEF StoreType
        <4>6. s = [store[d] EXCEPT !.live = s.live, !.free = s.free]
          BY <2>1 DEF StoreType
        <4> QED
          BY <4>4, <4>5, <4>6
      <3> QED
        BY <1>12, <2>2, <3>1 DEF Insert
    <2>3. CASE Delete(d)
      <3>1. PICK o \in {store[d].orphans, TRUE} :
              Changes(d, [live |-> store[d].live - 1, free |-> store[d].free + 1, orphans |-> o])
        BY <2>3 DEF Delete
      <3>2. [live |-> store[d].live - 1, free |-> store[d].free + 1, orphans |-> o] \in StoreType
        <4>0. o \in BOOLEAN
          BY <2>1, <3>1 DEF StoreType
        <4>1. store[d].live \in Nat /\ store[d].free \in Nat /\ MaxRows \in Nat
          BY <2>1, BoundAssumption DEF StoreType
        <4>2. store[d].live > 0
          BY <2>3 DEF Delete
        <4>3. store[d].live - 1 \in 0..MaxRows /\ store[d].free + 1 \in 0..MaxRows
          <5>1. store[d].free + 1 <= MaxRows
            BY <2>1, <4>1, <4>2
          <5> QED
            BY <2>1, <4>1, <4>2, <5>1 DEF StoreType
        <4> QED
          BY <4>0, <4>3 DEF StoreType
      <3>3. (store[d].live - 1) + (store[d].free + 1) <= MaxRows
        BY <2>1, BoundAssumption DEF StoreType
      <3> QED
        BY <1>12, <3>1, <3>2, <3>3
    <2>4. CASE Clean(d)
      <3>1. Vacuumed(store[d]) \in StoreType /\ Vacuumed(store[d]).live + Vacuumed(store[d]).free <= MaxRows
        BY <2>1, BoundAssumption DEF Vacuumed, StoreType
      <3>2. [store[d] EXCEPT !.orphans = FALSE] \in StoreType
            /\ [store[d] EXCEPT !.orphans = FALSE].live + [store[d] EXCEPT !.orphans = FALSE].free <= MaxRows
        BY <2>1 DEF StoreType
      <3> QED
        BY <1>12, <2>4, <3>1, <3>2 DEF Clean
    <2> QED
      BY <1>13, <2>2, <2>3, <2>4
  <1>14. CASE RemoveTable
    <2>1. table' \in [state : {"absent", "broken", "whole"}, bytes : Baselines]
      BY <1>14 DEF RemoveTable, TypeInv
    <2> QED
      BY <1>14, <2>1, IdleType DEF RemoveTable, TypeInv, Rows, At
  <1> QED
    BY <1>1, <1>2, <1>3, <1>6, <1>7, <1>8, <1>9, <1>10, <1>11, <1>13, <1>14 DEF Next

\* For any processes, stores and bounds: no store outgrows its bound, and the
\* table, the baselines and what each process holds keep their types.
THEOREM TypeCorrect == Spec => []TypeOK
  BY TypeEnough, TypeInit, TypeStep, PTL DEF Spec

-----------------------------------------------------------------------------
(* Acceptance.                                                             *)

\* While baselines come one after the other: a table that can be read holds the
\* baselines reported, the one being recorded holds those of the other stores, and
\* what is being written cannot be read.
TableInv ==
  /\ table.state = "broken" => table.bytes = NoBaselines
  /\ ~lossy =>
       /\ table.state # "broken" => table.bytes = recorded
       /\ \A p, q \in Process : Recording(p) /\ Recording(q) => p = q
       /\ \A p \in Process : Recording(p) =>
            \A e \in Db \ {job[p].db} : job[p].table[e] = recorded[e]
       /\ \A p \in Process : At(p, "write") => table.state = "broken"

\* What a check of a store at rest has found is still so.
CheckInv(p) ==
  job[p].still =>
    /\ job[p].at \in {"orphans", "bytes", "judge", "accepted"} => store[job[p].db].free = 0
    /\ job[p].at \in {"bytes", "judge", "accepted"} => ~store[job[p].db].orphans
    /\ job[p].at \in {"judge", "accepted"} => job[p].bytes = Bytes(job[p].db)
    /\ job[p].at = "accepted" /\ ~lossy /\ recorded[job[p].db] > 0 =>
         job[p].bytes <= recorded[job[p].db]

AcceptInv == TableInv /\ \A p \in Process : CheckInv(p)

\* What is so when a check accepts is what it promises.
LEMMA AcceptEnough == AcceptInv => AcceptedIsForgotten
  BY DEF AcceptInv, CheckInv, AcceptedIsForgotten, At

\* Nothing is recorded and nothing checked at the start.
LEMMA AcceptInit == Init => AcceptInv
  BY DEF Init, AcceptInv, TableInv, CheckInv, Idle, Recording, At

\* A job that is as it was, or disturbed.
Same(p) == /\ job'[p].at = job[p].at /\ job'[p].db = job[p].db
           /\ job'[p].table = job[p].table /\ job'[p].bytes = job[p].bytes
           /\ job'[p].still => job[p].still

\* A check that did not move keeps what it found when its store and its baseline
\* are as they were, unless it is disturbed.
LEMMA CheckStands ==
  ASSUME NEW p, CheckInv(p), Same(p),
         job'[p].still => /\ store'[job[p].db] = store[job[p].db]
                          /\ ~lossy' /\ recorded'[job[p].db] > 0 =>
                               ~lossy /\ recorded'[job[p].db] = recorded[job[p].db]
  PROVE  CheckInv(p)'
  BY DEF CheckInv, Same, Bytes, Rows

\* The checks of a store are disturbed, the others as they were.
LEMMA DisturbedSame ==
  ASSUME NEW js \in [Process -> JobType], NEW d, NEW p \in Process
  PROVE  /\ Disturbed(js, d)[p].at = js[p].at /\ Disturbed(js, d)[p].db = js[p].db
         /\ Disturbed(js, d)[p].table = js[p].table /\ Disturbed(js, d)[p].bytes = js[p].bytes
         /\ Disturbed(js, d)[p].still => js[p].still /\ js[p].db # d
  BY DEF Disturbed, JobType

\* A store that changes disturbs whoever checks it.
LEMMA ChangesKeep ==
  ASSUME TypeInv, AcceptInv, NEW d \in Db, NEW s, Changes(d, s)
  PROVE  AcceptInv'
  <1>1. \A p \in Process : Same(p) /\ (job'[p].still => job[p].db # d)
    BY DisturbedSame DEF Changes, TypeInv, Same
  <1>2. UNCHANGED <<table, recorded, lossy>>
    BY DEF Changes
  <1>3. TableInv'
    BY <1>1, <1>2 DEF AcceptInv, TableInv, Same, Recording, At
  <1>4. ASSUME NEW p \in Process PROVE CheckInv(p)'
    <2>1. job'[p].still => store'[job[p].db] = store[job[p].db]
      BY <1>1 DEF Changes, TypeInv
    <2> QED
      BY <1>1, <1>2, <2>1, CheckStands DEF AcceptInv
  <1> QED
    BY <1>3, <1>4 DEF AcceptInv

\* A process that moves on alone, and records nothing that it did not.
LEMMA MovesOn ==
  ASSUME TypeInv, AcceptInv, NEW p \in Process, NEW j \in JobType, job' = [job EXCEPT ![p] = j],
         UNCHANGED <<store, table, recorded, lossy>>,
         j.at \notin {"measure", "truncate", "write"}, CheckInv(p)'
  PROVE  AcceptInv'
  <1>1. \A q \in Process : job'[q] = IF q = p THEN j ELSE job[q]
    BY DEF TypeInv
  <1>2. TableInv'
    BY <1>1 DEF AcceptInv, TableInv, Recording, At
  <1>3. ASSUME NEW q \in Process, q # p PROVE CheckInv(q)'
    BY <1>1, <1>3 DEF AcceptInv, CheckInv, Bytes, Rows
  <1> QED
    BY <1>2, <1>3 DEF AcceptInv

\* A baseline that is recorded alone keeps the table and disturbs its checks.
LEMMA BaselineKeeps ==
  ASSUME TypeInv, AcceptInv, NEW p \in Process,
         (\E d \in Db : BaselineLoads(p, d)) \/ BaselineMeasures(p) \/ BaselineTruncates(p)
           \/ BaselineWrites(p)
  PROVE  AcceptInv'
  <1>0. TableInv /\ \A q \in Process : CheckInv(q) /\ job[q] \in JobType
    BY DEF AcceptInv, TypeInv
  <1>1. ASSUME NEW d \in Db, BaselineLoads(p, d) PROVE AcceptInv'
    <2> DEFINE j == [Idle EXCEPT !.at = "measure", !.db = d, !.table = table.bytes]
    <2>1. j.at = "measure" /\ j.db = d /\ j.table = table.bytes /\ j.still = FALSE
      BY DEF Idle
    <2>2. \A q \in Process : job'[q] = IF q = p THEN j ELSE job[q]
      BY <1>1 DEF BaselineLoads, TypeInv
    <2>3. UNCHANGED <<store, table, recorded>> /\ table.state # "broken"
          /\ lossy' = (lossy \/ \E q \in Process : Recording(q)) /\ lossy \in BOOLEAN
      BY <1>1 DEF BaselineLoads, Loads, TypeInv
    <2>4. TableInv'
      <3>1. CASE ~lossy'
        <4>1. ~lossy /\ \A q \in Process : ~Recording(q)
          BY <2>3, <3>1
        <4>2. \A q \in Process : Recording(q)' => q = p
          BY <2>2, <4>1 DEF Recording
        <4>3. table.bytes = recorded
          BY <1>0, <2>3, <4>1 DEF TableInv
        <4>4. \A q \in Process : ~At(q, "write")'
          BY <2>1, <2>2, <4>1 DEF At, Recording
        <4> QED
          BY <1>0, <2>1, <2>2, <2>3, <4>2, <4>3, <4>4 DEF TableInv
      <3>2. CASE lossy'
        BY <1>0, <2>3, <3>2 DEF TableInv
      <3> QED
        BY <3>1, <3>2
    <2>5. ASSUME NEW q \in Process PROVE CheckInv(q)'
      <3>1. ~lossy' => ~lossy
        BY <2>3
      <3> QED
        BY <1>0, <2>1, <2>2, <2>3, <3>1 DEF CheckInv, Bytes, Rows
    <2> QED
      BY <2>4, <2>5 DEF AcceptInv
  <1>2. CASE BaselineMeasures(p)
    <2>1. \A q \in Process \ {p} : job'[q] = job[q]
      BY <1>2 DEF BaselineMeasures, TypeInv
    <2>2. /\ job[p].at = "measure" /\ job'[p].at = "truncate" /\ job'[p].db = job[p].db
          /\ \A e \in Db \ {job[p].db} : job'[p].table[e] = job[p].table[e]
      BY <1>2 DEF BaselineMeasures, TypeInv, JobType, Baselines, At
    <2>3. UNCHANGED <<store, table, recorded, lossy>>
      BY <1>2 DEF BaselineMeasures
    <2>4. TableInv'
      BY <1>0, <2>1, <2>2, <2>3 DEF TableInv, Recording, At
    <2>5. ASSUME NEW q \in Process PROVE CheckInv(q)'
      BY <1>0, <2>1, <2>2, <2>3 DEF CheckInv, Bytes, Rows
    <2> QED
      BY <2>4, <2>5 DEF AcceptInv
  <1>3. CASE BaselineTruncates(p)
    <2>1. \A q \in Process \ {p} : job'[q] = job[q]
      BY <1>3 DEF BaselineTruncates, Goto, TypeInv
    <2>2. /\ job[p].at = "truncate" /\ job'[p].at = "write" /\ job'[p].db = job[p].db
          /\ job'[p].table = job[p].table
      BY <1>3 DEF BaselineTruncates, Goto, TypeInv, JobType, At
    <2>3. UNCHANGED <<store, recorded, lossy>>
          /\ table'.state = "broken" /\ table'.bytes = NoBaselines
      BY <1>3 DEF BaselineTruncates
    <2>4. TableInv'
      BY <1>0, <2>1, <2>2, <2>3 DEF TableInv, Recording, At
    <2>5. ASSUME NEW q \in Process PROVE CheckInv(q)'
      BY <1>0, <2>1, <2>2, <2>3 DEF CheckInv, Bytes, Rows
    <2> QED
      BY <2>4, <2>5 DEF AcceptInv
  <1>4. CASE BaselineWrites(p)
    <2> DEFINE d == job[p].db
               ended == [job EXCEPT ![p] = Idle]
    <2>0. job[p].at = "write" /\ d \in Db /\ job[p].table \in Baselines /\ recorded \in Baselines
      BY <1>0, <1>4 DEF BaselineWrites, TypeInv, JobType, At
    <2>1. table' = [state |-> "whole", bytes |-> job[p].table]
          /\ recorded' = [recorded EXCEPT ![d] = job[p].table[d]]
          /\ job' = Disturbed(ended, d) /\ UNCHANGED <<store, lossy>>
      BY <1>4 DEF BaselineWrites
    <2>2. ended \in [Process -> JobType] /\ \A q \in Process : ended[q] = IF q = p THEN Idle ELSE job[q]
      BY IdleType DEF TypeInv
    <2>3. \A q \in Process : /\ job'[q].at = ended[q].at /\ job'[q].db = ended[q].db
                             /\ job'[q].table = ended[q].table /\ job'[q].bytes = ended[q].bytes
                             /\ job'[q].still => ended[q].still /\ ended[q].db # d
      <3>1. \A q \in Process :
              /\ Disturbed(ended, d)[q].at = ended[q].at /\ Disturbed(ended, d)[q].db = ended[q].db
              /\ Disturbed(ended, d)[q].table = ended[q].table
              /\ Disturbed(ended, d)[q].bytes = ended[q].bytes
              /\ Disturbed(ended, d)[q].still => ended[q].still /\ ended[q].db # d
        <4>1. ended \in [Process -> JobType]
          BY <2>2
        <4> HIDE DEF ended, d
        <4> QED
          BY <4>1, DisturbedSame
      <3> QED
        BY <2>1, <3>1
    <2>4. TableInv'
      <3>1. CASE ~lossy
        <4>1. \A q \in Process : ~Recording(q)' /\ ~At(q, "write")'
          <5>1. \A q \in Process : Recording(q) => q = p
            BY <1>0, <2>0, <3>1 DEF TableInv, Recording
          <5> QED
            BY <2>2, <2>3, <5>1, IdleType DEF Recording, At
        <4>2. \A e \in Db \ {d} : job[p].table[e] = recorded[e]
          BY <1>0, <2>0, <3>1 DEF TableInv, Recording
        <4>3. recorded' = job[p].table
          BY <2>0, <2>1, <4>2 DEF Baselines
        <4> QED
          BY <2>1, <4>1, <4>3 DEF TableInv
      <3>2. CASE lossy
        BY <2>1, <3>2 DEF TableInv
      <3> QED
        BY <3>1, <3>2 DEF TypeInv
    <2>5. ASSUME NEW q \in Process PROVE CheckInv(q)'
      <3>1. CASE q = p
        BY <2>2, <2>3, <3>1, IdleType DEF CheckInv
      <3>2. CASE q # p
        <4>1. Same(q) /\ (job'[q].still => job[q].db # d)
          BY <2>2, <2>3, <3>2 DEF Same
        <4>2. job'[q].still => recorded'[job[q].db] = recorded[job[q].db]
          BY <2>0, <2>1, <4>1 DEF Baselines
        <4> QED
          BY <1>0, <2>1, <4>1, <4>2, CheckStands
      <3> QED
        BY <3>1, <3>2
    <2> QED
      BY <2>4, <2>5 DEF AcceptInv
  <1> QED
    BY <1>1, <1>2, <1>3, <1>4

\* A check finds what is so.
LEMMA CheckKeeps ==
  ASSUME TypeInv, AcceptInv, NEW p \in Process,
         CountsFree(p) \/ CountsOrphans(p) \/ TakesSize(p) \/ Judges(p) \/ Ends(p) \/ Dies(p)
  PROVE  AcceptInv'
  <1>0. TableInv /\ CheckInv(p) /\ job[p] \in JobType
    BY DEF AcceptInv, TypeInv
  <1>1. ASSUME End(p), UNCHANGED <<store, table, recorded, lossy>> PROVE AcceptInv'
    <2>1. job' = [job EXCEPT ![p] = Idle]
      BY <1>1 DEF End
    <2>2. CheckInv(p)'
      BY <2>1, IdleType DEF CheckInv, TypeInv
    <2> QED
      BY <1>1, <2>1, <2>2, IdleType, MovesOn
  <1>2. ASSUME NEW l \in {"orphans", "bytes", "accepted"}, Goto(p, l),
               UNCHANGED <<store, table, recorded, lossy>>, CheckInv(p)'
        PROVE  AcceptInv'
    <2>1. job' = [job EXCEPT ![p] = [job[p] EXCEPT !.at = l]]
      BY <1>2 DEF Goto
    <2>2. [job[p] EXCEPT !.at = l] \in JobType /\ [job[p] EXCEPT !.at = l].at = l
      BY <1>0 DEF JobType
    <2> QED
      BY <1>2, <2>1, <2>2, MovesOn
  <1>3. ASSUME NEW l \in {"orphans", "bytes", "accepted"}, Goto(p, l)
        PROVE  job'[p].at = l /\ job'[p].db = job[p].db /\ job'[p].bytes = job[p].bytes
               /\ job'[p].still = job[p].still
    BY <1>0, <1>3 DEF Goto, TypeInv, JobType
  <1>4. CASE CountsFree(p)
    <2>1. UNCHANGED <<store, table, recorded, lossy>>
      BY <1>4 DEF CountsFree, Measures
    <2>2. CASE store[job[p].db].free = 0
      <3>1. Goto(p, "orphans")
        BY <1>4, <2>2 DEF CountsFree, Measures
      <3>2. CheckInv(p)'
        BY <1>3, <2>1, <2>2, <3>1 DEF CheckInv
      <3> QED
        BY <1>2, <2>1, <3>1, <3>2
    <2>3. CASE store[job[p].db].free # 0
      BY <1>1, <1>4, <2>1, <2>3 DEF CountsFree, Measures
    <2> QED
      BY <2>2, <2>3
  <1>5. CASE CountsOrphans(p)
    <2>1. UNCHANGED <<store, table, recorded, lossy>> /\ job[p].at = "orphans"
      BY <1>5 DEF CountsOrphans, Measures, At
    <2>2. CASE ~store[job[p].db].orphans
      <3>1. Goto(p, "bytes")
        BY <1>5, <2>2 DEF CountsOrphans, Measures
      <3>2. CheckInv(p)'
        BY <1>0, <1>3, <2>1, <2>2, <3>1 DEF CheckInv
      <3> QED
        BY <1>2, <2>1, <3>1, <3>2
    <2>3. CASE store[job[p].db].orphans
      BY <1>1, <1>5, <2>1, <2>3 DEF CountsOrphans, Measures
    <2> QED
      BY <2>2, <2>3
  <1>6. CASE TakesSize(p)
    <2> DEFINE j == [job[p] EXCEPT !.at = "judge", !.bytes = Bytes(job[p].db)]
    <2>1. UNCHANGED <<store, table, recorded, lossy>> /\ job[p].at = "bytes" /\ job[p].db \in Db
      BY <1>6 DEF TakesSize, TypeInv, At
    <2>2. job' = [job EXCEPT ![p] = j]
      BY <1>0, <1>6 DEF TakesSize, TypeInv, JobType
    <2>3. Bytes(job[p].db) \in 0..MaxRows + 1
      BY <2>1, BytesType, BoundAssumption
    <2>4. j \in JobType /\ j.at = "judge" /\ j.db = job[p].db /\ j.bytes = Bytes(job[p].db)
          /\ j.still = job[p].still
      BY <1>0, <2>3 DEF JobType
    <2>5. job'[p] = j
      BY <2>2 DEF TypeInv
    <2>6. CheckInv(p)'
      BY <1>0, <2>1, <2>4, <2>5 DEF CheckInv, Bytes, Rows
    <2> QED
      BY <2>1, <2>2, <2>4, <2>6, MovesOn
  <1>7. CASE Judges(p)
    <2> DEFINE base == table.bytes[job[p].db]
               ok == Loads /\ (base = 0 \/ job[p].bytes <= base)
    <2>1. UNCHANGED <<store, table, recorded, lossy>> /\ job[p].at = "judge" /\ job[p].db \in Db
      BY <1>7 DEF Judges, Measures, TypeInv, At
    <2>2. CASE ok
      <3>1. Goto(p, "accepted")
        BY <1>7, <2>2 DEF Judges, Measures
      <3>2. ~lossy /\ recorded[job[p].db] > 0 => job[p].bytes <= recorded[job[p].db]
        <4>1. ~lossy => table.bytes = recorded
          BY <1>0, <2>2 DEF TableInv, Loads
        <4> QED
          BY <2>2, <4>1
      <3>3. CheckInv(p)'
        BY <1>0, <1>3, <2>1, <3>1, <3>2 DEF CheckInv, Bytes, Rows
      <3> QED
        BY <1>2, <2>1, <3>1, <3>3
    <2>3. CASE ~ok
      BY <1>1, <1>7, <2>1, <2>3 DEF Judges, Measures
    <2> QED
      BY <2>2, <2>3
  <1>8. CASE Ends(p) \/ Dies(p)
    BY <1>1, <1>8 DEF Ends, Dies
  <1> QED
    BY <1>4, <1>5, <1>6, <1>7, <1>8

\* A check that begins, with --vacuum or without, disturbs those of the store.
LEMMA BeginKeeps ==
  ASSUME TypeInv, AcceptInv, NEW p \in Process, NEW d \in Db, CheckBegins(p, d)
  PROVE  AcceptInv'
  <1>1. \E s : store' = [store EXCEPT ![d] = s]
    BY DEF CheckBegins
  <1>2. job' = [Disturbed(job, d) EXCEPT ![p] = [Idle EXCEPT !.at = "free", !.db = d, !.still = TRUE]]
        /\ UNCHANGED <<table, recorded, lossy>>
    BY DEF CheckBegins
  <1>3. job'[p].at = "free"
    BY <1>2, DisturbedType DEF Idle, TypeInv
  <1>4. ASSUME NEW q \in Process, q # p PROVE Same(q) /\ (job'[q].still => job[q].db # d)
    <2>1. job'[q] = Disturbed(job, d)[q]
      BY <1>2, <1>4, DisturbedType DEF TypeInv
    <2> QED
      BY <2>1, DisturbedSame DEF TypeInv, Same
  <1>5. TableInv'
    BY <1>2, <1>3, <1>4 DEF AcceptInv, TableInv, Same, Recording, At
  <1>6. ASSUME NEW q \in Process PROVE CheckInv(q)'
    <2>1. CASE q = p
      BY <1>3, <2>1 DEF CheckInv
    <2>2. CASE q # p
      <3>1. job'[q].still => store'[job[q].db] = store[job[q].db]
        BY <1>1, <1>4, <2>2 DEF TypeInv
      <3> QED
        BY <1>2, <1>4, <2>2, <3>1, CheckStands DEF AcceptInv
    <2> QED
      BY <2>1, <2>2
  <1> QED
    BY <1>5, <1>6 DEF AcceptInv

\* Every step keeps what checks have found.
LEMMA AcceptStep == TypeInv /\ AcceptInv /\ [Next]_vars => AcceptInv'
  <1> SUFFICES ASSUME TypeInv, AcceptInv, [Next]_vars PROVE AcceptInv'
    OBVIOUS
  <1>1. CASE UNCHANGED vars
    BY <1>1 DEF vars, AcceptInv, TableInv, CheckInv, Recording, At, Bytes, Rows
  <1>2. ASSUME NEW d \in Db, Insert(d) \/ Delete(d) \/ Clean(d) PROVE AcceptInv'
    <2>1. \E s : Changes(d, s)
      BY <1>2 DEF Insert, Delete, Clean
    <2> QED
      BY <2>1, ChangesKeep
  <1>3. CASE RemoveTable
    <2>1. table.state = "broken" /\ table'.state = "absent" /\ table'.bytes = table.bytes
          /\ recorded' = NoBaselines /\ UNCHANGED <<store, job, lossy>>
          /\ \A p \in Process : ~Recording(p)
      BY <1>3 DEF RemoveTable, TypeInv
    <2>2. TableInv'
      BY <2>1 DEF AcceptInv, TableInv, Recording, At
    <2>3. ASSUME NEW p \in Process PROVE CheckInv(p)'
      <3>1. job[p].at = "accepted" => job[p].db \in Db
        BY DEF TypeInv, At
      <3>2. job[p].at = "accepted" => recorded'[job[p].db] = 0
        BY <2>1, <3>1 DEF NoBaselines
      <3> QED
        BY <2>1, <3>2 DEF AcceptInv, CheckInv, Bytes, Rows
    <2> QED
      BY <2>2, <2>3 DEF AcceptInv
  <1>4. ASSUME NEW p \in Process,
               \/ \E d \in Db : BaselineLoads(p, d) \/ CheckBegins(p, d)
               \/ BaselineMeasures(p) \/ BaselineTruncates(p) \/ BaselineWrites(p)
               \/ CountsFree(p) \/ CountsOrphans(p) \/ TakesSize(p) \/ Judges(p) \/ Ends(p) \/ Dies(p)
        PROVE  AcceptInv'
    BY <1>4, BaselineKeeps, BeginKeeps, CheckKeeps
  <1> QED
    BY <1>1, <1>2, <1>3, <1>4 DEF Next

\* For any processes and stores: a check that accepts a store left alone, with its
\* baseline, has found no free pages, no orphans and no growth against the baseline
\* last reported, unless two baselines were recorded at once.
THEOREM AcceptCorrect == Spec => []AcceptedIsForgotten
  BY AcceptEnough, TypeInit, TypeStep, AcceptInit, AcceptStep, PTL DEF Spec
=============================================================================
