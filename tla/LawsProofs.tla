----------------------------- MODULE LawsProofs -----------------------------
(***************************************************************************)
(* Theorems about the laws, for any number of processes, laws and deaths,  *)
(* whatever the shipped examples are numbered.                             *)
(***************************************************************************)
EXTENDS Laws, WellFoundedInduction, TLAPS

-----------------------------------------------------------------------------
(* The number that is picked.                                              *)

\* A set of numbers up to n that is not empty has a greatest one: what it lacks
\* to n has a least.
LEMMA Greatest ==
  ASSUME NEW n \in Nat, NEW S \in SUBSET (1..n), S # {}
  PROVE  Max(S) \in S /\ \A y \in S : y <= Max(S)
  <1> DEFINE Less == {ss \in Nat \X Nat : ss[1] < ss[2]}
             Lack == {n - x : x \in S}
  <1>1. IsWellFoundedOn(Less, Nat)
    BY NatLessThanWellFounded DEF OpToRel
  <1>2. PICK s \in S : TRUE
    OBVIOUS
  <1>3. n - s \in Lack /\ \A x \in S : n - x \in Nat
    OBVIOUS
  <1>4. Lack \subseteq Nat /\ Lack # {}
    BY <1>3
  <1> HIDE DEF Less
  <1>5. PICK m \in Lack : \A y \in Lack : <<y, m>> \notin Less
    BY <1>1, <1>4, WFMin
  <1>6. PICK g \in S : m = n - g
    OBVIOUS
  <1>7. \A y \in S : n - y \in Lack /\ <<n - y, m>> \notin Less
    BY <1>5
  <1>8. \A y \in S : ~ (n - y < m)
    BY <1>4, <1>7 DEF Less
  <1>9. \A y \in S : g >= y
    BY <1>6, <1>8
  <1> DEFINE M == CHOOSE x \in S : \A y \in S : x >= y
  <1>10. M \in S /\ \A y \in S : M >= y
    BY <1>9
  <1>11. Max(S) = M
    BY DEF Max
  <1> HIDE DEF M
  <1> QED
    BY <1>10, <1>11

Busy(p) == job[p].at # "idle"

\* No file and no process has a number beyond the laws made so far.
Bounded ==
  /\ \A n \in Taken : n <= made
  /\ \A p \in Process : Busy(p) => job[p].number <= made /\ job[p].law \in 1..made

TypeInv == TypeOK /\ Bounded

\* legislate.py next_id: the number is one no file has, and at most one more than
\* there have been laws.
LEMMA Fresh ==
  ASSUME TypeInv
  PROVE  next_id \in 1..(made + 1) /\ next_id \notin Taken
  <1>1. made \in Nat /\ MaxLaws \in Nat /\ Taken \in SUBSET (1..MaxLaws)
    BY BoundAssumption DEF TypeInv, TypeOK, Taken, Number
  <1>2. CASE Taken = {}
    BY <1>1, <1>2 DEF next_id
  <1>3. CASE Taken # {}
    <2> DEFINE m == Max(Taken)
    <2>1. m \in Taken /\ \A y \in Taken : y <= m
      BY <1>1, <1>3, Greatest
    <2>2. m \in 1..MaxLaws /\ m <= made
      BY <1>1, <2>1 DEF TypeInv, Bounded
    <2>3. next_id = m + 1
      BY <1>3 DEF next_id
    <2> HIDE DEF m
    <2>4. m + 1 \in 1..(made + 1) /\ \A y \in Taken : y # m + 1
      BY <1>1, <2>1, <2>2
    <2> QED
      BY <2>3, <2>4
  <1> QED
    BY <1>2, <1>3

-----------------------------------------------------------------------------
(* Types.                                                                  *)

Job == [at : {"idle", "open", "write"}, number : {0} \cup Number, law : Nat, debt : BOOLEAN]

\* Idle processes and files without a law have their types.
LEMMA Blank ==
  /\ Idle \in Job /\ Absent \in Law /\ Broken \in Law
  /\ \A l \in Nat, d \in BOOLEAN : Whole(l, d) \in Law
  /\ Idle.at = "idle" /\ Absent.state = "absent" /\ Broken.state = "broken"
  /\ Broken # Absent
  /\ \A l \in Nat, d \in BOOLEAN : /\ Whole(l, d).state = "whole"
                                   /\ Whole(l, d).law = l /\ Whole(l, d).debt = d
  BY DEF Idle, Job, Absent, Broken, Whole, Law

\* There is nothing at the start.
LEMMA LawsInit == Init => TypeInv
  <1> SUFFICES ASSUME Init PROVE TypeInv
    OBVIOUS
  <1>1. \A p \in Process : job[p] = Idle
    BY DEF Init
  <1>2. Taken = {}
    BY DEF Init, Taken
  <1>3. TypeOK
    BY <1>1, Blank, BoundAssumption DEF Init, TypeOK, Job
  <1> QED
    BY <1>1, <1>2, <1>3, Blank DEF TypeInv, Bounded, Busy

\* A process at work has a file of its own number.
LEMMA BusyType ==
  ASSUME TypeInv, NEW p \in Process, Busy(p)
  PROVE  job[p] \in Job /\ job[p].number \in Number /\ job[p].number <= made
  BY DEF TypeInv, TypeOK, Bounded, Busy, Job

\* Every step keeps the types and the bounds.
LEMMA LawsStep == TypeInv /\ [Next]_vars => TypeInv'
  <1> SUFFICES ASSUME TypeInv, [Next]_vars PROVE TypeInv'
    OBVIOUS
  <1>0. made \in Nat /\ made' \in Nat /\ MaxLaws \in Nat
    <2>1. made \in Nat
      BY BoundAssumption DEF TypeInv, TypeOK
    <2> QED
      BY <2>1, BoundAssumption DEF Next, Pick, Open, Write, Kill, Enforce, Discard, vars
  <1> DEFINE Same == made' = made /\ shared' = shared /\ settled' \subseteq Nat /\ kills' \in Nat
  <1>A. ASSUME file' \in [Number -> Law], job' \in [Process -> Job], Same, told' \subseteq Row,
               \A n \in Number : file'[n] # Absent => n <= made,
               \A p \in Process : job'[p].at # "idle" =>
                 /\ job'[p].number \in Number /\ job'[p].number <= made
                 /\ job'[p].law \in 1..made
        PROVE  TypeInv'
    <2>1. TypeOK'
      BY <1>A DEF TypeInv, TypeOK, Job
    <2>2. Bounded'
      BY <1>A DEF Bounded, Busy, Taken
    <2> QED
      BY <2>1, <2>2 DEF TypeInv
  <1>B. /\ \A n \in Number : file[n] # Absent => n <= made
        /\ \A p \in Process : job[p].at # "idle" =>
             /\ job[p].number \in Number /\ job[p].number <= made /\ job[p].law \in 1..made
        /\ file \in [Number -> Law] /\ job \in [Process -> Job] /\ told \subseteq Row
        /\ shared \subseteq Number /\ settled \subseteq Nat /\ kills \in Nat
    BY DEF TypeInv, TypeOK, Bounded, Busy, Taken, Job
  <1>1. ASSUME NEW p \in Process, Pick(p) PROVE TypeInv'
    <2>1. next_id \in Number /\ next_id <= made'
      BY <1>0, <1>1, Fresh DEF Pick, Number
    <2>2. PICK d \in BOOLEAN :
            job' = [job EXCEPT ![p] = [at |-> "open", number |-> next_id, law |-> made + 1, debt |-> d]]
      BY <1>1 DEF Pick
    <2> DEFINE j == [at |-> "open", number |-> next_id, law |-> made + 1, debt |-> d]
    <2>3. j \in Job /\ j.number = next_id /\ j.law = made + 1
      BY <1>0, <2>1 DEF Job
    <2> HIDE DEF j
    <2>4. \A q \in Process : job'[q] = IF q = p THEN j ELSE job[q]
      BY <1>B, <2>2 DEF j
    <2>5. job' \in [Process -> Job]
      BY <1>B, <2>2, <2>3 DEF j
    <2>6. made' = made + 1 /\ made' \in 0..MaxLaws
      BY <1>0, <1>1 DEF Pick
    <2>7. TypeOK'
      <3>1. shared' \subseteq Number
        BY <1>1, <1>B, <2>1 DEF Pick
      <3>2. \A q \in Process : job'[q].at # "idle" => job'[q].number \in Number
        BY <1>B, <2>1, <2>3, <2>4
      <3> QED
        BY <1>1, <1>B, <2>5, <2>6, <3>1, <3>2 DEF Pick, TypeOK, Job
    <2>8. Bounded'
      <3>1. \A n \in Taken' : n <= made'
        BY <1>0, <1>1, <1>B, <2>6 DEF Pick, Taken, Number
      <3>2. \A q \in Process : job'[q].at # "idle" => job'[q].number <= made' /\ job'[q].law \in 1..made'
        BY <1>0, <1>B, <2>1, <2>3, <2>4, <2>6 DEF Number
      <3> QED
        BY <3>1, <3>2 DEF Bounded, Busy
    <2> QED
      BY <2>7, <2>8 DEF TypeInv
  <1>2. ASSUME NEW p \in Process, Open(p) PROVE TypeInv'
    <2>1. Busy(p)
      BY <1>2 DEF Open, Busy
    <2> DEFINE j == [job[p] EXCEPT !.at = "write"]
    <2>2. j \in Job /\ j.number = job[p].number /\ j.law = job[p].law /\ job' = [job EXCEPT ![p] = j]
      BY <1>2, <2>1, BusyType DEF Open, Job
    <2> HIDE DEF j
    <2>3. \A q \in Process : job'[q] = IF q = p THEN j ELSE job[q]
      BY <1>B, <2>2
    <2>4. \A n \in Number : file'[n] = IF n = job[p].number THEN Broken ELSE file[n]
      BY <1>2, <1>B DEF Open
    <2>5. file' \in [Number -> Law] /\ job' \in [Process -> Job]
      BY <1>2, <1>B, <2>2, Blank DEF Open
    <2> QED
      BY <1>2, <1>A, <1>B, <2>1, <2>2, <2>3, <2>4, <2>5, BusyType DEF Open, Busy
  <1>3. ASSUME NEW p \in Process, Write(p) PROVE TypeInv'
    <2>1. Busy(p) /\ job[p] \in Job /\ job[p].number \in Number /\ job[p].number <= made
      BY <1>3, BusyType DEF Write, Busy
    <2>2. PICK f : f \in {Whole(job[p].law, job[p].debt), Broken}
                     /\ file' = [file EXCEPT ![job[p].number] = f]
      BY <1>3 DEF Write
    <2>3. f \in Law
      <3>1. job[p].law \in Nat /\ job[p].debt \in BOOLEAN
        BY <2>1 DEF Job
      <3> QED
        BY <2>2, <3>1, Blank
    <2>4. \A n \in Number : file'[n] = IF n = job[p].number THEN f ELSE file[n]
      BY <1>B, <2>2
    <2>5. \A q \in Process : job'[q] = IF q = p THEN Idle ELSE job[q]
      BY <1>3, <1>B DEF Write
    <2>6. file' \in [Number -> Law] /\ job' \in [Process -> Job]
      BY <1>3, <1>B, <2>2, <2>3, Blank DEF Write
    <2>7. told' \subseteq Row
      BY <1>3, <1>B, <2>1, BoundAssumption DEF Write, Row, Job, Number
    <2> QED
      BY <1>3, <1>A, <1>B, <2>1, <2>4, <2>5, <2>6, <2>7, Blank DEF Write
  <1>4. ASSUME NEW p \in Process, Kill(p) PROVE TypeInv'
    <2>1. \A q \in Process : job'[q] = IF q = p THEN Idle ELSE job[q]
      BY <1>4, <1>B DEF Kill
    <2>2. job' \in [Process -> Job]
      BY <1>4, <1>B, Blank DEF Kill
    <2> QED
      BY <1>4, <1>A, <1>B, <2>1, <2>2, Blank DEF Kill
  <1>5. ASSUME NEW n \in Number, Enforce(n) PROVE TypeInv'
    <2>1. file[n] \in Law /\ file[n].state = "whole" /\ file[n] # Absent
      BY <1>5, <1>B, Blank DEF Enforce, Own
    <2>2. [file[n] EXCEPT !.debt = FALSE] \in Law
      BY <2>1 DEF Law
    <2>3. \A m \in Number : file'[m] = IF m = n THEN [file[n] EXCEPT !.debt = FALSE] ELSE file[m]
      BY <1>5, <1>B DEF Enforce
    <2>4. file' \in [Number -> Law]
      BY <1>5, <1>B, <2>2 DEF Enforce
    <2>5. settled' \subseteq Nat
      <3>1. file[n].law \in Nat
        BY <2>1 DEF Law
      <3> QED
        BY <1>5, <1>B, <3>1 DEF Enforce
    <2> QED
      BY <1>5, <1>A, <1>B, <2>1, <2>3, <2>4, <2>5 DEF Enforce
  <1>6. ASSUME NEW n \in Number, Discard(n) PROVE TypeInv'
    <2>1. \A m \in Number : file'[m] = IF m = n THEN Absent ELSE file[m]
      BY <1>6, <1>B DEF Discard
    <2>2. file' \in [Number -> Law]
      BY <1>6, <1>B, Blank DEF Discard
    <2> QED
      BY <1>6, <1>A, <1>B, <2>1, <2>2 DEF Discard
  <1>7. CASE UNCHANGED vars
    BY <1>7, <1>A, <1>B DEF vars
  <1> QED
    BY <1>1, <1>2, <1>3, <1>4, <1>5, <1>6, <1>7 DEF Next
-----------------------------------------------------------------------------
(* The laws that were reported.                                            *)

\* Two processes at work have two laws, and one number only if it is shared. A law
\* at work is in no file yet, is not settled and was not reported.
WorkInv ==
  /\ \A p, q \in Process : p # q /\ Busy(p) /\ Busy(q) =>
       /\ job[p].law # job[q].law
       /\ job[p].number = job[q].number => job[p].number \in shared
  /\ \A p \in Process : Busy(p) =>
       /\ job[p].law \notin settled
       /\ \A n \in Number : file[n].state = "whole" => file[n].law # job[p].law

\* No law is in two files, and none is of a number beyond those made.
FileInv ==
  /\ \A n \in Number : file[n].state = "whole" => file[n].law \in 1..made
  /\ \A m, n \in Number : file[m].state = "whole" /\ file[n].state = "whole" /\ file[m].law = file[n].law
       => m = n
  /\ settled \subseteq 1..made

\* The file of a law that was reported, but for a number picked twice, is whole and
\* says what was reported, until its enforcer is written in; and nobody is about to
\* write it.
Stands(t) ==
  /\ t.number \in Number
  /\ file[t.number].state = "whole" /\ file[t.number].law = t.law
  /\ file[t.number].debt <=> t.debt /\ t.law \notin settled
  /\ \A p \in Process : Busy(p) => job[p].number # t.number

ToldInv == \A t \in told : t.number \notin shared => Stands(t)

LawInv == WorkInv /\ FileInv /\ ToldInv

\* A process that stops, or goes on with the law it has, changes nothing else.
LEMMA WorkStays ==
  ASSUME LawInv, file' = file, made' = made, told' = told, shared' = shared, settled' = settled,
         \A q \in Process : Busy(q)' =>
           Busy(q) /\ job'[q].law = job[q].law /\ job'[q].number = job[q].number
  PROVE  LawInv'
  <1>1. WorkInv'
    BY DEF LawInv, WorkInv
  <1>2. FileInv'
    BY DEF LawInv, FileInv
  <1>3. \A t \in told : Stands(t) => Stands(t)'
    BY DEF Stands
  <1> QED
    BY <1>1, <1>2, <1>3 DEF LawInv, ToldInv

\* A file that changes, and has nobody's law now, with no law reported of it.
LEMMA FileEmptied ==
  ASSUME TypeInv, LawInv, NEW n \in Number, NEW f, file' = [file EXCEPT ![n] = f], f.state # "whole",
         made' = made, told' = told, shared' = shared, settled' = settled,
         \A q \in Process : Busy(q)' =>
           Busy(q) /\ job'[q].law = job[q].law /\ job'[q].number = job[q].number,
         (\E p \in Process : Busy(p) /\ job[p].number = n) \/ file[n].state # "whole"
  PROVE  LawInv'
  <1>1. \A m \in Number : file'[m] = IF m = n THEN f ELSE file[m]
    BY DEF TypeInv, TypeOK
  <1>2. WorkInv'
    BY <1>1 DEF LawInv, WorkInv
  <1>3. FileInv'
    BY <1>1 DEF LawInv, FileInv
  <1>4. ASSUME NEW t \in told, Stands(t) PROVE Stands(t)'
    BY <1>1, <1>4 DEF Stands
  <1> QED
    BY <1>2, <1>3, <1>4 DEF LawInv, ToldInv

\* A law whose number is picked is new, and so is its number.
LEMMA PickLaw == ASSUME TypeInv, LawInv, NEW p \in Process, Pick(p) PROVE LawInv'
  <1> DEFINE n == next_id
  <1>1. PICK d \in BOOLEAN :
          job' = [job EXCEPT ![p] = [at |-> "open", number |-> n, law |-> made + 1, debt |-> d]]
    BY DEF Pick
  <1>2. n \notin Taken
    BY Fresh
  <1> HIDE DEF n
  <1>3. /\ \A q \in Process : q # p => job'[q] = job[q]
        /\ job'[p].number = n /\ job'[p].law = made + 1 /\ ~Busy(p) /\ Busy(p)'
        /\ made \in Nat /\ made' = made + 1
        /\ file' = file /\ told' = told /\ settled' = settled
    BY <1>1, BoundAssumption DEF Pick, TypeInv, TypeOK, Busy
  <1>4. /\ shared \subseteq shared'
        /\ \A q \in Process : Busy(q) /\ job[q].number = n => n \in shared'
    BY DEF Pick, Busy, n
  <1>5. \A q \in Process : Busy(q) => job[q].law \in 1..made
    BY DEF TypeInv, Bounded
  <1>6. FileInv'
    BY <1>3 DEF LawInv, FileInv
  <1>7. WorkInv'
    <2>1. \A q \in Process : q # p => (Busy(q)' <=> Busy(q))
      BY <1>3 DEF Busy
    <2>2. ASSUME NEW q \in Process, NEW r \in Process, q # r, Busy(q)', Busy(r)'
          PROVE  /\ job'[q].law # job'[r].law
                 /\ job'[q].number = job'[r].number => job'[q].number \in shared'
      <3>1. CASE q = p
        BY <1>3, <1>4, <1>5, <2>1, <2>2, <3>1
      <3>2. CASE r = p
        BY <1>3, <1>4, <1>5, <2>1, <2>2, <3>2
      <3>3. CASE q # p /\ r # p
        BY <1>3, <1>4, <2>1, <2>2, <3>3 DEF LawInv, WorkInv
      <3> QED
        BY <3>1, <3>2, <3>3
    <2>3. ASSUME NEW q \in Process, Busy(q)'
          PROVE  /\ job'[q].law \notin settled'
                 /\ \A m \in Number : file'[m].state = "whole" => file'[m].law # job'[q].law
      <3>1. CASE q = p
        BY <1>3, <3>1 DEF LawInv, FileInv
      <3>2. CASE q # p
        BY <1>3, <2>1, <2>3, <3>2 DEF LawInv, WorkInv
      <3> QED
        BY <3>1, <3>2
    <2> QED
      BY <2>2, <2>3 DEF WorkInv
  <1>8. ASSUME NEW t \in told, t.number \notin shared' PROVE Stands(t)'
    <2>1. Stands(t)
      BY <1>4, <1>8 DEF LawInv, ToldInv
    <2>2. t.number # n
      BY <1>2, <2>1, Blank DEF Stands, Taken
    <2> QED
      BY <1>3, <2>1, <2>2 DEF Stands, Busy
  <1> QED
    BY <1>3, <1>6, <1>7, <1>8 DEF LawInv, ToldInv

\* The law that is written is in no other file, and was reported before of a number
\* picked twice at most.
LEMMA WriteLaw == ASSUME TypeInv, LawInv, NEW p \in Process, Write(p) PROVE LawInv'
  <1> DEFINE n == job[p].number
             t == [number |-> n, law |-> job[p].law, debt |-> job[p].debt]
  <1>1. /\ Busy(p) /\ n \in Number /\ job[p].law \in 1..made /\ job[p].law \in Nat
        /\ job[p].debt \in BOOLEAN /\ made \in Nat
    BY BusyType, BoundAssumption DEF Write, Busy, TypeInv, TypeOK, Bounded, Job
  <1>2. PICK f \in {Whole(job[p].law, job[p].debt)} \cup (IF n \in shared THEN {Broken} ELSE {}) :
          file' = [file EXCEPT ![n] = f]
    BY DEF Write
  <1>3. /\ \A q \in Process : q # p => job'[q] = job[q]
        /\ ~Busy(p)'
        /\ made' = made /\ told' = told \cup {t} /\ settled' = settled /\ shared' = shared
    BY Blank DEF Write, TypeInv, TypeOK, Busy
  <1> HIDE DEF n, t
  <1>4. \A m \in Number : file'[m] = IF m = n THEN f ELSE file[m]
    BY <1>2 DEF TypeInv, TypeOK
  <1>5. /\ f.state = "whole" => f.law = job[p].law
        /\ n \notin shared => f.state = "whole" /\ f.law = job[p].law /\ f.debt = job[p].debt
    BY <1>1, <1>2, Blank
  <1>6. \A q \in Process : Busy(q)' => q # p /\ Busy(q) /\ job'[q] = job[q]
    BY <1>3 DEF Busy
  <1>7. WorkInv'
    <2>1. ASSUME NEW q \in Process, Busy(q)', NEW m \in Number, file'[m].state = "whole"
          PROVE  file'[m].law # job'[q].law
      <3>1. CASE m = n
        BY <1>1, <1>4, <1>5, <1>6, <2>1, <3>1 DEF LawInv, WorkInv
      <3>2. CASE m # n
        BY <1>4, <1>6, <2>1, <3>2 DEF LawInv, WorkInv
      <3> QED
        BY <3>1, <3>2
    <2>2. \A q, r \in Process : q # r /\ Busy(q)' /\ Busy(r)' =>
            /\ job'[q].law # job'[r].law
            /\ job'[q].number = job'[r].number => job'[q].number \in shared'
      BY <1>3, <1>6 DEF LawInv, WorkInv
    <2>3. \A q \in Process : Busy(q)' => job'[q].law \notin settled'
      BY <1>3, <1>6 DEF LawInv, WorkInv
    <2> QED
      BY <2>1, <2>2, <2>3 DEF WorkInv
  <1>8. FileInv'
    <2>1. \A m \in Number : file'[m].state = "whole" => file'[m].law \in 1..made'
      BY <1>1, <1>3, <1>4, <1>5 DEF LawInv, FileInv
    <2>2. ASSUME NEW m \in Number, NEW k \in Number, file'[m].state = "whole",
                 file'[k].state = "whole", file'[m].law = file'[k].law
          PROVE  m = k
      <3>1. CASE m # n /\ k # n
        BY <1>4, <2>2, <3>1 DEF LawInv, FileInv
      <3>2. CASE m = n /\ k # n
        BY <1>1, <1>4, <1>5, <2>2, <3>2 DEF LawInv, WorkInv
      <3>3. CASE m # n /\ k = n
        BY <1>1, <1>4, <1>5, <2>2, <3>3 DEF LawInv, WorkInv
      <3> QED
        BY <3>1, <3>2, <3>3
    <2> QED
      BY <1>3, <2>1, <2>2 DEF LawInv, FileInv
  <1>9. ASSUME NEW u \in told', u.number \notin shared' PROVE Stands(u)'
    <2>1. CASE u \in told
      <3>1. Stands(u)
        BY <1>3, <1>9, <2>1 DEF LawInv, ToldInv
      <3>2. u.number # n
        BY <1>1, <3>1 DEF Stands, n
      <3> QED
        BY <1>3, <1>4, <1>6, <3>1, <3>2 DEF Stands
    <2>2. CASE u = t
      <3>1. u.number = n /\ u.law = job[p].law /\ u.debt = job[p].debt
        BY <2>2 DEF t, n
      <3>2. n \notin shared /\ job[p].law \notin settled
        BY <1>1, <1>3, <1>9, <3>1 DEF LawInv, WorkInv
      <3>3. \A q \in Process : Busy(q)' => job'[q].number # n
        BY <1>1, <1>6, <3>2 DEF LawInv, WorkInv, n
      <3> QED
        BY <1>1, <1>3, <1>4, <1>5, <3>1, <3>2, <3>3 DEF Stands
    <2> QED
      BY <1>3, <1>9, <2>1, <2>2
  <1> QED
    BY <1>7, <1>8, <1>9 DEF LawInv, ToldInv

\* A law whose enforcer is written in is no debt from then on; the others are what
\* they were.
LEMMA EnforceLaw == ASSUME TypeInv, LawInv, NEW n \in Number, Enforce(n) PROVE LawInv'
  <1>1. /\ file[n].state = "whole" /\ file[n] \in Law
        /\ settled' = settled \cup {file[n].law}
        /\ job' = job /\ made' = made /\ told' = told /\ shared' = shared
    BY DEF Enforce, Own, TypeInv, TypeOK
  <1>2. \A m \in Number : file'[m] = IF m = n THEN [file[n] EXCEPT !.debt = FALSE] ELSE file[m]
    BY DEF Enforce, TypeInv, TypeOK
  <1>3. file'[n].state = "whole" /\ file'[n].law = file[n].law /\ file'[n].debt = FALSE
    BY <1>1, <1>2 DEF Law
  <1>4. \A m \in Number : file'[m].state = file[m].state /\ file'[m].law = file[m].law
    BY <1>1, <1>2, <1>3
  <1>5. \A q \in Process : Busy(q)' <=> Busy(q)
    BY <1>1 DEF Busy
  <1>6. WorkInv'
    BY <1>1, <1>4, <1>5 DEF LawInv, WorkInv
  <1>7. FileInv'
    BY <1>1, <1>4 DEF LawInv, FileInv
  <1>8. ASSUME NEW t \in told, t.number \notin shared PROVE Stands(t)'
    <2>1. Stands(t)
      BY <1>8 DEF LawInv, ToldInv
    <2>2. CASE t.number = n
      BY <1>1, <1>3, <1>5, <2>1, <2>2 DEF Stands
    <2>3. CASE t.number # n
      <3>1. t.law # file[n].law
        BY <1>1, <2>1, <2>3 DEF Stands, LawInv, FileInv
      <3> QED
        BY <1>1, <1>2, <1>5, <2>1, <2>3, <3>1 DEF Stands
    <2> QED
      BY <2>2, <2>3
  <1> QED
    BY <1>1, <1>6, <1>7, <1>8 DEF LawInv, ToldInv

\* Every step keeps all of it.
LEMMA LawStep == TypeInv /\ LawInv /\ [Next]_vars => LawInv'
  <1> SUFFICES ASSUME TypeInv, LawInv, [Next]_vars PROVE LawInv'
    OBVIOUS
  <1>1. ASSUME NEW p \in Process, Open(p) PROVE LawInv'
    <2>1. Busy(p) /\ job[p].number \in Number
      BY <1>1, BusyType DEF Open, Busy
    <2>2. \A q \in Process : Busy(q)' =>
            Busy(q) /\ job'[q].law = job[q].law /\ job'[q].number = job[q].number
      BY <1>1, <2>1 DEF Open, Busy, TypeInv, TypeOK
    <2> QED
      BY <1>1, <2>1, <2>2, FileEmptied, Blank DEF Open
  <1>2. ASSUME NEW p \in Process, Kill(p) PROVE LawInv'
    <2>1. \A q \in Process : Busy(q)' => Busy(q) /\ job'[q] = job[q]
      BY <1>2, Blank DEF Kill, Busy, TypeInv, TypeOK
    <2> QED
      BY <1>2, <2>1, WorkStays DEF Kill
  <1>3. ASSUME NEW n \in Number, Discard(n) PROVE LawInv'
    <2>1. file[n].state # "whole" /\ Absent.state # "whole"
      BY <1>3, Blank DEF Discard
    <2> QED
      BY <1>3, <2>1, FileEmptied DEF Discard, Busy
  <1>4. CASE UNCHANGED vars
    BY <1>4, WorkStays DEF vars, Busy
  <1> QED
    BY <1>1, <1>2, <1>3, <1>4, PickLaw, WriteLaw, EnforceLaw DEF Next

\* What the theorems below rest on, of every behaviour.
LEMMA LawsSafe == Spec => [](TypeInv /\ LawInv)
  <1>1. Init => TypeInv /\ LawInv
    <2>1. Init => LawInv
      BY Blank DEF Init, LawInv, WorkInv, FileInv, ToldInv, Busy
    <2> QED
      BY <2>1, LawsInit
  <1>2. TypeInv /\ LawInv /\ [Next]_vars => (TypeInv /\ LawInv)'
    BY LawsStep, LawStep
  <1> QED
    BY <1>1, <1>2, PTL DEF Spec

-----------------------------------------------------------------------------
(* The theorems.                                                           *)

\* legislate.py: the law files, the processes and their reports have their types;
\* a number is never beyond those of the laws made.
THEOREM LawsTypes == Spec => []TypeOK
  <1>1. TypeInv => TypeOK
    BY DEF TypeInv
  <1> QED
    BY <1>1, LawsSafe, PTL

\* legislate.py new: the law that was reported for a number is what its file says,
\* whoever dies and whatever is discarded, unless two picked that number at once.
THEOREM LawsAreKept == Spec => []LawKept
  <1>1. LawInv => LawKept
    BY DEF LawInv, ToldInv, Stands, LawKept
  <1> QED
    BY <1>1, LawsSafe, PTL

\* legislate.py debts: a law that was reported is counted exactly while it is a
\* debt, whatever the examples are numbered.
THEOREM DebtsAreVisible == Spec => []DebtsVisible
  <1>1. ASSUME LawInv, NEW t \in told, t \in Row, t.number \notin shared
        PROVE  t \in Debts <=> t.debt /\ t.law \notin settled
    <2> DEFINE n == t.number
    <2>1. Stands(t) /\ n \in Own
      BY <1>1 DEF LawInv, ToldInv, Stands, Own
    <2>2. t \in Rows <=> t = OwnRow(n)
      <3>1. \A m \in Own : t = OwnRow(m) => m = n
        BY DEF OwnRow
      <3>2. \A m \in Example \ Own : t # ExampleRow(m)
        BY <2>1 DEF ExampleRow
      <3> QED
        BY <2>1, <3>1, <3>2 DEF Rows
    <2>3. t = OwnRow(n) <=> file[n].law = t.law /\ file[n].debt = t.debt
      BY <1>1 DEF OwnRow, Row
    <2> QED
      BY <2>1, <2>2, <2>3 DEF Debts, Stands
  <1>2. TypeInv /\ LawInv => DebtsVisible
    BY <1>1 DEF DebtsVisible, TypeInv, TypeOK
  <1> QED
    BY <1>2, LawsSafe, PTL
=============================================================================
