-------------------------------- MODULE Laws --------------------------------
(***************************************************************************)
(* The laws of laws/legislate.py: new, which picks the next number and     *)
(* then writes law-<number>.json in place, and the count of debts that a   *)
(* tick records, over the laws written here and the examples shipped.      *)
(***************************************************************************)
EXTENDS Naturals, FiniteSets, FiniteSetsExt

CONSTANTS
  Process,  \* the processes that run legislate.py new
  Example,  \* the numbers of the laws in laws/examples
  MaxLaws,  \* bound: laws made
  MaxKills  \* bound: processes that die

ASSUME ExampleAssumption == Example \subseteq Nat
ASSUME BoundAssumption == MaxLaws \in Nat /\ MaxKills \in Nat

Number == 1..MaxLaws

VARIABLES
  file,    \* law-<n>.json of each number
  job,     \* what each process is doing
  made,    \* number of laws made so far: each has its own
  told,    \* the laws new has reported, with the numbers they were given
  shared,  \* the numbers two processes have picked at the same time
  settled, \* the laws whose enforcer has been written in
  kills    \* number of processes that have died

vars == <<file, job, made, told, shared, settled, kills>>

-----------------------------------------------------------------------------

\* Broken is a file that is no JSON: just truncated, or written by two at once.
Absent == [state |-> "absent", law |-> 0, debt |-> FALSE]
Broken == [state |-> "broken", law |-> 0, debt |-> FALSE]
Whole(l, d) == [state |-> "whole", law |-> l, debt |-> d]

Law == [state : {"absent", "broken", "whole"}, law : Nat, debt : BOOLEAN]

Idle == [at |-> "idle", number |-> 0, law |-> 0, debt |-> FALSE]

Taken == {n \in Number : file[n] # Absent}

\* Mutant: the numbers start at 0.
NextIdFromZero == IF Taken = {} THEN 0 ELSE Max(Taken) + 1

\* Mutant: the laws are counted.
NextIdCounted == Cardinality(Taken) + 1

\* One more than the greatest number among the names of the files.
next_id == IF Taken = {} THEN 1 ELSE Max(Taken) + 1

Init ==
  /\ file = [n \in Number |-> Absent]
  /\ job = [p \in Process |-> Idle]
  /\ made = 0
  /\ told = {}
  /\ shared = {}
  /\ settled = {}
  /\ kills = 0

-----------------------------------------------------------------------------
(* legislate.py new                                                        *)

\* The number is picked from the files, of which those that other processes
\* are about to write are not there yet; the document is made and validated.
Pick(p) ==
  LET n == next_id IN
  /\ job[p].at = "idle"
  /\ made < MaxLaws
  /\ made' = made + 1
  /\ \E d \in BOOLEAN :
       job' = [job EXCEPT ![p] = [at |-> "open", number |-> n, law |-> made + 1, debt |-> d]]
  /\ shared' = IF \E q \in Process : job[q].at # "idle" /\ job[q].number = n
               THEN shared \cup {n} ELSE shared
  /\ UNCHANGED <<file, told, settled, kills>>

\* write_text truncates the file, ...
Open(p) ==
  /\ job[p].at = "open"
  /\ file' = [file EXCEPT ![job[p].number] = Broken]
  /\ job' = [job EXCEPT ![p].at = "write"]
  /\ UNCHANGED <<made, told, shared, settled, kills>>

\* ... then writes it; what two processes write to one file may mix.
Write(p) ==
  LET j == job[p] IN
  /\ j.at = "write"
  /\ \E f \in {Whole(j.law, j.debt)} \cup (IF j.number \in shared THEN {Broken} ELSE {}) :
       file' = [file EXCEPT ![j.number] = f]
  /\ told' = told \cup {[number |-> j.number, law |-> j.law, debt |-> j.debt]}
  /\ job' = [job EXCEPT ![p] = Idle]
  /\ UNCHANGED <<made, shared, settled, kills>>

-----------------------------------------------------------------------------
(* legislate.py debts --count                                              *)

Own == {n \in Number : file[n].state = "whole"}
OwnRow(n) == [number |-> n, law |-> file[n].law, debt |-> file[n].debt]
ExampleRow(n) == [number |-> n, law |-> 0, debt |-> FALSE]

\* Mutant: the examples are read first.
RowsExamplesFirst == {ExampleRow(n) : n \in Example} \cup {OwnRow(n) : n \in Own \ Example}

\* A number is listed once: an example whose number is taken here is not.
Rows == {OwnRow(n) : n \in Own} \cup {ExampleRow(n) : n \in Example \ Own}

\* json.load raises on a broken file: there is no count, and a tick records "?".
Readable == \A n \in Number : file[n] # Broken

Debts == {r \in Rows : r.debt}

-----------------------------------------------------------------------------
(* The agent, and death.                                                   *)

\* The agent writes the enforcer of a law into its file.
Enforce(n) ==
  /\ n \in Own /\ file[n].debt
  /\ file' = [file EXCEPT ![n].debt = FALSE]
  /\ settled' = settled \cup {file[n].law}
  /\ UNCHANGED <<job, made, told, shared, kills>>

\* The agent trashes a broken file that no process is writing.
Discard(n) ==
  /\ file[n] = Broken
  /\ \A p \in Process : job[p].at # "idle" => job[p].number # n
  /\ file' = [file EXCEPT ![n] = Absent]
  /\ UNCHANGED <<job, made, told, shared, settled, kills>>

Kill(p) ==
  /\ kills < MaxKills
  /\ job[p].at # "idle"
  /\ kills' = kills + 1
  /\ job' = [job EXCEPT ![p] = Idle]
  /\ UNCHANGED <<file, made, told, shared, settled>>

Next ==
  \/ \E p \in Process : Pick(p) \/ Open(p) \/ Write(p) \/ Kill(p)
  \/ \E n \in Number : Enforce(n) \/ Discard(n)

Spec == Init /\ [][Next]_vars

-----------------------------------------------------------------------------
(* What the laws promise.                                                  *)

Row == [number : Nat, law : Nat, debt : BOOLEAN]

\* Type invariant: the law files, the processes and what they have reported.
TypeOK ==
  /\ file \in [Number -> Law]
  /\ job \in [Process -> [at : {"idle", "open", "write"}, number : {0} \cup Number,
                          law : Nat, debt : BOOLEAN]]
  /\ \A p \in Process : job[p].at # "idle" => job[p].number \in Number
  /\ made \in 0..MaxLaws
  /\ told \subseteq Row
  /\ shared \subseteq Number
  /\ settled \subseteq Nat
  /\ kills \in Nat

\* A law that new has reported stays the law of its number, whoever dies and
\* whatever is discarded; unless two processes had picked that number at once.
LawKept ==
  \A t \in told : t.number \notin shared =>
    file[t.number].state = "whole" /\ file[t.number].law = t.law

\* legislate.py:5 "so the debt stays visible": when the laws can be read, the
\* debts are the laws that were reported as debts and whose enforcer has not been
\* written in, whatever the examples are numbered; but for numbers picked twice.
DebtsVisible ==
  Readable =>
    \A t \in told : t.number \notin shared => (t \in Debts <=> t.debt /\ t.law \notin settled)
=============================================================================
