------------------------------ MODULE Pending ------------------------------
(***************************************************************************)
(* The pending items of heartbeat/zombie.py: open and close, which append  *)
(* a line to pending.jsonl, and the check a tick runs, which replays it.   *)
(*                                                                         *)
(* A line goes to the file in one write, so two commands do not mix; but a *)
(* full disk cuts a write short, and nothing is fsynced, so a loss of      *)
(* power takes away any end of the file that the kernel had not written.   *)
(***************************************************************************)
EXTENDS Integers, Sequences

CONSTANTS
  Item,     \* the ids of pending items
  Ttl,      \* the days an item may stay open
  Checker,  \* the processes that check, each in a tick of its own
  Nothing,  \* the end of a file that ends in a newline
  Junk,     \* what is not JSON: part of a line, or two lines glued together
  MaxDay,   \* bound: days
  MaxLines, \* bound: lines
  MaxFaults \* bound: full disks and losses of power

Opening == [id : Item, closes : {FALSE}, opened : Nat, ttl : Ttl]
Closing == [id : Item, closes : {TRUE}]
Line == Opening \cup Closing

ASSUME TtlAssumption == Ttl \subseteq Nat
ASSUME MarksAssumption == Nothing \notin Line /\ Junk \notin Line /\ Nothing # Junk
ASSUME BoundAssumption == MaxDay \in Nat /\ MaxLines \in Nat /\ MaxFaults \in Nat

VARIABLES
  lines,    \* the lines of pending.jsonl
  tail,     \* what comes after its last newline
  synced,   \* the number of lines a loss of power has spared
  today,    \* date.today()
  told,     \* the items whose last command, an open, exited 0
  lost,     \* whether a loss of power has taken something
  check,    \* what each checker has read
  faults    \* number of faults so far

vars == <<lines, tail, synced, today, told, lost, check, faults>>

-----------------------------------------------------------------------------
(* load() and what main makes of it.                                       *)

\* A last line without its newline is read like the others.
All(ls, t) == IF t = Nothing THEN ls ELSE Append(ls, t)
File == All(lines, tail)

\* Mutant: a line that is not JSON is skipped.
SkipsJunk(s) == TRUE

\* json.loads raises on the first line that is not JSON.
Readable(s) == \A k \in 1..Len(s) : s[k] # Junk

\* Mutant: a close counts wherever it is.
StandingUnordered(s) ==
  {[id |-> s[k].id, opened |-> s[k].opened, ttl |-> s[k].ttl] :
     k \in {k \in 1..Len(s) :
              /\ s[k] # Junk /\ ~s[k].closes
              /\ \A j \in 1..Len(s) : s[j] # Junk /\ s[j].id = s[k].id => j = k \/ ~s[j].closes}}

\* An item is open when the last line with its id opens it: a close before any
\* open is dropped, an open after an open or a close replaces it.
Standing(s) ==
  {[id |-> s[k].id, opened |-> s[k].opened, ttl |-> s[k].ttl] :
     k \in {k \in 1..Len(s) :
              /\ s[k] # Junk /\ ~s[k].closes
              /\ \A j \in (k + 1)..Len(s) : s[j] # Junk => s[j].id # s[k].id}}

Overdue(r, day) == day - r.opened > r.ttl

-----------------------------------------------------------------------------

Unread == [at |-> "idle", readable |-> TRUE, seen |-> {}, owed |-> {}]

Init ==
  /\ lines = <<>>
  /\ tail = Nothing
  /\ synced = 0
  /\ today = 0
  /\ told = {}
  /\ lost = FALSE
  /\ check = [c \in Checker |-> Unread]
  /\ faults = 0

Record(l) == [id |-> l.id, opened |-> l.opened, ttl |-> l.ttl]
Others(i) == {r \in told : r.id # i}

\* Mutant: the newline comes first.
WrittenNewlineFirst(l) ==
  /\ lines' = Append(lines, tail)
  /\ tail' = l
  /\ told' = Others(l.id) \cup (IF l.closes THEN {} ELSE {Record(l)})
  /\ UNCHANGED faults

\* The whole line is written: after an end without newline, it is glued to it.
Written(l) ==
  /\ lines' = Append(lines, IF tail = Nothing THEN l ELSE Junk)
  /\ tail' = Nothing
  /\ told' = Others(l.id) \cup (IF l.closes THEN {} ELSE {Record(l)})
  /\ UNCHANGED faults

\* The disk is full: nothing is written, part of the line, or all but its
\* newline, and the exception ends the command.
CutShort(l) ==
  /\ faults < MaxFaults
  /\ faults' = faults + 1
  /\ tail' \in {tail, Junk} \cup (IF tail = Nothing THEN {l} ELSE {})
  /\ told' = Others(l.id)
  /\ UNCHANGED lines

\* append(obj)
Add(l) ==
  /\ Len(lines) < MaxLines
  /\ Written(l) \/ CutShort(l)
  /\ UNCHANGED <<synced, today, lost, check>>

\* zombie.py open <id> <title> --ttl <t>
Open(i, t) == Add([id |-> i, closes |-> FALSE, opened |-> today, ttl |-> t])

\* zombie.py close <id> --receipt <r>
Close(i) == Add([id |-> i, closes |-> TRUE])

\* zombie.py check: load() ...
Load(c) ==
  /\ check[c].at # "read"
  /\ check' = [check EXCEPT ![c] =
       [at |-> "read", readable |-> Readable(File), seen |-> Standing(File), owed |-> told]]
  /\ UNCHANGED <<lines, tail, synced, today, told, lost, faults>>

Clear(c) == check[c].readable /\ \A r \in check[c].seen : ~Overdue(r, today)

\* ... then today, and exit 0 or 1; a check that could not load exits 1 too.
Judge(c) ==
  /\ check[c].at = "read"
  /\ check' = [check EXCEPT ![c] = [Unread EXCEPT !.at = IF Clear(c) THEN "clear" ELSE "red"]]
  /\ UNCHANGED <<lines, tail, synced, today, told, lost, faults>>

Midnight ==
  /\ today < MaxDay
  /\ today' = today + 1
  /\ UNCHANGED <<lines, tail, synced, told, lost, check, faults>>

\* The machine comes back with any part of what was not yet on the disk, and
\* with no command running.
PowerLoss ==
  /\ faults < MaxFaults
  /\ faults' = faults + 1
  /\ \/ UNCHANGED <<lines, tail>>
     \/ \E n \in synced..Len(lines) :
          /\ lines' = SubSeq(lines, 1, n)
          /\ tail' \in {Nothing} \cup
               CASE n < Len(lines) -> {Junk, lines[n + 1]}
                 [] n = Len(lines) /\ tail # Nothing -> {Junk}
                 [] OTHER -> {}
  /\ synced' = Len(lines')
  /\ lost' = (lost \/ lines' # lines \/ tail' # tail)
  /\ check' = [c \in Checker |-> Unread]
  /\ UNCHANGED <<today, told>>

Next ==
  \/ \E i \in Item : Close(i) \/ \E t \in Ttl : Open(i, t)
  \/ \E c \in Checker : Load(c) \/ Judge(c)
  \/ Midnight \/ PowerLoss

Spec == Init /\ [][Next]_vars

-----------------------------------------------------------------------------
(* What the check promises.                                                *)

Verdict == {"idle", "read", "clear", "red"}
Items == [id : Item, opened : Nat, ttl : Ttl]

\* Type invariant: the file, what the commands have reported and what the
\* checks have read.
TypeOK ==
  /\ lines \in Seq(Line \cup {Junk})
  /\ tail \in Line \cup {Nothing, Junk}
  /\ synced \in Nat
  /\ today \in Nat
  /\ told \subseteq Items
  /\ lost \in BOOLEAN
  /\ check \in [Checker -> [at : Verdict, readable : BOOLEAN, seen : SUBSET Items,
                             owed : SUBSET Items]]
  /\ faults \in Nat

Healthy == Readable(File) /\ ~lost

T == INSTANCE Tracker WITH open <- IF Healthy THEN Standing(File) ELSE {}, spoilt <- ~Healthy

\* As long as every line can be read and no loss of power has taken any, what
\* the replay of pending.jsonl takes for open is what the commands, each as one
\* step, have left open; and once a line cannot be read the check stays red.
Tracked == T!Spec

\* A check that exits 0 has not passed over an item: every one that an open
\* command has reported before the check read the file, and that no command has
\* touched since, is within its days; unless a loss of power took its line.
NothingOverlooked ==
  [][\A c \in Checker :
       check[c].at = "read" /\ check'[c].at = "clear" /\ ~lost
         => \A r \in told \cap check[c].owed : ~Overdue(r, today)]_vars
=============================================================================
