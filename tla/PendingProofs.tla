--------------------------- MODULE PendingProofs ----------------------------
(***************************************************************************)
(* Theorems about the pending items, for any ids, days, checkers and       *)
(* faults: the file keeps its shape, its replay implements the tracker,    *)
(* and a check that exits 0 has overlooked nothing.                        *)
(***************************************************************************)
EXTENDS Pending, SequenceTheorems, TLAPS

FileSeq == Seq(Line \cup {Junk})

\* What a line does to the items that are open.
After(open, l) ==
  {r \in open : r.id # l.id} \cup (IF l.closes THEN {} ELSE {Record(l)})

-----------------------------------------------------------------------------
(* The replay.                                                             *)

\* No item is open in an empty file, and there is nothing in it to choke on.
LEMMA EmptyFile == Standing(<<>>) = {} /\ Readable(<<>>)
  BY DEF Standing, Readable

\* A line more is readable when it is JSON and all before it are.
LEMMA ReadableAppend ==
  ASSUME NEW s \in FileSeq, NEW l \in Line \cup {Junk}
  PROVE  Readable(Append(s, l)) <=> Readable(s) /\ l # Junk
  <1>1. Len(Append(s, l)) = Len(s) + 1 /\ Append(s, l)[Len(s) + 1] = l
    BY DEF FileSeq
  <1>2. \A k \in 1..Len(s) : Append(s, l)[k] = s[k]
    BY DEF FileSeq
  <1>3. Len(s) \in Nat
    BY DEF FileSeq
  <1> QED
    BY <1>1, <1>2, <1>3 DEF Readable

\* The places of the lines whose items are open.
Places(s) ==
  {k \in 1..Len(s) :
     /\ s[k] # Junk /\ ~s[k].closes
     /\ \A j \in (k + 1)..Len(s) : s[j] # Junk => s[j].id # s[k].id}

\* A line more closes the items of its id, and opens its own.
LEMMA PlacesAppend ==
  ASSUME NEW s \in FileSeq, NEW l \in Line
  PROVE  Places(Append(s, l)) =
           {k \in Places(s) : s[k].id # l.id} \cup (IF l.closes THEN {} ELSE {Len(s) + 1})
  <1> DEFINE n == Len(s)
             a == Append(s, l)
  <1>1. n \in Nat /\ Len(a) = n + 1 /\ a[n + 1] = l /\ l # Junk
    BY MarksAssumption DEF FileSeq
  <1>2. \A k \in 1..n : a[k] = s[k]
    BY DEF FileSeq
  <1>3. \A k \in 1..n : k \in Places(a) <=> k \in Places(s) /\ s[k].id # l.id
    <2> TAKE k \in 1..n
    <2>1. (k + 1)..Len(a) = ((k + 1)..n) \cup {n + 1}
      BY <1>1
    <2>2. (\A j \in (k + 1)..Len(a) : a[j] # Junk => a[j].id # a[k].id)
            <=> (\A j \in (k + 1)..n : s[j] # Junk => s[j].id # s[k].id) /\ l.id # s[k].id
      <3>1. \A j \in (k + 1)..n : a[j] = s[j]
        BY <1>1, <1>2
      <3> QED
        BY <1>1, <1>2, <2>1, <3>1
    <2>3. k \in 1..Len(a)
      BY <1>1
    <2> QED
      BY <1>2, <2>2, <2>3 DEF Places
  <1>4. n + 1 \in Places(a) <=> ~l.closes
    <2>1. (n + 1 + 1)..Len(a) = {}
      BY <1>1
    <2> QED
      BY <1>1, <2>1 DEF Places
  <1>5. Places(a) \subseteq 1..(n + 1) /\ Places(s) \subseteq 1..n
    BY <1>1 DEF Places
  <1> QED
    BY <1>1, <1>3, <1>4, <1>5

\* What a line does to the items a file leaves open.
LEMMA StandingAppend ==
  ASSUME NEW s \in FileSeq, NEW l \in Line
  PROVE  Standing(Append(s, l)) = After(Standing(s), l)
  <1> DEFINE n == Len(s)
             a == Append(s, l)
             Item_(t, k) == [id |-> t[k].id, opened |-> t[k].opened, ttl |-> t[k].ttl]
  <1>1. n \in Nat /\ a[n + 1] = l /\ \A k \in 1..n : a[k] = s[k]
    BY DEF FileSeq
  <1>2. Standing(a) = {Item_(a, k) : k \in Places(a)} /\ Standing(s) = {Item_(s, k) : k \in Places(s)}
    BY DEF Standing, Places
  <1>3. Places(s) \subseteq 1..n
    BY DEF Places
  <1>4. \A k \in Places(s) : Item_(a, k) = Item_(s, k)
    BY <1>1, <1>3
  <1>5. Item_(a, n + 1) = Record(l)
    BY <1>1 DEF Record
  <1>6. {r \in Standing(s) : r.id # l.id} = {Item_(s, k) : k \in {k \in Places(s) : s[k].id # l.id}}
    BY <1>2
  <1>7. CASE l.closes
    <2>1. Places(a) = {k \in Places(s) : s[k].id # l.id}
      BY <1>7, PlacesAppend
    <2> HIDE DEF Item_, a
    <2>2. Standing(a) = {Item_(s, k) : k \in {k \in Places(s) : s[k].id # l.id}}
      BY <1>2, <1>4, <2>1
    <2> QED
      BY <1>6, <1>7, <2>2 DEF After, a
  <1>8. CASE ~l.closes
    <2>1. Places(a) = {k \in Places(s) : s[k].id # l.id} \cup {n + 1}
      BY <1>8, PlacesAppend
    <2> HIDE DEF Item_, a
    <2>2. Standing(a) = {Item_(s, k) : k \in {k \in Places(s) : s[k].id # l.id}} \cup {Record(l)}
      BY <1>2, <1>4, <1>5, <2>1
    <2> QED
      BY <1>6, <1>8, <2>2 DEF After, a
  <1> QED
    BY <1>7, <1>8

\* The items a file leaves open are items.
LEMMA StandingType == ASSUME NEW s \in FileSeq PROVE Standing(s) \subseteq Items
  <1> SUFFICES ASSUME NEW k \in 1..Len(s), s[k] # Junk, ~s[k].closes
               PROVE  [id |-> s[k].id, opened |-> s[k].opened, ttl |-> s[k].ttl] \in Items
    BY DEF Standing
  <1>1. s[k] \in Line
    BY DEF FileSeq
  <1>2. s[k] \in Opening
    BY <1>1 DEF Line, Closing
  <1> QED
    BY <1>2 DEF Opening, Items

-----------------------------------------------------------------------------
(* Types.                                                                  *)

\* The lines that open and close write are lines.
LEMMA LineType ==
  ASSUME TypeOK, NEW i \in Item, NEW t \in Ttl
  PROVE  /\ [id |-> i, closes |-> FALSE, opened |-> today, ttl |-> t] \in Line
         /\ [id |-> i, closes |-> TRUE] \in Line
  BY DEF Line, Opening, Closing, TypeOK

\* With the end that has no newline, too, the file is a sequence of lines.
LEMMA FileType == TypeOK => File \in FileSeq
  BY DEF TypeOK, File, All, FileSeq

\* The empty file and the idle checks have their types.
LEMMA TypeInit == Init => TypeOK
  <1> SUFFICES ASSUME Init PROVE TypeOK
    OBVIOUS
  <1>1. Unread \in [at : Verdict, readable : BOOLEAN, seen : SUBSET Items, owed : SUBSET Items]
    BY DEF Unread, Verdict
  <1>2. lines \in Seq(Line \cup {Junk}) /\ tail \in Line \cup {Nothing, Junk}
    BY DEF Init
  <1> QED
    BY <1>1, <1>2 DEF Init, TypeOK

\* An append keeps the types, whether the disk is full or not.
LEMMA AddType == ASSUME TypeOK, NEW l \in Line, Add(l) PROVE TypeOK'
  <1>1. ~l.closes => Record(l) \in Items
    BY DEF Line, Opening, Closing, Record, Items
  <1>2. CASE Written(l)
    BY <1>1, <1>2 DEF Add, Written, TypeOK, Others
  <1>3. CASE CutShort(l)
    BY <1>3 DEF Add, CutShort, TypeOK, Others
  <1> QED
    BY <1>2, <1>3 DEF Add

\* Every step keeps the types.
LEMMA TypeStep == TypeOK /\ [Next]_vars => TypeOK'
  <1> SUFFICES ASSUME TypeOK, [Next]_vars PROVE TypeOK'
    OBVIOUS
  <1>1. CASE UNCHANGED vars
    BY <1>1 DEF vars, TypeOK
  <1>2. ASSUME NEW i \in Item, Close(i) PROVE TypeOK'
    <2>1. [id |-> i, closes |-> TRUE] \in Line
      BY DEF Line, Closing
    <2> QED
      BY <1>2, <2>1, AddType DEF Close
  <1>3. ASSUME NEW i \in Item, NEW t \in Ttl, Open(i, t) PROVE TypeOK'
    BY <1>3, LineType, AddType DEF Open
  <1>4. ASSUME NEW c \in Checker, Load(c) PROVE TypeOK'
    <2>1. Standing(File) \subseteq Items /\ Readable(File) \in BOOLEAN
      BY FileType, StandingType DEF Readable
    <2> QED
      BY <1>4, <2>1 DEF Load, TypeOK, Verdict
  <1>5. ASSUME NEW c \in Checker, Judge(c) PROVE TypeOK'
    BY <1>5 DEF Judge, TypeOK, Verdict, Unread
  <1>6. CASE Midnight
    BY <1>6 DEF Midnight, TypeOK
  <1>7. CASE PowerLoss
    <2>1. lines' \in Seq(Line \cup {Junk}) /\ tail' \in Line \cup {Nothing, Junk}
      <3>1. CASE UNCHANGED <<lines, tail>>
        BY <3>1 DEF TypeOK
      <3>2. ASSUME NEW n \in synced..Len(lines),
                   lines' = SubSeq(lines, 1, n),
                   tail' \in {Nothing} \cup
                     CASE n < Len(lines) -> {Junk, lines[n + 1]}
                       [] n = Len(lines) /\ tail # Nothing -> {Junk}
                       [] OTHER -> {}
            PROVE  lines' \in Seq(Line \cup {Junk}) /\ tail' \in Line \cup {Nothing, Junk}
        <4>1. n \in 0..Len(lines) /\ lines \in Seq(Line \cup {Junk})
          BY DEF TypeOK
        <4>2. lines' \in Seq(Line \cup {Junk})
          BY <3>2, <4>1
        <4>3. n < Len(lines) => lines[n + 1] \in Line \cup {Junk}
          BY <4>1
        <4> QED
          BY <3>2, <4>2, <4>3
      <3> QED
        BY <1>7, <3>1, <3>2 DEF PowerLoss
    <2> QED
      BY <1>7, <2>1 DEF PowerLoss, TypeOK, Unread, Verdict
  <1> QED
    BY <1>1, <1>2, <1>3, <1>4, <1>5, <1>6, <1>7 DEF Next

\* For any ids, days, checkers and faults, the file, the reports and the checks
\* keep their types.
THEOREM TypeCorrect == Spec => []TypeOK
  BY TypeInit, TypeStep, PTL DEF Spec

-----------------------------------------------------------------------------
(* The tracker.                                                            *)

\* An append leaves the file as it was, adds its line to it, or leaves it
\* unreadable; what no command can read none makes readable again.
LEMMA AddFile ==
  ASSUME TypeOK, NEW l \in Line, Add(l)
  PROVE  /\ \/ File' = File /\ told' = Others(l.id)
            \/ /\ File' = Append(File, l)
               /\ told' \subseteq Others(l.id) \cup (IF l.closes THEN {} ELSE {Record(l)})
            \/ ~Readable(File')
         /\ ~Readable(File) => ~Readable(File')
         /\ lost' = lost /\ today' = today /\ check' = check
  <1>1. lines \in FileSeq /\ File \in FileSeq /\ tail \in Line \cup {Nothing, Junk}
    BY FileType DEF TypeOK, FileSeq
  <1>2. Junk # Nothing /\ l # Nothing /\ l # Junk
    BY MarksAssumption
  <1>3. lost' = lost /\ today' = today /\ check' = check
    BY DEF Add
  <1>4. Readable(Append(File, l)) <=> Readable(File)
    BY <1>1, <1>2, ReadableAppend
  <1>5. ~Readable(Append(lines, Junk))
    BY <1>1, ReadableAppend
  <1>6. CASE Written(l) /\ tail = Nothing
    BY <1>3, <1>4, <1>6 DEF Written, File, All
  <1>7. CASE Written(l) /\ tail # Nothing
    BY <1>3, <1>5, <1>7 DEF Written, File, All
  <1>8. CASE CutShort(l) /\ tail' = tail
    BY <1>3, <1>8 DEF CutShort, File, All
  <1>9. CASE CutShort(l) /\ tail' = Junk
    BY <1>2, <1>3, <1>5, <1>9 DEF CutShort, File, All
  <1>10. CASE CutShort(l) /\ tail = Nothing /\ tail' = l
    BY <1>2, <1>3, <1>4, <1>10 DEF CutShort, File, All
  <1> QED
    BY <1>6, <1>7, <1>8, <1>9, <1>10 DEF Add, CutShort

\* A loss of power that changes the file is remembered.
LEMMA PowerFile ==
  ASSUME TypeOK, PowerLoss
  PROVE  /\ (File' = File /\ lost' = lost) \/ lost'
         /\ today' = today /\ told' = told
  <1>1. lost' = (lost \/ lines' # lines \/ tail' # tail) /\ today' = today /\ told' = told
    BY DEF PowerLoss
  <1>2. CASE lines' = lines /\ tail' = tail
    <2>1. File' = File
      BY <1>2 DEF File, All
    <2>2. lost' = (lost \/ FALSE)
      BY <1>1, <1>2
    <2> QED
      BY <1>1, <2>1, <2>2 DEF TypeOK
  <1>3. CASE lines' # lines \/ tail' # tail
    BY <1>1, <1>3
  <1> QED
    BY <1>2, <1>3

\* The empty file is the empty tracker.
LEMMA TrackerInit == Init => T!Init
  <1> SUFFICES ASSUME Init PROVE T!Init
    OBVIOUS
  <1>1. File = <<>>
    BY DEF Init, File, All
  <1> QED
    BY <1>1, EmptyFile DEF Init, T!Init, Healthy

\* An append is a step of the tracker, if it is the tracker's for its line.
LEMMA TrackerAdd ==
  ASSUME TypeOK, NEW l \in Line, Add(l)
  PROVE  \/ UNCHANGED T!vars
         \/ T!Spoil
         \/ /\ Healthy /\ Healthy' /\ today' = today
            /\ Standing(File') = After(Standing(File), l)
  <1>1. File \in FileSeq
    BY FileType
  <1>2. CASE ~Healthy
    <2>1. ~Healthy'
      BY <1>2, AddFile DEF Healthy
    <2> QED
      BY <1>2, <2>1, AddFile DEF T!vars
  <1>3. CASE Healthy /\ ~Readable(File')
    <2>1. ~Healthy'
      BY <1>3 DEF Healthy
    <2> QED
      BY <1>3, <2>1, AddFile DEF T!Spoil
  <1>4. CASE Healthy /\ Readable(File') /\ File' = File
    <2>1. Healthy'
      BY <1>4, AddFile DEF Healthy
    <2> QED
      BY <1>4, <2>1, AddFile DEF T!vars
  <1>5. CASE Healthy /\ Readable(File') /\ File' = Append(File, l)
    <2>1. Healthy'
      BY <1>5, AddFile DEF Healthy
    <2> QED
      BY <1>1, <1>5, <2>1, AddFile, StandingAppend
  <1> QED
    BY <1>2, <1>3, <1>4, <1>5, AddFile

\* Every step is one of the tracker's, or changes nothing of it.
LEMMA TrackerStep == TypeOK /\ [Next]_vars => [T!Next]_(T!vars)
  <1> SUFFICES ASSUME TypeOK, [Next]_vars PROVE [T!Next]_(T!vars)
    OBVIOUS
  <1>1. CASE UNCHANGED <<lines, tail, today, lost>>
    BY <1>1 DEF T!vars, Healthy, File, All
  <1>2. ASSUME NEW i \in Item, Close(i) PROVE [T!Next]_(T!vars)
    <2> DEFINE l == [id |-> i, closes |-> TRUE]
    <2>1. l \in Line /\ Add(l)
      BY <1>2 DEF Line, Closing, Close
    <2>2. CASE /\ Healthy /\ Healthy' /\ today' = today
               /\ Standing(File') = After(Standing(File), l)
      <3>1. T!Close(i)
        BY <2>2 DEF T!Close, T!Others, After
      <3> QED
        BY <3>1 DEF T!Next
    <2> QED
      BY <2>1, <2>2, TrackerAdd DEF T!Next
  <1>3. ASSUME NEW i \in Item, NEW t \in Ttl, Open(i, t) PROVE [T!Next]_(T!vars)
    <2> DEFINE l == [id |-> i, closes |-> FALSE, opened |-> today, ttl |-> t]
    <2>1. l \in Line /\ Add(l)
      BY <1>3, LineType DEF Open
    <2>2. CASE /\ Healthy /\ Healthy' /\ today' = today
               /\ Standing(File') = After(Standing(File), l)
      <3>1. T!Open(i, t)
        BY <2>2 DEF T!Open, T!Others, After, Record
      <3> QED
        BY <3>1 DEF T!Next
    <2> QED
      BY <2>1, <2>2, TrackerAdd DEF T!Next
  <1>4. CASE Midnight
    <2>1. File' = File /\ Healthy' = Healthy
      BY <1>4 DEF Midnight, File, All, Healthy
    <2>2. T!Midnight
      BY <1>4, <2>1 DEF Midnight, T!Midnight
    <2> QED
      BY <2>2 DEF T!Next
  <1>5. CASE PowerLoss
    <2>1. CASE File' = File /\ lost' = lost
      BY <1>5, <2>1, PowerFile DEF T!vars, Healthy
    <2>2. CASE lost'
      <3>1. ~Healthy'
        BY <2>2 DEF Healthy
      <3> QED
        BY <1>5, <3>1, PowerFile DEF T!vars, T!Spoil, T!Next
    <2> QED
      BY <1>5, <2>1, <2>2, PowerFile
  <1> QED
    BY <1>1, <1>2, <1>3, <1>4, <1>5 DEF Next, vars, Load, Judge

\* For any ids, days, checkers and faults: the replay of pending.jsonl
\* implements the tracker.
THEOREM TrackerCorrect == Spec => Tracked
  BY TypeCorrect, TrackerInit, TrackerStep, PTL DEF Spec, Tracked, T!Spec

-----------------------------------------------------------------------------
(* Nothing overlooked.                                                     *)

\* What an open command has reported, and nothing has touched since, is open in
\* the file; and a checker that has read the file has seen it there.
SeenInv ==
  /\ Healthy => told \subseteq Standing(File)
  /\ ~lost => \A c \in Checker :
       check[c].at = "read" /\ check[c].readable => check[c].owed \subseteq check[c].seen

\* Nothing is reported at the start.
LEMMA SeenInit == Init => SeenInv
  BY DEF Init, SeenInv, Unread

\* An append that reports an item has put its line where the replay finds it.
LEMMA AddSeen == ASSUME TypeOK, SeenInv, NEW l \in Line, Add(l) PROVE SeenInv'
  <1>1. check' = check /\ lost' = lost
    BY AddFile
  <1>2. ASSUME Healthy' PROVE told' \subseteq Standing(File')
    <2>1. Healthy /\ Readable(File')
      BY <1>2, AddFile DEF Healthy
    <2>2. told \subseteq Standing(File)
      BY <2>1 DEF SeenInv
    <2>3. CASE File' = File /\ told' = Others(l.id)
      BY <2>2, <2>3 DEF Others
    <2>4. CASE /\ File' = Append(File, l)
               /\ told' \subseteq Others(l.id) \cup (IF l.closes THEN {} ELSE {Record(l)})
      <3>1. Standing(File') = After(Standing(File), l)
        BY <2>4, FileType, StandingAppend
      <3> QED
        BY <2>2, <2>4, <3>1 DEF After, Others
    <2> QED
      BY <2>1, <2>3, <2>4, AddFile
  <1> QED
    BY <1>1, <1>2 DEF SeenInv

\* Every step keeps what is reported in the file, and in what a checker has
\* read of it.
LEMMA SeenStep == TypeOK /\ SeenInv /\ [Next]_vars => SeenInv'
  <1> SUFFICES ASSUME TypeOK, SeenInv, [Next]_vars PROVE SeenInv'
    OBVIOUS
  <1>1. CASE UNCHANGED vars
    BY <1>1 DEF vars, SeenInv, Healthy, File, All
  <1>2. ASSUME NEW i \in Item, Close(i) PROVE SeenInv'
    <2>1. [id |-> i, closes |-> TRUE] \in Line
      BY DEF Line, Closing
    <2> QED
      BY <1>2, <2>1, AddSeen DEF Close
  <1>3. ASSUME NEW i \in Item, NEW t \in Ttl, Open(i, t) PROVE SeenInv'
    BY <1>3, LineType, AddSeen DEF Open
  <1>4. ASSUME NEW c \in Checker, Load(c) PROVE SeenInv'
    <2>1. File' = File /\ lost' = lost /\ told' = told
      BY <1>4 DEF Load, File, All
    <2>2. \A d \in Checker \ {c} : check'[d] = check[d]
      BY <1>4 DEF Load, TypeOK
    <2>3. check'[c].owed = told /\ check'[c].seen = Standing(File) /\ check'[c].readable = Readable(File)
      BY <1>4 DEF Load, TypeOK
    <2>4. ~lost /\ check'[c].readable => check'[c].owed \subseteq check'[c].seen
      BY <2>3 DEF SeenInv, Healthy
    <2> QED
      BY <2>1, <2>2, <2>4 DEF SeenInv, Healthy
  <1>5. ASSUME NEW c \in Checker, Judge(c) PROVE SeenInv'
    <2>1. File' = File /\ lost' = lost /\ told' = told
      BY <1>5 DEF Judge, File, All
    <2>2. \A d \in Checker \ {c} : check'[d] = check[d]
      BY <1>5 DEF Judge, TypeOK
    <2>3. check'[c].at # "read"
      BY <1>5 DEF Judge, TypeOK, Unread
    <2> QED
      BY <2>1, <2>2, <2>3 DEF SeenInv, Healthy
  <1>6. CASE Midnight
    BY <1>6 DEF Midnight, SeenInv, Healthy, File, All
  <1>7. CASE PowerLoss
    <2>1. \A c \in Checker : check'[c].at = "idle"
      BY <1>7 DEF PowerLoss, Unread
    <2>2. CASE File' = File /\ lost' = lost
      BY <1>7, <2>1, <2>2, PowerFile DEF SeenInv, Healthy
    <2>3. CASE lost'
      BY <2>3 DEF SeenInv, Healthy
    <2> QED
      BY <1>7, <2>2, <2>3, PowerFile
  <1> QED
    BY <1>1, <1>2, <1>3, <1>4, <1>5, <1>6, <1>7 DEF Next

\* For any ids, days, checkers and faults: a check that exits 0 has not passed
\* over an item some open command has reported, unless power was lost with it.
THEOREM OverlookedCorrect == Spec => NothingOverlooked
  <1>1. ASSUME TypeOK, SeenInv, [Next]_vars,
               NEW c \in Checker, check[c].at = "read", check'[c].at = "clear", ~lost,
               NEW r \in told \cap check[c].owed
        PROVE  ~Overdue(r, today)
    <2>1. Judge(c)
      <3>1. CASE UNCHANGED check
        BY <1>1, <3>1
      <3>2. ASSUME NEW l, Add(l) PROVE FALSE
        BY <1>1, <3>2 DEF Add
      <3>3. ASSUME NEW d \in Checker, Load(d) PROVE FALSE
        BY <1>1, <3>3 DEF Load, TypeOK
      <3>4. ASSUME NEW d \in Checker, d # c, Judge(d) PROVE FALSE
        BY <1>1, <3>4 DEF Judge, TypeOK
      <3>5. CASE PowerLoss
        BY <1>1, <3>5 DEF PowerLoss, Unread
      <3> QED
        BY <1>1, <3>1, <3>2, <3>3, <3>4, <3>5 DEF Next, vars, Open, Close, Midnight
    <2>2. Clear(c)
      BY <1>1, <2>1 DEF Judge, TypeOK
    <2> QED
      BY <1>1, <2>2 DEF Clear, SeenInv
  <1>2. TypeOK /\ SeenInv /\ [Next]_vars =>
          [\A c \in Checker :
             check[c].at = "read" /\ check'[c].at = "clear" /\ ~lost
               => \A r \in told \cap check[c].owed : ~Overdue(r, today)]_vars
    BY <1>1
  <1> QED
    BY <1>2, TypeCorrect, SeenInit, SeenStep, PTL DEF Spec, NothingOverlooked
=============================================================================
