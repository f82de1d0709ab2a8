---------------------------- MODULE LedgerProofs ----------------------------
(***************************************************************************)
(* What is proved of Ledger, and of Heartbeat, for every set of processes, *)
(* every mode, every window and every bound.                               *)
(*                                                                         *)
(* Of the ledger alone: its chain, what is published, the repair, the      *)
(* refinement of Log, STATE_CURRENT.json, events.log, entity.name, what a  *)
(* verify says and relation.upstream.  Of a heartbeat: its ticks, the      *)
(* commands beside them and the faults of both are steps of the ledger, so *)
(* that its theorems hold of it too; the exit code of a tick says truly    *)
(* that its round is recorded; and a tick that nothing disturbs raises no  *)
(* false alarm.                                                            *)
(***************************************************************************)
EXTENDS Heartbeat, SequenceTheorems, TLAPS

\* The flock: a process is between its lock and its unlock exactly when it is
\* the holder.
LockInv == \A p \in Process : pc[p] \in Critical <=> lock = p

\* A process about to rename its temporary file has one.
TempInv == \A p \in Process : pc[p] \in {"staged", "cut"} => temps >= 1

TypeInv == TypeOK /\ LockInv /\ TempInv

-----------------------------------------------------------------------------
(* Facts about the values the file is made of.                             *)

\* An empty placeholder is a wrapper, and a block.
LEMMA PlaceholderTypes == NoWrapper \in Wrapper /\ \A p \in Process : NoBlock(p) \in Block
  <1>1. PICK q \in Process : q = CHOOSE p \in Process : TRUE
    BY ProcessAssumption
  <1>2. Agent[q] \in Name /\ \A p \in Process : Agent[p] \in Name
    BY AgentAssumption
  <1> QED
    BY <1>1, <1>2, TaskAssumption DEF NoWrapper, NoBlock, Wrapper, Block, Digest, Mode

\* What read_rounds returns of a file is a sequence of wrappers.
LEMMA RoundsType == ASSUME NEW f \in File PROVE Rounds(f) \in Seq(Wrapper)
  <1>1. f.lines \in Seq(Wrapper) /\ f.tail \in Seq(Piece)
    BY DEF File
  <1>2. CASE Bare(f)
    <2>1. f.tail[1] \in Piece
      BY <1>1, <1>2, ElementOfSeq DEF Bare
    <2>2. f.tail[1].of \in Wrapper
      BY <2>1 DEF Piece
    <2> QED
      BY <1>1, <1>2, <2>2, AppendProperties DEF Rounds
  <1>3. CASE ~Bare(f)
    BY <1>1, <1>3 DEF Rounds
  <1> QED
    BY <1>2, <1>3

\* The last seq, round and digest of a sequence of wrappers are numbers.
LEMMA LastTypes ==
  ASSUME NEW s \in Seq(Wrapper)
  PROVE LastHash(s) \in Nat /\ LastSeq(s) \in Nat /\ LastRound(s) \in Int
  <1>1. s # <<>> => s[Len(s)] \in Wrapper
    OBVIOUS
  <1> QED
    BY <1>1 DEF LastHash, LastSeq, LastRound, Wrapper, Digest

\* The wrapper append builds of a block is a wrapper.
LEMMA WrapperForType ==
  ASSUME NEW b \in Block, NEW s \in Seq(Wrapper)
  PROVE WrapperFor(b, s) \in Wrapper
  <1>1. LastHash(s) \in Nat /\ LastSeq(s) \in Nat /\ LastRound(s) \in Int
    BY LastTypes
  <1>2. (~Follows(b, s)) \in BOOLEAN
    OBVIOUS
  <1> QED
    BY <1>1, <1>2 DEF WrapperFor, Wrapper, Block, Mode, Digest

\* Marks counts.
LEMMA MarksType == ASSUME NEW f \in File PROVE Marks(f) \in Nat
  BY DEF Marks, TailMarks, PieceMarks, File

\* A cut of pieces is pieces.
LEMMA PieceCutsType == ASSUME NEW t \in Seq(Piece), NEW c \in PieceCuts(t) PROVE c \in Seq(Piece)
  <1>1. \A k \in 0..Len(t) : SubSeq(t, 1, k) \in Seq(Piece)
    OBVIOUS
  <1>2. ASSUME NEW k \in 1..Len(t)
        PROVE Append(SubSeq(t, 1, k - 1), [of |-> t[k].of, whole |-> FALSE]) \in Seq(Piece)
    <2>1. [of |-> t[k].of, whole |-> FALSE] \in Piece
      <3>1. t[k] \in Piece
        BY ElementOfSeq
      <3> QED
        BY <3>1 DEF Piece
    <2>2. SubSeq(t, 1, k - 1) \in Seq(Piece)
      OBVIOUS
    <2> QED
      BY <2>1, <2>2, AppendProperties
  <1> QED
    BY <1>1, <1>2 DEF PieceCuts

\* A file whose tail is replaced by pieces is a file.
LEMMA TailType ==
  ASSUME NEW f \in File, NEW t \in Seq(Piece), NEW b \in BOOLEAN
  PROVE [f EXCEPT !.tail = t] \in File /\ [f EXCEPT !.tail = t, !.buried = b] \in File
  BY DEF File

\* What a power loss leaves of a file is a file.
LEMMA CutType ==
  ASSUME file \in File, CutFile
  PROVE file' \in File /\ synced' \in Nat
  <1>1. file.lines \in Seq(Wrapper) /\ file.tail \in Seq(Piece)
    BY DEF File
  <1>2. ASSUME NEW k \in 1..Len(file.lines),
               NEW t \in PieceCuts(<<[of |-> file.lines[k], whole |-> TRUE]>>),
               file' = [lines |-> SubSeq(file.lines, 1, k - 1), tail |-> t, buried |-> FALSE]
        PROVE file' \in File
    <2>1. <<[of |-> file.lines[k], whole |-> TRUE]>> \in Seq(Piece)
      BY <1>1 DEF Piece
    <2>2. t \in Seq(Piece)
      BY <2>1, PieceCutsType
    <2>3. SubSeq(file.lines, 1, k - 1) \in Seq(Wrapper)
      BY <1>1
    <2> QED
      BY <1>2, <2>2, <2>3 DEF File
  <1>3. ASSUME NEW t \in PieceCuts(file.tail), file' = [file EXCEPT !.tail = t, !.buried = FALSE]
        PROVE file' \in File
    BY <1>1, <1>3, PieceCutsType, TailType
  <1>4. file' \in File
    BY <1>2, <1>3 DEF CutFile
  <1> QED
    BY <1>4, MarksType DEF CutFile

-----------------------------------------------------------------------------
(* Types, the lock and the temporary file.                                 *)

\* The files, the lock and the processes have their types at the start.
LEMMA TypeInit == Init => TypeInv
  <1> SUFFICES ASSUME Init PROVE TypeInv
    OBVIOUS
  <1>1. TypeOK
    BY PlaceholderTypes DEF Init, TypeOK, File, EmptyFile, Digest, NothingSeen, Pc, Idle
  <1>2. LockInv /\ TempInv
    BY ProcessAssumption DEF Init, LockInv, TempInv, Critical
  <1> QED
    BY <1>1, <1>2 DEF TypeInv

\* Every step of every process, and every crash, keeps the types, the lock's
\* holder and the temporary files.
LEMMA TypeStep == TypeInv /\ [Next]_vars => TypeInv'
  <1> SUFFICES ASSUME TypeInv, [Next]_vars PROVE TypeInv'
    OBVIOUS
  <1> USE DEF TypeInv, TypeOK, LockInv, TempInv, Digest, Idle, Critical, Pc, Goto
  <1>1. ASSUME NEW p \in Process, NEW m \in Modes, NEW t \in Task, Derive(p, m, t)
        PROVE TypeInv'
    <2>1. Rounds(file) \in Seq(Wrapper)
      BY RoundsType
    <2>2. LastHash(Rounds(file)) \in Nat /\ LastRound(Rounds(file)) \in Int
      BY <2>1, LastTypes
    <2>3. m \in Mode /\ m.jump \in Int /\ Agent[p] \in Name /\ started + 1 \in Nat
      BY ModesAssumption, AgentAssumption DEF Mode
    <2>4. block' \in [Process -> Block]
      BY <1>1, <2>2, <2>3, SMTT(30) DEF Derive, Block
    <2>5. UNCHANGED <<file, synced, cur, events, torn, temps, lock, out, seen, verdict, acked, faults>>
          /\ started' \in Nat /\ pc' = [pc EXCEPT ![p] = "waiting"] /\ pc[p] = "idle"
      BY <1>1, <2>3 DEF Derive
    <2> QED
      BY <2>4, <2>5
  <1>2. ASSUME NEW p \in Process, AppendRefuse(p) PROVE TypeInv'
    BY <1>2, PlaceholderTypes DEF AppendRefuse
  <1>3. ASSUME NEW p \in Process, AppendBegin(p) PROVE TypeInv'
    <2>1. out' \in Wrapper
      BY <1>3, RoundsType, WrapperForType DEF AppendBegin
    <2> QED
      BY <1>3, <2>1, PlaceholderTypes, ProcessAssumption DEF AppendBegin
  <1>4. ASSUME NEW p \in Process, WritePart(p) PROVE TypeInv'
    <2>1. [of |-> out, whole |-> FALSE] \in Piece
      BY DEF Piece
    <2>2. Append(file.tail, [of |-> out, whole |-> FALSE]) \in Seq(Piece)
      BY <2>1 DEF File
    <2>3. file' \in File
      BY <1>4, <2>2, TailType DEF WritePart
    <2> QED
      BY <1>4, <2>3 DEF WritePart
  <1>5. ASSUME NEW p \in Process, WriteRound(p) PROVE TypeInv'
    <2>1. [of |-> out, whole |-> TRUE] \in Piece
      BY DEF Piece
    <2>2. SubSeq(file.tail, 1, Len(file.tail) - 1) \in Seq(Piece)
      BY DEF File
    <2>3. Append(SubSeq(file.tail, 1, Len(file.tail) - 1), [of |-> out, whole |-> TRUE]) \in Seq(Piece)
      BY <2>1, <2>2
    <2>4. file' \in File
      BY <1>5, <2>3, TailType DEF WriteRound
    <2> QED
      BY <1>5, <2>4 DEF WriteRound
  <1>6. ASSUME NEW p \in Process, WriteNewline(p) PROVE TypeInv'
    <2>1. file' \in File
      <3>1. Append(file.lines, out) \in Seq(Wrapper)
        BY DEF File
      <3> QED
        BY <1>6, <3>1, EmptySeq DEF WriteNewline, File
    <2> QED
      BY <1>6, <2>1 DEF WriteNewline
  <1>7. ASSUME NEW p \in Process, Fsync(p) PROVE TypeInv'
    BY <1>7, MarksType DEF Fsync
  <1>8. ASSUME NEW p \in Process, StageCurrent(p) PROVE TypeInv'
    BY <1>8 DEF StageCurrent
  <1>9. ASSUME NEW p \in Process, ReplaceCurrent(p) PROVE TypeInv'
    <2>1. out.hash \in Nat
      BY DEF Wrapper
    <2> QED
      BY <1>9, <2>1, ProcessAssumption DEF ReplaceCurrent
  <1>10. ASSUME NEW p \in Process, Finish(p) PROVE TypeInv'
    <2>1. out.hash \in Nat
      BY DEF Wrapper
    <2>2. Append(events, out.hash) \in Seq(Nat)
      BY <2>1
    <2>3. acked \cup {out.hash} \in SUBSET Nat
      BY <2>1
    <2> QED
      BY <1>10, <2>2, <2>3, PlaceholderTypes, ProcessAssumption DEF Finish
  <1>11. ASSUME NEW p \in Process, RepairBegin(p) PROVE TypeInv'
    BY <1>11, ProcessAssumption DEF RepairBegin
  <1>12. ASSUME NEW p \in Process, SaveFragment(p) PROVE TypeInv'
    <2>1. file.tail \in Seq(Piece)
      BY DEF File
    <2>2. torn' \in SUBSET Seq(Piece)
      BY <1>12, <2>1 DEF SaveFragment
    <2> QED
      BY <1>12, <2>2 DEF SaveFragment
  <1>13. ASSUME NEW p \in Process, StageRounds(p) PROVE TypeInv'
    BY <1>13 DEF StageRounds
  <1>14. ASSUME NEW p \in Process, ReplaceRounds(p) PROVE TypeInv'
    <2>1. file' \in File /\ synced' \in Nat
      <3>1. <<>> \in Seq(Piece) /\ 3 * Len(file.lines) \in Nat
        BY DEF File
      <3> QED
        BY <1>14, <3>1, TailType DEF ReplaceRounds
    <2> QED
      BY <1>14, <2>1, ProcessAssumption DEF ReplaceRounds
  <1>15. ASSUME NEW p \in Process, FinishRepair(p) PROVE TypeInv'
    BY <1>15, ProcessAssumption DEF FinishRepair
  <1>16. ASSUME NEW p \in Process, VerifyUnreadable(p) PROVE TypeInv'
    BY <1>16 DEF VerifyUnreadable
  <1>17. ASSUME NEW p \in Process, VerifyRounds(p) PROVE TypeInv'
    <2>1. LastHash(Rounds(file)) \in Nat
      BY RoundsType, LastTypes
    <2>2. ChainSound(Rounds(file)) \in BOOLEAN
      BY DEF ChainSound
    <2> QED
      BY <1>17, <2>1, <2>2 DEF VerifyRounds
  <1>18. ASSUME NEW p \in Process, VerifyCurrent(p) PROVE TypeInv'
    BY <1>18 DEF VerifyCurrent, NothingSeen
  <1>19. ASSUME NEW p \in Process, Kill(p) PROVE TypeInv'
    BY <1>19, PlaceholderTypes, ProcessAssumption DEF Kill, Fault, NothingSeen
  <1>20. ASSUME NEW p \in Process, WriteError(p) PROVE TypeInv'
    BY <1>20, PlaceholderTypes, ProcessAssumption DEF WriteError, Fault
  <1>21. ASSUME PowerLoss PROVE TypeInv'
    <2>1. file' \in File /\ synced' \in Nat
      BY <1>21, CutType DEF PowerLoss
    <2>2. events' \in Seq(Nat)
      BY <1>21 DEF PowerLoss
    <2>3. torn' \in SUBSET Seq(Piece)
      BY <1>21 DEF PowerLoss
    <2> QED
      BY <1>21, <2>1, <2>2, <2>3, PlaceholderTypes, ProcessAssumption DEF PowerLoss, Fault, NothingSeen
  <1>22. CASE UNCHANGED vars
    BY <1>22 DEF vars
  <1> QED
    BY <1>1, <1>2, <1>3, <1>4, <1>5, <1>6, <1>7, <1>8, <1>9, <1>10, <1>11, <1>12, <1>13, <1>14,
       <1>15, <1>16, <1>17, <1>18, <1>19, <1>20, <1>21, <1>22
       DEF Next, Request, Verify, Step

\* Type correctness of the three files, the lock and the processes of
\* ledger.py, in every behaviour.
THEOREM TypeCorrect == Spec => []TypeOK
  <1>1. TypeInv => TypeOK
    BY DEF TypeInv
  <1> QED
    BY TypeInit, TypeStep, <1>1, PTL DEF Spec

-----------------------------------------------------------------------------
(* The chain.                                                              *)

\* A wrapper that append may write after the rounds s.
Extends(s, w) ==
  /\ w.seq = Len(s) + 1
  /\ w.prev = LastHash(s)
  /\ s # <<>> => w.round = LastRound(s) + 1 \/ w.disc

\* Whole lines are linked; the first piece after them, whole or not, would
\* link too if it were a line; and so would what the lock holder is to write.
ChainInv ==
  /\ Linked(file.lines)
  /\ file.tail # <<>> => Extends(file.lines, file.tail[1].of)
  /\ \A p \in Process :
       /\ pc[p] = "opened" => Readable(file) /\ Extends(Rounds(file), out)
       /\ pc[p] = "part" => file.tail # <<>> /\ file.tail[Len(file.tail)].of = out
       /\ pc[p] = "whole" => file.tail # <<>> /\ file.tail[Len(file.tail)].of = out

\* A linked chain stays linked when a wrapper that extends it is appended.
LEMMA LinkedAppend ==
  ASSUME NEW s \in Seq(Wrapper), NEW w \in Wrapper, Linked(s), Extends(s, w)
  PROVE Linked(Append(s, w))
  <1>1. Append(s, w) \in Seq(Wrapper) /\ Len(Append(s, w)) = Len(s) + 1
    OBVIOUS
  <1>2. ASSUME NEW i \in 1..Len(s) PROVE Append(s, w)[i] = s[i]
    OBVIOUS
  <1>3. Append(s, w)[Len(s) + 1] = w
    OBVIOUS
  <1> SUFFICES ASSUME NEW i \in 1..Len(Append(s, w))
               PROVE LET t == Append(s, w) IN
                     /\ t[i].seq = i
                     /\ t[i].prev = (IF i = 1 THEN 0 ELSE t[i - 1].hash)
                     /\ i > 1 => t[i].round = t[i - 1].round + 1 \/ t[i].disc
    BY DEF Linked
  <1>4. CASE i \in 1..Len(s)
    <2>1. i > 1 => i - 1 \in 1..Len(s)
      BY <1>4
    <2> QED
      BY <1>2, <1>4, <2>1 DEF Linked
  <1>5. CASE i = Len(s) + 1
    <2>1. i > 1 => s # <<>> /\ i - 1 \in 1..Len(s) /\ i - 1 = Len(s)
      BY <1>5
    <2>2. i = 1 => s = <<>>
      BY <1>5
    <2> QED
      BY <1>2, <1>3, <1>5, <2>1, <2>2 DEF Extends, LastHash, LastRound
  <1> QED
    BY <1>1, <1>4, <1>5

\* What append builds of a linked chain extends it.
LEMMA WrapperExtends ==
  ASSUME NEW s \in Seq(Wrapper), NEW b \in Block, Linked(s)
  PROVE Extends(s, WrapperFor(b, s))
  <1>1. LastSeq(s) = Len(s)
    BY DEF Linked, LastSeq
  <1>2. s # <<>> => WrapperFor(b, s).round = LastRound(s) + 1 \/ WrapperFor(b, s).disc
    BY DEF WrapperFor, Follows
  <1> QED
    BY <1>1, <1>2 DEF Extends, WrapperFor

\* A linked chain cut after any line is linked, and the line cut extends it.
LEMMA LinkedPrefix ==
  ASSUME NEW s \in Seq(Wrapper), Linked(s), NEW k \in 1..Len(s)
  PROVE Linked(SubSeq(s, 1, k - 1)) /\ Extends(SubSeq(s, 1, k - 1), s[k])
  <1> DEFINE t == SubSeq(s, 1, k - 1)
  <1>1. t \in Seq(Wrapper) /\ Len(t) = k - 1 /\ \A i \in 1..k - 1 : t[i] = s[i]
    OBVIOUS
  <1>2. Linked(t)
    <2> SUFFICES ASSUME NEW i \in 1..Len(t)
                 PROVE /\ t[i].seq = i
                       /\ t[i].prev = (IF i = 1 THEN 0 ELSE t[i - 1].hash)
                       /\ i > 1 => t[i].round = t[i - 1].round + 1 \/ t[i].disc
      BY DEF Linked
    <2>1. i \in 1..Len(s) /\ t[i] = s[i] /\ (i > 1 => t[i - 1] = s[i - 1])
      BY <1>1
    <2> HIDE DEF t
    <2> QED
      BY <2>1 DEF Linked
  <1>3. Extends(t, s[k])
    <2>1. t # <<>> => k > 1 /\ t[Len(t)] = s[k - 1]
      BY <1>1
    <2>2. t = <<>> => k = 1
      BY <1>1
    <2> HIDE DEF t
    <2> QED
      BY <1>1, <2>1, <2>2 DEF Extends, Linked, LastHash, LastRound
  <1> QED
    BY <1>2, <1>3

\* The first piece of a cut is the first piece of what was cut.
LEMMA PieceCutsFirst ==
  ASSUME NEW t \in Seq(Piece), NEW c \in PieceCuts(t), c # <<>>
  PROVE t # <<>> /\ c[1].of = t[1].of
  <1>1. ASSUME NEW k \in 0..Len(t), c = SubSeq(t, 1, k)
        PROVE t # <<>> /\ c[1].of = t[1].of
    BY <1>1
  <1>2. ASSUME NEW k \in 1..Len(t), c = Append(SubSeq(t, 1, k - 1), [of |-> t[k].of, whole |-> FALSE])
        PROVE t # <<>> /\ c[1].of = t[1].of
    <2>1. SubSeq(t, 1, k - 1) \in Seq(Piece) /\ Len(SubSeq(t, 1, k - 1)) = k - 1
      OBVIOUS
    <2>2. CASE k = 1
      BY <1>2, <2>1, <2>2
    <2>3. CASE k > 1
      BY <1>2, <2>1, <2>3
    <2> QED
      BY <2>2, <2>3
  <1> QED
    BY <1>1, <1>2 DEF PieceCuts

\* What a power loss leaves of a file that chains still chains.
LEMMA CutChain ==
  ASSUME file \in File, CutFile, Linked(file.lines),
         file.tail # <<>> => Extends(file.lines, file.tail[1].of)
  PROVE Linked(file'.lines) /\ (file'.tail # <<>> => Extends(file'.lines, file'.tail[1].of))
  <1>1. file.lines \in Seq(Wrapper) /\ file.tail \in Seq(Piece)
    BY DEF File
  <1>2. ASSUME NEW k \in 1..Len(file.lines),
               NEW t \in PieceCuts(<<[of |-> file.lines[k], whole |-> TRUE]>>),
               file' = [lines |-> SubSeq(file.lines, 1, k - 1), tail |-> t, buried |-> FALSE]
        PROVE Linked(file'.lines) /\ (file'.tail # <<>> => Extends(file'.lines, file'.tail[1].of))
    <2>1. <<[of |-> file.lines[k], whole |-> TRUE]>> \in Seq(Piece)
      BY <1>1 DEF Piece
    <2>2. t # <<>> => t[1].of = file.lines[k]
      BY <2>1, PieceCutsFirst
    <2> QED
      BY <1>1, <1>2, <2>2, LinkedPrefix
  <1>3. ASSUME NEW t \in PieceCuts(file.tail), file' = [file EXCEPT !.tail = t, !.buried = FALSE]
        PROVE Linked(file'.lines) /\ (file'.tail # <<>> => Extends(file'.lines, file'.tail[1].of))
    <2>1. file'.lines = file.lines /\ file'.tail = t
      BY <1>3 DEF File
    <2> QED
      BY <1>1, <2>1, PieceCutsFirst
  <1> QED
    BY <1>2, <1>3 DEF CutFile

\* The empty ledger is linked.
LEMMA ChainInit == Init => ChainInv
  BY DEF Init, ChainInv, EmptyFile, Linked

\* Every step keeps the chain linked, and what an append is writing fit to
\* extend it.
LEMMA ChainStep == TypeInv /\ ChainInv /\ [Next]_vars => ChainInv'
  <1> SUFFICES ASSUME TypeInv, ChainInv, [Next]_vars PROVE ChainInv'
    OBVIOUS
  <1>0. /\ file \in File /\ out \in Wrapper /\ pc \in [Process -> Pc]
        /\ file.lines \in Seq(Wrapper) /\ file.tail \in Seq(Piece)
        /\ \A p, q \in Process : pc[p] \in Critical /\ pc[q] \in Critical => p = q
    BY DEF TypeInv, TypeOK, LockInv, File
  \* An action of p that leaves the file and out alone, and that enters none
  \* of the three states, preserves the invariant.
  <1>1. ASSUME NEW p \in Process, NEW l \in Pc \ {"opened", "part", "whole"},
               pc' = [pc EXCEPT ![p] = l], UNCHANGED file,
               UNCHANGED out \/ lock = p \/ lock = NoOne
        PROVE ChainInv'
    <2>1. ASSUME NEW q \in Process, pc'[q] \in {"opened", "part", "whole"}
          PROVE pc[q] = pc'[q] /\ out' = out
      <3>1. q # p /\ pc[q] = pc'[q]
        BY <1>0, <1>1, <2>1
      <3>2. lock = q
        BY <2>1, <3>1 DEF TypeInv, LockInv, Critical
      <3> QED
        BY <1>1, <3>1, <3>2, ProcessAssumption
    <2> QED
      BY <1>1, <2>1 DEF ChainInv
  <1>2. ASSUME NEW p \in Process, AppendBegin(p) PROVE ChainInv'
    <2>1. Linked(Rounds(file)) /\ Rounds(file) \in Seq(Wrapper)
      BY <1>0, RoundsType, LinkedAppend DEF ChainInv, Rounds, Bare, Piece
    <2>2. Extends(Rounds(file), out')
      BY <1>2, <2>1, WrapperExtends DEF AppendBegin, TypeInv, TypeOK
    <2>3. Readable(file)
      BY <1>2 DEF AppendBegin, Refused
    <2>4. \A q \in Process : q # p => pc'[q] \notin {"opened", "part", "whole"}
      <3>1. \A q \in Process : pc[q] \notin Critical
        BY <1>2, ProcessAssumption DEF AppendBegin, TypeInv, LockInv
      <3> QED
        BY <1>0, <1>2, <3>1 DEF AppendBegin, Goto, Critical
    <2>5. file' = file /\ pc'[p] = "opened"
      BY <1>0, <1>2 DEF AppendBegin, Goto
    <2>6. Rounds(file') = Rounds(file) /\ Readable(file')
      BY <2>3, <2>5
    <2> QED
      BY <2>2, <2>4, <2>5, <2>6 DEF ChainInv
  \* An action of the lock holder p: no other process is in the three states.
  <1>a. ASSUME NEW p \in Process, NEW l \in Pc, pc[p] \in Critical, pc' = [pc EXCEPT ![p] = l]
        PROVE pc'[p] = l /\ \A q \in Process : q # p => pc'[q] \notin {"opened", "part", "whole"}
    BY <1>0, <1>a DEF Critical
  <1>3. ASSUME NEW p \in Process, WritePart(p) PROVE ChainInv'
    <2> DEFINE q == [of |-> out, whole |-> FALSE]
    <2>1. q \in Piece /\ q.of = out
      BY <1>0 DEF Piece
    <2>2. file'.lines = file.lines /\ file'.tail = Append(file.tail, q) /\ out' = out
      BY <1>0, <1>3 DEF WritePart, File
    <2>3. Extends(Rounds(file), out)
      BY <1>3 DEF WritePart, ChainInv
    <2>4. Len(file'.tail) = Len(file.tail) + 1 /\ file'.tail # <<>> /\ file'.tail[Len(file'.tail)] = q
      BY <1>0, <2>1, <2>2
    <2>5. file.tail = <<>> => Extends(file.lines, file'.tail[1].of)
      BY <2>1, <2>2, <2>3, <2>4 DEF Rounds, Bare
    <2>6. file.tail # <<>> => file'.tail[1] = file.tail[1]
      BY <1>0, <2>1, <2>2
    <2>7. pc'[p] = "part" /\ \A r \in Process : r # p => pc'[r] \notin {"opened", "part", "whole"}
      BY <1>3, <1>a DEF WritePart, Goto, Critical, Pc
    <2> HIDE DEF q
    <2> QED
      BY <2>1, <2>2, <2>4, <2>5, <2>6, <2>7 DEF ChainInv
  <1>4. ASSUME NEW p \in Process, WriteRound(p) PROVE ChainInv'
    <2> DEFINE q == [of |-> out, whole |-> TRUE]
               t == SubSeq(file.tail, 1, Len(file.tail) - 1)
    <2>1. q \in Piece /\ q.of = out
      BY <1>0 DEF Piece
    <2>2. file'.lines = file.lines /\ file'.tail = Append(t, q) /\ out' = out
      BY <1>0, <1>4 DEF WriteRound, File
    <2>3. file.tail # <<>> /\ file.tail[Len(file.tail)].of = out
      BY <1>4 DEF WriteRound, ChainInv
    <2>4. t \in Seq(Piece) /\ Len(t) = Len(file.tail) - 1 /\ \A i \in 1..Len(t) : t[i] = file.tail[i]
      BY <1>0, <2>3
    <2> HIDE DEF q, t
    <2>5. Len(file'.tail) = Len(file.tail) /\ file'.tail # <<>> /\ file'.tail[Len(file'.tail)] = q
      <3>1. Len(t) + 1 = Len(file.tail) /\ Len(file.tail) \in Nat
        BY <1>0, <2>4
      <3>2. Len(Append(t, q)) = Len(t) + 1 /\ Append(t, q) # <<>> /\ Append(t, q)[Len(t) + 1] = q
        BY <2>1, <2>4, AppendProperties
      <3> QED
        BY <2>2, <3>1, <3>2
    <2>6. file'.tail[1].of = file.tail[1].of
      <3>1. CASE Len(file.tail) = 1
        <4>1. file'.tail[1] = q
          BY <2>5, <3>1
        <4>2. file.tail[1].of = out
          BY <2>3, <3>1
        <4> QED
          BY <2>1, <4>1, <4>2
      <3>2. CASE Len(file.tail) > 1
        <4>1. 1 \in 1..Len(t)
          BY <1>0, <2>4, <3>2
        <4>2. Append(t, q)[1] = t[1]
          BY <2>1, <2>4, <4>1, AppendProperties
        <4> QED
          BY <2>2, <2>4, <4>1, <4>2
      <3>3. Len(file.tail) \in Nat \ {0}
        BY <1>0, <2>3, EmptySeq
      <3>4. Len(file.tail) = 1 \/ Len(file.tail) > 1
        <4>1. \A n \in Nat \ {0} : n = 1 \/ n > 1
          OBVIOUS
        <4> QED
          BY <3>3, <4>1
      <3> QED
        BY <3>1, <3>2, <3>4, Zenon
    <2>7. pc'[p] = "whole" /\ \A r \in Process : r # p => pc'[r] \notin {"opened", "part", "whole"}
      BY <1>4, <1>a DEF WriteRound, Goto, Critical, Pc
    <2> QED
      BY <2>1, <2>2, <2>3, <2>5, <2>6, <2>7 DEF ChainInv
  <1>5. ASSUME NEW p \in Process, WriteNewline(p) PROVE ChainInv'
    <2>1. pc'[p] = "ended" /\ \A r \in Process : r # p => pc'[r] \notin {"opened", "part", "whole"}
      BY <1>5, <1>a DEF WriteNewline, Goto, Critical, Pc
    <2>2. CASE Bare(file)
      <3>1. file.tail # <<>> /\ file.tail[1].of = out
        BY <1>5, <2>2 DEF WriteNewline, ChainInv, Bare
      <3>2. file'.lines = Append(file.lines, out) /\ file'.tail = <<>>
        BY <1>5, <2>2 DEF WriteNewline
      <3>3. Linked(file'.lines)
        BY <1>0, <3>1, <3>2, LinkedAppend DEF ChainInv
      <3> QED
        BY <2>1, <3>2, <3>3 DEF ChainInv
    <2>3. CASE ~Bare(file)
      <3>1. file'.lines = file.lines /\ file'.tail = file.tail
        BY <1>0, <1>5, <2>3 DEF WriteNewline, File
      <3> QED
        BY <2>1, <3>1 DEF ChainInv
    <2> QED
      BY <2>2, <2>3
  <1>6. ASSUME NEW p \in Process, ReplaceRounds(p) PROVE ChainInv'
    <2>1. pc'[p] = "repaired" /\ \A r \in Process : r # p => pc'[r] \notin {"opened", "part", "whole"}
      BY <1>6, <1>a DEF ReplaceRounds, Goto, Critical, Pc
    <2>2. file'.lines = file.lines /\ file'.tail = <<>>
      BY <1>0, <1>6 DEF ReplaceRounds, File
    <2> QED
      BY <2>1, <2>2 DEF ChainInv
  <1>7. ASSUME PowerLoss PROVE ChainInv'
    <2>1. \A q \in Process : pc'[q] = "idle"
      BY <1>7 DEF PowerLoss
    <2> QED
      BY <1>0, <1>7, <2>1, CutChain DEF PowerLoss, ChainInv
  <1>8. CASE UNCHANGED vars
    BY <1>8 DEF vars, ChainInv, Readable, Rounds, Torn, Bare
  <1>9. ASSUME NEW p \in Process,
               \/ \E m \in Modes, t \in Task : Derive(p, m, t)
               \/ AppendRefuse(p) \/ Fsync(p) \/ StageCurrent(p) \/ ReplaceCurrent(p) \/ Finish(p)
               \/ RepairBegin(p) \/ SaveFragment(p) \/ StageRounds(p) \/ FinishRepair(p)
               \/ VerifyRounds(p) \/ VerifyCurrent(p) \/ Kill(p) \/ WriteError(p)
        PROVE ChainInv'
    <2>1. UNCHANGED file /\ \E l \in Pc \ {"opened", "part", "whole"} : pc' = [pc EXCEPT ![p] = l]
      BY <1>9 DEF Derive, AppendRefuse, Fsync, StageCurrent, ReplaceCurrent, Finish, RepairBegin,
         SaveFragment, StageRounds, FinishRepair, VerifyRounds, VerifyCurrent, Kill, WriteError,
         Goto, Pc, Idle, Critical
    <2>2. UNCHANGED out \/ lock = p \/ lock = NoOne
      BY <1>0, <1>9 DEF Derive, AppendRefuse, Fsync, StageCurrent, ReplaceCurrent, Finish, RepairBegin,
         SaveFragment, StageRounds, FinishRepair, VerifyRounds, VerifyCurrent, Kill, WriteError,
         TypeInv, LockInv, Critical
    <2> QED
      BY <1>1, <2>1, <2>2
  <1>10. ASSUME NEW p \in Process, VerifyUnreadable(p) PROVE ChainInv'
    BY <1>10 DEF VerifyUnreadable, ChainInv, Readable, Rounds, Torn, Bare
  <1> QED
    BY <1>2, <1>3, <1>4, <1>5, <1>6, <1>7, <1>8, <1>9, <1>10 DEF Next, Request, Verify, Step

\* Types and chain hold together in every behaviour.
LEMMA ChainInvCorrect == Spec => [](TypeInv /\ ChainInv)
  BY TypeInit, ChainInit, TypeStep, ChainStep, PTL DEF Spec

\* Whatever interleaves and whatever dies, the rounds read_rounds returns are
\* numbered by their lines, each carries the digest before it, and each round
\* follows its predecessor or records that it does not.
THEOREM ChainCorrect == Spec => []ChainIntact
  <1>1. TypeInv /\ ChainInv => ChainIntact
    <2> SUFFICES ASSUME TypeInv, ChainInv PROVE Linked(Rounds(file))
      BY DEF ChainIntact
    <2>1. file.lines \in Seq(Wrapper) /\ file.tail \in Seq(Piece)
      BY DEF TypeInv, TypeOK, File
    <2>2. CASE Bare(file)
      <3>1. file.tail # <<>> /\ file.tail[1] \in Piece
        BY <2>1, <2>2, ElementOfSeq DEF Bare
      <3> QED
        BY <2>1, <2>2, <3>1, LinkedAppend DEF Rounds, ChainInv, Piece
    <2>3. CASE ~Bare(file)
      BY <2>3 DEF Rounds, ChainInv
    <2> QED
      BY <2>2, <2>3
  <1> QED
    BY <1>1, ChainInvCorrect, PTL

-----------------------------------------------------------------------------
(* What is published stays.                                                *)

\* The digest d is that of a synced line, or of a piece in a synced buried one.
Durable(d) ==
  \/ \E i \in 1..Len(file.lines) : file.lines[i].hash = d /\ 3 * i <= synced
  \/ file.buried /\ d \in TailHashes(file) /\ Marks(file) <= synced

\* What is published is durable; so is what an append is about to publish
\* after its fsync; before it, the round is the last line or has been buried.
\* Nobody writes to a file with a buried line, and nobody repairs one.
HolderInv(p) ==
  /\ pc[p] \in {"opened", "part", "whole", "repair", "saved", "cut"} => ~file.buried
  /\ pc[p] = "ended" => \/ file.lines # <<>> /\ file.lines[Len(file.lines)].hash = out.hash
                        \/ file.buried /\ out.hash \in TailHashes(file)
  /\ pc[p] \in {"durable", "staged", "current"} => Durable(out.hash)

PubInv ==
  /\ \A d \in Published : Durable(d)
  /\ \A p \in Process : HolderInv(p)

\* A cut of pieces has no more marks than the pieces.
LEMMA TailMarksCut ==
  ASSUME NEW t \in Seq(Piece), NEW c \in PieceCuts(t)
  PROVE TailMarks(c) \in Nat /\ TailMarks(t) \in Nat /\ TailMarks(c) <= TailMarks(t)
  <1>0. \A q : PieceMarks(q) \in {1, 2} /\ (q.whole = FALSE => PieceMarks(q) = 1)
    BY DEF PieceMarks
  <1>1. ASSUME NEW k \in 0..Len(t), c = SubSeq(t, 1, k)
        PROVE TailMarks(c) <= TailMarks(t)
    <2>1. Len(c) = k /\ \A i \in 1..k : c[i] = t[i]
      BY <1>1
    <2> QED
      BY <1>0, <2>1 DEF TailMarks
  <1>2. ASSUME NEW k \in 1..Len(t), c = Append(SubSeq(t, 1, k - 1), [of |-> t[k].of, whole |-> FALSE])
        PROVE TailMarks(c) <= TailMarks(t)
    <2>1. Len(c) = k /\ c[k].whole = FALSE /\ \A i \in 1..k - 1 : c[i] = t[i]
      BY <1>2
    <2> QED
      BY <1>0, <2>1 DEF TailMarks
  <1>3. \A s : TailMarks(s) \in Nat
    BY <1>0 DEF TailMarks
  <1> QED
    BY <1>1, <1>2, <1>3 DEF PieceCuts

\* A power loss spares what is durable.
LEMMA CutDurable ==
  ASSUME file \in File, synced \in Nat, CutFile, NEW d, Durable(d)
  PROVE Durable(d)'
  <1>0. /\ file.lines \in Seq(Wrapper) /\ file.tail \in Seq(Piece) /\ file.buried \in BOOLEAN
        /\ synced <= Marks(file') /\ synced' = Marks(file')
    BY DEF File, CutFile
  <1>1. CASE UNCHANGED file
    <2>1. Marks(file) = synced'
      BY <1>0, <1>1
    <2>2. Marks(file) \in Nat
      BY MarksType
    <2>3. ASSUME NEW i \in 1..Len(file.lines), file.lines[i].hash = d, 3 * i <= synced
          PROVE Durable(d)'
      <3>1. 3 * i <= synced'
        BY <1>0, <2>1, <2>2, <2>3, <1>1
      <3> QED
        BY <1>1, <2>3, <3>1 DEF Durable
    <2>4. ASSUME file.buried, d \in TailHashes(file) PROVE Durable(d)'
      BY <1>1, <2>1, <2>2, <2>4 DEF Durable, TailHashes
    <2> QED
      BY <2>3, <2>4 DEF Durable
  <1>2. ASSUME NEW k \in 1..Len(file.lines),
               NEW t \in PieceCuts(<<[of |-> file.lines[k], whole |-> TRUE]>>),
               file' = [lines |-> SubSeq(file.lines, 1, k - 1), tail |-> t, buried |-> FALSE]
        PROVE Durable(d)'
    <2> DEFINE q == [of |-> file.lines[k], whole |-> TRUE]
    <2>1. <<q>> \in Seq(Piece)
      BY <1>0 DEF Piece
    <2>2. TailMarks(<<q>>) = 2
      BY DEF TailMarks, PieceMarks
    <2>3. TailMarks(t) \in Nat /\ TailMarks(t) <= 2
      BY <2>1, <2>2, TailMarksCut
    <2>4. Len(file'.lines) = k - 1 /\ \A i \in 1..k - 1 : file'.lines[i] = file.lines[i]
      BY <1>0, <1>2
    <2>5. Marks(file') = 3 * (k - 1) + TailMarks(t)
      BY <1>2, <2>3, <2>4 DEF Marks
    <2>6. 3 * Len(file.lines) > Marks(file')
      BY <1>0, <2>3, <2>5
    <2>7. PICK i \in 1..Len(file.lines) : file.lines[i].hash = d /\ 3 * i <= synced
      <3>1. Marks(file) >= 3 * Len(file.lines)
        <4>1. TailMarks(file.tail) \in Nat
          BY DEF TailMarks, PieceMarks
        <4> QED
          BY <1>0, <4>1 DEF Marks
      <3>2. ~(Marks(file) <= synced)
        BY <1>0, <2>3, <2>5, <2>6, <3>1, MarksType
      <3> QED
        BY <3>2 DEF Durable
    <2>8. i \in 1..k - 1 /\ 3 * i <= synced'
      BY <1>0, <2>3, <2>5, <2>7
    <2> QED
      BY <2>4, <2>7, <2>8 DEF Durable
  <1>3. ASSUME NEW t \in PieceCuts(file.tail), file' = [file EXCEPT !.tail = t, !.buried = FALSE]
        PROVE Durable(d)'
    <2>1. file'.lines = file.lines /\ file'.tail = t /\ file'.buried = FALSE
      BY <1>3 DEF File
    <2>2. TailMarks(t) \in Nat /\ TailMarks(file.tail) \in Nat /\ TailMarks(t) <= TailMarks(file.tail)
      BY <1>0, TailMarksCut
    <2>3. PICK i \in 1..Len(file.lines) : file.lines[i].hash = d /\ 3 * i <= synced
      <3>1. file.buried => Marks(file') < Marks(file)
        BY <1>0, <2>1, <2>2 DEF Marks
      <3>2. Marks(file') \in Nat /\ Marks(file) \in Nat
        BY <1>0, <2>1, <2>2 DEF Marks
      <3>3. file.buried => ~(Marks(file) <= synced)
        BY <1>0, <3>1, <3>2
      <3> QED
        BY <3>3 DEF Durable
    <2>4. Marks(file') \in Nat
      BY <1>0, <2>1, <2>2 DEF Marks
    <2>5. 3 * i <= synced'
      BY <1>0, <2>3, <2>4
    <2> QED
      BY <2>1, <2>3, <2>5 DEF Durable
  <1> QED
    BY <1>1, <1>2, <1>3 DEF CutFile

\* No step takes back what is durable.
LEMMA DurableStays ==
  ASSUME TypeInv, PubInv, [Next]_vars, NEW d, Durable(d)
  PROVE Durable(d)'
  <1>0. /\ file \in File /\ synced \in Nat /\ out \in Wrapper
        /\ file.lines \in Seq(Wrapper) /\ file.tail \in Seq(Piece) /\ file.buried \in BOOLEAN
    BY DEF TypeInv, TypeOK, File
  <1>1. CASE UNCHANGED <<file, synced>>
    BY <1>1 DEF Durable, TailHashes, Marks, TailMarks
  \* A step of a process that writes meets no buried line.
  <1>2. ASSUME ~file.buried, UNCHANGED synced, file'.lines = file.lines \/ file'.lines = Append(file.lines, out)
        PROVE Durable(d)'
    <2>1. PICK i \in 1..Len(file.lines) : file.lines[i].hash = d /\ 3 * i <= synced
      BY <1>2 DEF Durable
    <2>2. i \in 1..Len(file'.lines) /\ file'.lines[i] = file.lines[i]
      BY <1>0, <1>2
    <2> QED
      BY <1>2, <2>1, <2>2 DEF Durable
  <1>3. ASSUME NEW p \in Process, WritePart(p) PROVE Durable(d)'
    <2>1. ~file.buried
      BY <1>3 DEF WritePart, PubInv, HolderInv
    <2> QED
      BY <1>0, <1>2, <1>3, <2>1 DEF WritePart, File
  <1>4. ASSUME NEW p \in Process, WriteRound(p) PROVE Durable(d)'
    <2>1. ~file.buried
      BY <1>4 DEF WriteRound, PubInv, HolderInv
    <2> QED
      BY <1>0, <1>2, <1>4, <2>1 DEF WriteRound, File
  <1>5. ASSUME NEW p \in Process, WriteNewline(p) PROVE Durable(d)'
    <2>1. ~file.buried
      BY <1>5 DEF WriteNewline, PubInv, HolderInv
    <2>2. file'.lines = file.lines \/ file'.lines = Append(file.lines, out)
      BY <1>0, <1>5 DEF WriteNewline, File
    <2> QED
      BY <1>2, <1>5, <2>1, <2>2 DEF WriteNewline
  <1>6. ASSUME NEW p \in Process, Fsync(p) PROVE Durable(d)'
    <2>1. file' = file /\ synced' = Marks(file)
      BY <1>6 DEF Fsync
    <2>2. Marks(file) \in Nat /\ Marks(file) >= 3 * Len(file.lines)
      <3>1. TailMarks(file.tail) \in Nat
        BY DEF TailMarks, PieceMarks
      <3> QED
        BY <1>0, <3>1 DEF Marks
    <2>3. ASSUME NEW i \in 1..Len(file.lines), file.lines[i].hash = d
          PROVE Durable(d)'
      <3>1. 3 * i <= synced'
        BY <1>0, <2>1, <2>2
      <3> QED
        BY <2>1, <2>3, <3>1 DEF Durable
    <2>4. ASSUME file.buried, d \in TailHashes(file) PROVE Durable(d)'
      BY <2>1, <2>2, <2>4 DEF Durable
    <2> QED
      BY <2>3, <2>4 DEF Durable
  <1>7. ASSUME NEW p \in Process, ReplaceRounds(p) PROVE Durable(d)'
    <2>1. ~file.buried
      BY <1>7 DEF ReplaceRounds, PubInv, HolderInv
    <2>2. PICK i \in 1..Len(file.lines) : file.lines[i].hash = d
      BY <2>1 DEF Durable
    <2>3. file'.lines = file.lines /\ synced' = 3 * Len(file.lines)
      BY <1>0, <1>7 DEF ReplaceRounds, File
    <2>4. 3 * i <= synced'
      BY <1>0, <2>3
    <2> QED
      BY <2>2, <2>3, <2>4 DEF Durable
  <1>8. ASSUME PowerLoss PROVE Durable(d)'
    BY <1>0, <1>8, CutDurable DEF PowerLoss
  <1>9. ASSUME NEW p \in Process,
               \/ Request(p) \/ RepairBegin(p) \/ Verify(p) \/ Kill(p) \/ WriteError(p)
               \/ AppendRefuse(p) \/ AppendBegin(p) \/ StageCurrent(p) \/ ReplaceCurrent(p) \/ Finish(p)
               \/ SaveFragment(p) \/ StageRounds(p) \/ FinishRepair(p) \/ VerifyCurrent(p)
        PROVE UNCHANGED <<file, synced>>
    BY <1>9 DEF Request, Derive, RepairBegin, Verify, VerifyUnreadable, VerifyRounds, Kill, WriteError,
       AppendRefuse, AppendBegin, StageCurrent, ReplaceCurrent, Finish, SaveFragment, StageRounds,
       FinishRepair, VerifyCurrent
  <1>10. CASE UNCHANGED vars
    BY <1>1, <1>10 DEF vars
  <1> QED
    BY <1>1, <1>3, <1>4, <1>5, <1>6, <1>7, <1>8, <1>9, <1>10 DEF Next, Step

\* Only the round of a lock holder past its fsync is newly published.
LEMMA PublishedStep ==
  ASSUME TypeInv, [Next]_vars, NEW d \in Published'
  PROVE d \in Published \/ \E p \in Process : pc[p] \in {"staged", "current"} /\ d = out.hash
  <1>0. events \in Seq(Nat)
    BY DEF TypeInv, TypeOK, Digest
  <1>1. ASSUME NEW p \in Process, ReplaceCurrent(p)
        PROVE d \in Published \/ \E q \in Process : pc[q] \in {"staged", "current"} /\ d = out.hash
    BY <1>1 DEF ReplaceCurrent, Published
  <1>2. ASSUME NEW p \in Process, Finish(p)
        PROVE d \in Published \/ \E q \in Process : pc[q] \in {"staged", "current"} /\ d = out.hash
    <2>1. \A i \in 1..Len(events') : events'[i] = out.hash \/ (i \in 1..Len(events) /\ events'[i] = events[i])
      <3>1. out.hash \in Nat
        BY DEF TypeInv, TypeOK, Wrapper, Digest
      <3>2. events' = Append(events, out.hash)
        BY <1>2 DEF Finish
      <3> QED
        BY <1>0, <3>1, <3>2
    <2> QED
      BY <1>2, <2>1 DEF Finish, Published
  <1>3. ASSUME NEW p \in Process, FinishRepair(p) PROVE d \in Published
    <2>1. \A i \in 1..Len(events') : events'[i] = 0 \/ (i \in 1..Len(events) /\ events'[i] = events[i])
      <3>1. events' = Append(events, 0)
        BY <1>3 DEF FinishRepair
      <3> QED
        BY <1>0, <3>1
    <2> QED
      BY <1>3, <2>1 DEF FinishRepair, Published
  <1>4. ASSUME PowerLoss PROVE d \in Published
    <2>1. \A i \in 1..Len(events') : i \in 1..Len(events) /\ events'[i] = events[i]
      BY <1>0, <1>4 DEF PowerLoss
    <2> QED
      BY <1>4, <2>1 DEF PowerLoss, Published
  <1>5. ASSUME NEW p \in Process,
               \/ Request(p) \/ RepairBegin(p) \/ Verify(p) \/ Kill(p) \/ WriteError(p)
               \/ AppendRefuse(p) \/ AppendBegin(p) \/ WritePart(p) \/ WriteRound(p) \/ WriteNewline(p)
               \/ Fsync(p) \/ StageCurrent(p) \/ SaveFragment(p) \/ StageRounds(p) \/ ReplaceRounds(p)
               \/ VerifyCurrent(p)
        PROVE UNCHANGED <<acked, events, cur>>
    BY <1>5 DEF Request, Derive, RepairBegin, Verify, VerifyUnreadable, VerifyRounds, Kill, WriteError,
       AppendRefuse, AppendBegin, WritePart, WriteRound, WriteNewline, Fsync, StageCurrent, SaveFragment,
       StageRounds, ReplaceRounds, VerifyCurrent
  <1>6. UNCHANGED <<acked, events, cur>> => d \in Published
    BY DEF Published
  <1> QED
    BY <1>1, <1>2, <1>3, <1>4, <1>5, <1>6 DEF Next, Step, vars

\* What is true of the lock holder at each of its steps stays so.
LEMMA HolderStep ==
  ASSUME TypeInv, ChainInv, PubInv, [Next]_vars
  PROVE \A q \in Process : HolderInv(q)'
  <1>0. /\ file \in File /\ out \in Wrapper /\ pc \in [Process -> Pc]
        /\ file.lines \in Seq(Wrapper) /\ file.tail \in Seq(Piece) /\ file.buried \in BOOLEAN
        /\ \A p, q \in Process : pc[p] \in Critical /\ pc[q] \in Critical => p = q
        /\ \A p \in Process : lock = NoOne => pc[p] \notin Critical
        /\ \A p \in Process : lock = p => \A q \in Process : q # p => pc[q] \notin Critical
    BY ProcessAssumption DEF TypeInv, TypeOK, LockInv, File
  \* Nothing is asked of a process outside the lock.
  <1>a. \A q \in Process : pc'[q] \notin Critical => HolderInv(q)'
    BY DEF HolderInv, Critical
  \* A step of p, outside the lock or leaving it.
  <1>1. ASSUME NEW p \in Process, NEW l \in {"idle", "waiting", "verify"}, pc' = [pc EXCEPT ![p] = l],
               UNCHANGED <<file, synced>>, UNCHANGED out \/ lock = p \/ lock = NoOne
        PROVE \A q \in Process : HolderInv(q)'
    <2> SUFFICES ASSUME NEW q \in Process, pc'[q] \in Critical PROVE HolderInv(q)'
      BY <1>a
    <2>1. q # p /\ pc'[q] = pc[q] /\ pc[q] \in Critical
      BY <1>0, <1>1 DEF Critical
    <2>2. out' = out
      BY <1>0, <1>1, <2>1
    <2>3. Durable(out.hash) => Durable(out.hash)'
      BY <1>1, <2>2 DEF Durable, TailHashes, Marks, TailMarks
    <2> QED
      BY <1>1, <2>1, <2>2, <2>3 DEF HolderInv, PubInv, Durable, TailHashes
  \* A step of p that holds the lock when it ends: the others are outside.
  <1>2. ASSUME NEW p \in Process, NEW l \in Critical, pc' = [pc EXCEPT ![p] = l],
               pc[p] \in Critical \/ lock = NoOne, HolderInv(p)'
        PROVE \A q \in Process : HolderInv(q)'
    <2>1. \A q \in Process : q # p => pc'[q] \notin Critical
      BY <1>0, <1>2
    <2> QED
      BY <1>2, <1>a, <2>1
  <1>3. ASSUME NEW p \in Process,
               \/ Request(p) \/ VerifyRounds(p) \/ Kill(p) \/ WriteError(p)
               \/ AppendRefuse(p) \/ Finish(p) \/ FinishRepair(p) \/ VerifyCurrent(p)
        PROVE \A q \in Process : HolderInv(q)'
    <2>1. UNCHANGED <<file, synced>> /\ \E l \in {"idle", "waiting", "verify"} : pc' = [pc EXCEPT ![p] = l]
      BY <1>3 DEF Request, Derive, VerifyRounds, Kill, WriteError, AppendRefuse, Finish, FinishRepair,
         VerifyCurrent, Goto
    <2>2. UNCHANGED out \/ lock = p \/ lock = NoOne
      BY <1>0, <1>3 DEF Request, Derive, VerifyRounds, Kill, WriteError, AppendRefuse, Finish,
         FinishRepair, VerifyCurrent, TypeInv, LockInv, Critical
    <2> QED
      BY <1>1, <2>1, <2>2
  <1>4. ASSUME NEW p \in Process, AppendBegin(p) PROVE \A q \in Process : HolderInv(q)'
    <2>1. pc'[p] = "opened" /\ ~file'.buried
      BY <1>0, <1>4 DEF AppendBegin, Goto, Refused, Readable
    <2> QED
      BY <1>2, <1>4, <2>1 DEF AppendBegin, Goto, Critical, HolderInv
  <1>5. ASSUME NEW p \in Process, WritePart(p) PROVE \A q \in Process : HolderInv(q)'
    <2>1. pc'[p] = "part" /\ ~file'.buried
      BY <1>0, <1>5 DEF WritePart, Goto, File, PubInv, HolderInv
    <2> QED
      BY <1>2, <1>5, <2>1 DEF WritePart, Goto, Critical, HolderInv
  <1>6. ASSUME NEW p \in Process, WriteRound(p) PROVE \A q \in Process : HolderInv(q)'
    <2>1. pc'[p] = "whole" /\ ~file'.buried
      BY <1>0, <1>6 DEF WriteRound, Goto, File, PubInv, HolderInv
    <2> QED
      BY <1>2, <1>6, <2>1 DEF WriteRound, Goto, Critical, HolderInv
  <1>7. ASSUME NEW p \in Process, WriteNewline(p) PROVE \A q \in Process : HolderInv(q)'
    <2>1. pc'[p] = "ended" /\ out' = out
      BY <1>0, <1>7 DEF WriteNewline, Goto
    <2>2. ASSUME Bare(file) PROVE HolderInv(p)'
      <3>1. file'.lines = Append(file.lines, out)
        BY <1>7, <2>2 DEF WriteNewline
      <3>2. file'.lines # <<>> /\ file'.lines[Len(file'.lines)] = out
        BY <1>0, <3>1
      <3> QED
        BY <2>1, <3>2 DEF HolderInv
    <2>3. ASSUME ~Bare(file) PROVE HolderInv(p)'
      <3>1. file'.buried /\ file'.tail = file.tail
        BY <1>0, <1>7, <2>3 DEF WriteNewline, File
      <3>2. file.tail # <<>> /\ file.tail[Len(file.tail)].of = out
        BY <1>7 DEF WriteNewline, ChainInv
      <3>3. Len(file.tail) \in 1..Len(file.tail)
        BY <1>0, <3>2, EmptySeq
      <3>4. out'.hash \in TailHashes(file')
        BY <2>1, <3>1, <3>2, <3>3 DEF TailHashes
      <3> QED
        BY <2>1, <3>1, <3>4 DEF HolderInv
    <2>4. HolderInv(p)'
      BY <2>2, <2>3
    <2> QED
      BY <1>2, <1>7, <2>4 DEF WriteNewline, Goto, Critical
  <1>8. ASSUME NEW p \in Process, Fsync(p) PROVE \A q \in Process : HolderInv(q)'
    <2>1. pc'[p] = "durable" /\ UNCHANGED <<file, out>> /\ synced' = Marks(file)
      BY <1>0, <1>8 DEF Fsync, Goto
    <2>2. \/ file.lines # <<>> /\ file.lines[Len(file.lines)].hash = out.hash
          \/ file.buried /\ out.hash \in TailHashes(file)
      BY <1>8 DEF Fsync, PubInv, HolderInv
    <2>3. Marks(file) \in Nat /\ Marks(file) >= 3 * Len(file.lines)
      <3>1. TailMarks(file.tail) \in Nat
        BY DEF TailMarks, PieceMarks
      <3> QED
        BY <1>0, <3>1 DEF Marks
    <2>4. ASSUME file.lines # <<>>, file.lines[Len(file.lines)].hash = out.hash PROVE HolderInv(p)'
      <3>1. Len(file.lines) \in 1..Len(file.lines)
        BY <1>0, <2>4, EmptySeq
      <3> QED
        BY <2>1, <2>3, <2>4, <3>1 DEF Durable, HolderInv
    <2>5. ASSUME file.buried, out.hash \in TailHashes(file) PROVE HolderInv(p)'
      <3>1. Durable(out.hash)'
        BY <2>1, <2>3, <2>5 DEF Durable
      <3> QED
        BY <2>1, <3>1 DEF HolderInv
    <2>6. HolderInv(p)'
      BY <2>2, <2>4, <2>5
    <2> QED
      BY <1>2, <1>8, <2>6 DEF Fsync, Goto, Critical
  <1>9. ASSUME NEW p \in Process, NEW l \in {"staged", "current"}, pc' = [pc EXCEPT ![p] = l],
               pc[p] \in {"durable", "staged"}, UNCHANGED <<file, synced, out>>
        PROVE \A q \in Process : HolderInv(q)'
    <2>1. Durable(out.hash)'
      BY <1>9 DEF PubInv, HolderInv, Durable, TailHashes, Marks, TailMarks
    <2>2. HolderInv(p)'
      BY <1>0, <1>9, <2>1 DEF HolderInv
    <2> QED
      BY <1>2, <1>9, <2>2 DEF Critical
  <1>10. ASSUME NEW p \in Process, StageCurrent(p) \/ ReplaceCurrent(p)
         PROVE \A q \in Process : HolderInv(q)'
    <2>1. UNCHANGED <<file, synced, out>> /\ pc[p] \in {"durable", "staged"}
      BY <1>10 DEF StageCurrent, ReplaceCurrent
    <2>2. \E l \in {"staged", "current"} : pc' = [pc EXCEPT ![p] = l]
      BY <1>10 DEF StageCurrent, ReplaceCurrent, Goto
    <2> QED
      BY <1>9, <2>1, <2>2
  <1>11. ASSUME NEW p \in Process, NEW l \in {"repair", "saved", "cut", "repaired"},
                pc' = [pc EXCEPT ![p] = l], pc[p] \in Critical \/ lock = NoOne,
                l # "repaired" => ~file'.buried
         PROVE \A q \in Process : HolderInv(q)'
    <2>1. HolderInv(p)'
      BY <1>0, <1>11 DEF HolderInv
    <2> QED
      BY <1>2, <1>11, <2>1 DEF Critical
  <1>12. ASSUME NEW p \in Process, RepairBegin(p) PROVE \A q \in Process : HolderInv(q)'
    <2>1. pc' = [pc EXCEPT ![p] = "repair"] /\ lock = NoOne /\ ~file'.buried
      BY <1>12 DEF RepairBegin, Torn, Goto
    <2> QED
      BY <1>11, <2>1
  <1>13. ASSUME NEW p \in Process, SaveFragment(p) \/ StageRounds(p) PROVE \A q \in Process : HolderInv(q)'
    <2>1. UNCHANGED file /\ pc[p] \in {"repair", "saved"}
      BY <1>13 DEF SaveFragment, StageRounds
    <2>2. ~file'.buried /\ pc[p] \in Critical
      BY <2>1 DEF PubInv, HolderInv, Critical
    <2>3. \E l \in {"saved", "cut"} : pc' = [pc EXCEPT ![p] = l]
      BY <1>13 DEF SaveFragment, StageRounds, Goto
    <2> QED
      BY <1>11, <2>2, <2>3
  <1>14. ASSUME NEW p \in Process, ReplaceRounds(p) PROVE \A q \in Process : HolderInv(q)'
    <2>1. pc' = [pc EXCEPT ![p] = "repaired"] /\ pc[p] \in Critical
      BY <1>14 DEF ReplaceRounds, Critical, Goto
    <2> QED
      BY <1>11, <2>1
  <1>15. ASSUME PowerLoss PROVE \A q \in Process : HolderInv(q)'
    BY <1>15, <1>a DEF PowerLoss, Critical
  <1>16. ASSUME UNCHANGED <<file, synced, pc, out>> PROVE \A q \in Process : HolderInv(q)'
    BY <1>16 DEF PubInv, HolderInv, Durable, TailHashes, Marks, TailMarks
  <1>17. ASSUME NEW p \in Process, VerifyUnreadable(p) PROVE \A q \in Process : HolderInv(q)'
    BY <1>16, <1>17 DEF VerifyUnreadable
  <1>18. CASE UNCHANGED vars
    BY <1>16, <1>18 DEF vars
  <1> QED
    BY <1>3, <1>4, <1>5, <1>6, <1>7, <1>8, <1>10, <1>12, <1>13, <1>14, <1>15, <1>17, <1>18
       DEF Next, Step, Verify

\* Nothing is published at the start.
LEMMA PubInit == Init => PubInv
  BY DEF Init, PubInv, HolderInv, Published, EmptyFile

\* Every step keeps what is published in rounds.jsonl, and the lock holder
\* where its step says it is.
LEMMA PubStep == TypeInv /\ ChainInv /\ PubInv /\ [Next]_vars => PubInv'
  <1> SUFFICES ASSUME TypeInv, ChainInv, PubInv, [Next]_vars PROVE PubInv'
    OBVIOUS
  <1>1. ASSUME NEW d \in Published' PROVE Durable(d)'
    <2>1. Durable(d)
      BY PublishedStep DEF PubInv, HolderInv
    <2> QED
      BY <2>1, DurableStays
  <1>2. \A q \in Process : HolderInv(q)'
    BY HolderStep
  <1> QED
    BY <1>1, <1>2 DEF PubInv

\* A round whose append reported success, or that STATE_CURRENT.json or
\* events.log names, stays in rounds.jsonl through every crash, power loss,
\* repair and concurrent append.
THEOREM PublishedCorrect == Spec => []PublishedSurvives
  <1>2. PubInv => PublishedSurvives
    BY DEF PubInv, PublishedSurvives, Durable, Hashes
  <1> QED
    BY TypeInit, ChainInit, PubInit, TypeStep, ChainStep, PubStep, <1>2, PTL DEF Spec

\* Whether line i of the file outlives a step.
Keeps(i) == i <= Len(file'.lines) /\ file'.lines[i] = file.lines[i]

\* A line that an fsync covered is there, unchanged, after every step.
LEMMA SyncedLineStays ==
  ASSUME TypeInv, [Next]_vars, NEW i \in 1..Len(file.lines), 3 * i <= synced
  PROVE Keeps(i)
  <1>0. /\ file \in File /\ synced \in Nat /\ out \in Wrapper
        /\ file.lines \in Seq(Wrapper) /\ file.tail \in Seq(Piece)
    BY DEF TypeInv, TypeOK, File
  <1>1. CASE file'.lines = file.lines
    BY <1>0, <1>1 DEF Keeps
  <1>2. CASE file'.lines = Append(file.lines, out)
    BY <1>0, <1>2 DEF Keeps
  <1>3. ASSUME CutFile PROVE Keeps(i)
    <2>1. ASSUME NEW k \in 1..Len(file.lines),
                 NEW t \in PieceCuts(<<[of |-> file.lines[k], whole |-> TRUE]>>),
                 file' = [lines |-> SubSeq(file.lines, 1, k - 1), tail |-> t, buried |-> FALSE]
          PROVE Keeps(i)
      <3> DEFINE q == [of |-> file.lines[k], whole |-> TRUE]
      <3>1. <<q>> \in Seq(Piece)
        BY <1>0 DEF Piece
      <3>2. TailMarks(<<q>>) = 2
        BY DEF TailMarks, PieceMarks
      <3>3. TailMarks(t) \in Nat /\ TailMarks(t) <= 2
        BY <3>1, <3>2, TailMarksCut
      <3>4. Len(file'.lines) = k - 1 /\ \A j \in 1..k - 1 : file'.lines[j] = file.lines[j]
        BY <1>0, <2>1
      <3>5. Marks(file') = 3 * (k - 1) + TailMarks(t)
        BY <2>1, <3>3, <3>4 DEF Marks
      <3>6. synced <= 3 * (k - 1) + TailMarks(t)
        BY <1>3, <3>5 DEF CutFile
      <3>7. i \in 1..k - 1
        BY <1>0, <3>3, <3>6
      <3> QED
        BY <3>4, <3>7 DEF Keeps
    <2>2. ASSUME NEW t \in PieceCuts(file.tail), file' = [file EXCEPT !.tail = t, !.buried = FALSE]
          PROVE file'.lines = file.lines
      BY <1>0, <2>2 DEF File
    <2> QED
      BY <1>1, <1>3, <2>1, <2>2 DEF CutFile
  <1>4. ASSUME NEW p \in Process,
               \/ Request(p) \/ RepairBegin(p) \/ Verify(p) \/ Kill(p) \/ WriteError(p)
               \/ AppendRefuse(p) \/ AppendBegin(p) \/ Fsync(p) \/ StageCurrent(p) \/ ReplaceCurrent(p)
               \/ Finish(p) \/ SaveFragment(p) \/ StageRounds(p) \/ FinishRepair(p) \/ VerifyCurrent(p)
        PROVE file' = file
    BY <1>4 DEF Request, Derive, RepairBegin, Verify, VerifyUnreadable, VerifyRounds, Kill, WriteError,
       AppendRefuse, AppendBegin, Fsync, StageCurrent, ReplaceCurrent, Finish, SaveFragment, StageRounds,
       FinishRepair, VerifyCurrent
  <1>5. ASSUME NEW p \in Process, WritePart(p) \/ WriteRound(p) \/ ReplaceRounds(p)
        PROVE file'.lines = file.lines
    BY <1>0, <1>5 DEF WritePart, WriteRound, ReplaceRounds, File
  <1>6. ASSUME NEW p \in Process, WriteNewline(p)
        PROVE file'.lines = file.lines \/ file'.lines = Append(file.lines, out)
    BY <1>0, <1>6 DEF WriteNewline, File
  <1>7. CASE UNCHANGED vars
    BY <1>1, <1>7 DEF vars
  <1>8. PowerLoss => CutFile
    BY DEF PowerLoss
  <1> QED
    BY <1>1, <1>2, <1>3, <1>4, <1>5, <1>6, <1>7, <1>8 DEF Next, Step

\* A line an fsync has covered is never rewritten or lost.
THEOREM DurableCorrect == Spec => DurableAppendOnly
  <1>1. TypeInv /\ [Next]_vars =>
          [\A i \in 1..Len(file.lines) :
             3 * i <= synced => i <= Len(file'.lines) /\ file'.lines[i] = file.lines[i]]_vars
    BY SyncedLineStays DEF Keeps
  <1> QED
    BY TypeInit, TypeStep, <1>1, PTL DEF Spec, DurableAppendOnly

-----------------------------------------------------------------------------
(* The repair.                                                             *)

\* A repair under way has a fragment to cut, and after its first step has it
\* under ledger/torn.
EvidenceInv ==
  \A p \in Process :
    /\ pc[p] \in {"repair", "saved", "cut"} => file.tail # <<>>
    /\ pc[p] \in {"saved", "cut"} => file.tail \in torn

\* Every step keeps the fragment of a repair under ledger/torn until it is
\* cut, and what is to be cut a tail.
LEMMA EvidenceStep == TypeInv /\ EvidenceInv /\ [Next]_vars => EvidenceInv'
  <1> SUFFICES ASSUME TypeInv, EvidenceInv, [Next]_vars PROVE EvidenceInv'
    OBVIOUS
  <1>0. /\ pc \in [Process -> Pc]
        /\ \A p, q \in Process : pc[p] \in Critical /\ pc[q] \in Critical => p = q
    BY DEF TypeInv, TypeOK, LockInv
  \* Steps that leave the file and the fragments alone.
  <1>1. ASSUME NEW p \in Process, NEW l \in Pc \ {"repair", "saved", "cut"}, pc' = [pc EXCEPT ![p] = l],
               UNCHANGED <<file, torn>>
        PROVE EvidenceInv'
    BY <1>0, <1>1 DEF EvidenceInv
  \* Steps of the lock holder that leave it outside a repair.
  <1>2. ASSUME NEW p \in Process, NEW l \in Pc \ {"repair", "saved", "cut"}, pc' = [pc EXCEPT ![p] = l],
               pc[p] \in Critical
        PROVE EvidenceInv'
    BY <1>0, <1>2 DEF EvidenceInv, Critical
  <1>3. ASSUME NEW p \in Process,
               \/ Request(p) \/ VerifyRounds(p) \/ VerifyCurrent(p) \/ Kill(p) \/ WriteError(p)
               \/ AppendRefuse(p) \/ AppendBegin(p) \/ Finish(p) \/ FinishRepair(p)
        PROVE EvidenceInv'
    <2>1. UNCHANGED <<file, torn>> /\ \E l \in Pc \ {"repair", "saved", "cut"} : pc' = [pc EXCEPT ![p] = l]
      BY <1>3 DEF Request, Derive, VerifyRounds, VerifyCurrent, Kill, WriteError, AppendRefuse, AppendBegin,
         Finish, FinishRepair, Goto, Pc, Idle, Critical
    <2> QED
      BY <1>1, <2>1
  <1>4. ASSUME NEW p \in Process,
               \/ WritePart(p) \/ WriteRound(p) \/ WriteNewline(p) \/ Fsync(p) \/ StageCurrent(p)
               \/ ReplaceCurrent(p) \/ ReplaceRounds(p)
        PROVE EvidenceInv'
    <2>1. pc[p] \in Critical /\ \E l \in Pc \ {"repair", "saved", "cut"} : pc' = [pc EXCEPT ![p] = l]
      BY <1>4 DEF WritePart, WriteRound, WriteNewline, Fsync, StageCurrent, ReplaceCurrent, ReplaceRounds,
         Goto, Pc, Idle, Critical
    <2> QED
      BY <1>2, <2>1
  <1>5. ASSUME NEW p \in Process, RepairBegin(p) PROVE EvidenceInv'
    <2>1. \A q \in Process : pc[q] \notin Critical
      BY <1>5, ProcessAssumption DEF RepairBegin, TypeInv, LockInv
    <2> QED
      BY <1>0, <1>5, <2>1 DEF RepairBegin, Torn, Goto, EvidenceInv, Critical
  <1>6. ASSUME NEW p \in Process, SaveFragment(p) PROVE EvidenceInv'
    <2>1. file' = file /\ file.tail \in torn' /\ file.tail # <<>>
      BY <1>6 DEF SaveFragment, EvidenceInv
    <2> QED
      BY <1>0, <1>6, <2>1 DEF SaveFragment, Goto, EvidenceInv, Critical
  <1>7. ASSUME NEW p \in Process, StageRounds(p) PROVE EvidenceInv'
    BY <1>0, <1>7 DEF StageRounds, Goto, EvidenceInv
  <1>8. ASSUME PowerLoss PROVE EvidenceInv'
    BY <1>8 DEF PowerLoss, EvidenceInv
  <1>9. ASSUME NEW p \in Process, VerifyUnreadable(p) PROVE EvidenceInv'
    BY <1>9 DEF VerifyUnreadable, EvidenceInv
  <1>10. CASE UNCHANGED vars
    BY <1>10 DEF vars, EvidenceInv
  <1> QED
    BY <1>3, <1>4, <1>5, <1>6, <1>7, <1>8, <1>9, <1>10 DEF Next, Step, Verify

\* What the repair cuts from rounds.jsonl is under ledger/torn at that moment.
THEOREM CutCorrect == Spec => CutIsSaved
  <1>1. Init => EvidenceInv
    BY DEF Init, EvidenceInv
  <1>2. TypeInv /\ EvidenceInv /\ [Next]_vars =>
          [\A p \in Process : pc[p] = "cut" /\ pc'[p] = "repaired" =>
             file.tail # <<>> /\ file'.lines = file.lines /\ file.tail \in torn']_vars
    <2> SUFFICES ASSUME TypeInv, EvidenceInv, [Next]_vars,
                        NEW p \in Process, pc[p] = "cut", pc'[p] = "repaired"
                 PROVE file.tail # <<>> /\ file'.lines = file.lines /\ file.tail \in torn'
      OBVIOUS
    <2>1. file.tail # <<>> /\ file.tail \in torn
      BY DEF EvidenceInv
    <2>2. ReplaceRounds(p)
      <3>1. pc \in [Process -> Pc] /\ pc' # pc
        BY DEF TypeInv, TypeOK
      <3>2. \A q \in Process : \A l : pc' = [pc EXCEPT ![q] = l] => q = p /\ l = "repaired"
        BY <3>1
      <3>3. ASSUME NEW q \in Process,
                   \/ Request(q) \/ RepairBegin(q) \/ VerifyRounds(q) \/ VerifyCurrent(q) \/ Kill(q)
                   \/ WriteError(q) \/ AppendRefuse(q) \/ AppendBegin(q) \/ WritePart(q) \/ WriteRound(q)
                   \/ WriteNewline(q) \/ Fsync(q) \/ StageCurrent(q) \/ ReplaceCurrent(q) \/ Finish(q)
                   \/ SaveFragment(q) \/ StageRounds(q) \/ FinishRepair(q)
            PROVE FALSE
        <4>1. \E l \in Pc \ {"repaired"} : pc' = [pc EXCEPT ![q] = l]
          BY <3>3 DEF Request, Derive, RepairBegin, VerifyRounds, VerifyCurrent, Kill, WriteError,
             AppendRefuse, AppendBegin, WritePart, WriteRound, WriteNewline, Fsync, StageCurrent,
             ReplaceCurrent, Finish, SaveFragment, StageRounds, FinishRepair, Goto, Pc, Idle, Critical
        <4> QED
          BY <3>2, <4>1
      <3>4. ~PowerLoss
        BY DEF PowerLoss
      <3>5. pc' = pc => FALSE
        BY <3>1
      <3>6. \A q \in Process : ReplaceRounds(q) => q = p
        BY <3>2 DEF ReplaceRounds, Goto
      <3> QED
        BY <3>3, <3>4, <3>5, <3>6 DEF Next, Step, Verify, VerifyUnreadable, vars
    <2> QED
      BY <2>1, <2>2 DEF ReplaceRounds, TypeInv, TypeOK, File
  <1> QED
    BY TypeInit, TypeStep, EvidenceStep, <1>1, <1>2, PTL DEF Spec, CutIsSaved

-----------------------------------------------------------------------------
(* Ledger implements Log.                                                  *)

Unwritten == {"opened", "part", "whole"}
Written == {"ended", "durable", "staged", "current"}

\* A process that may still write a round, and the digest of that round.
Claims(p) == pc[p] \in Unwritten \cup {"waiting"}
Claimed(p) == IF pc[p] = "waiting" THEN block[p].id ELSE out.hash

\* Every digest is that of one request: no two lines have one digest, and what a
\* process may still write is nobody else's and in no line. A written round stays
\* the newest until its append ends, or is buried.
ClaimInv ==
  /\ \A i, j \in 1..Len(file.lines) : file.lines[i].hash = file.lines[j].hash => i = j
  /\ \A i \in 1..Len(file.lines) : file.lines[i].hash <= started
  /\ \A p \in Process : Claims(p) =>
       Claimed(p) \in 1..started /\ Claimed(p) \notin Hashes(file.lines)
  /\ \A p, q \in Process : p # q /\ Claims(p) /\ Claims(q) => Claimed(p) # Claimed(q)
  /\ \A p \in Process : pc[p] \in Written =>
       /\ out.hash # 0
       /\ file.buried \/ (file.lines # <<>> /\ file.lines[Len(file.lines)].hash = out.hash)
  /\ 0 \notin acked

\* The first lines of s.
Begins(t, s) == Len(t) <= Len(s) /\ \A i \in 1..Len(t) : t[i] = s[i]

-----------------------------------------------------------------------------
(* One round per request.                                                  *)

\* A step that writes no line, makes no request and starts no round.
LEMMA ClaimQuiet ==
  ASSUME TypeInv, ClaimInv, file' \in File, Begins(file'.lines, file.lines), started' = started,
         \A q \in Process : Claims(q)' => Claims(q) /\ Claimed(q)' = Claimed(q),
         \A q \in Process : pc'[q] \in Written =>
           /\ out'.hash # 0
           /\ \/ file'.buried
              \/ file'.lines # <<>> /\ file'.lines[Len(file'.lines)].hash = out'.hash,
         0 \notin acked'
  PROVE ClaimInv'
  <1>1. \A i \in 1..Len(file'.lines) : i \in 1..Len(file.lines) /\ file'.lines[i] = file.lines[i]
    <2>1. Len(file'.lines) \in Nat /\ Len(file.lines) \in Nat
      BY DEF TypeInv, TypeOK, File
    <2> QED
      BY <2>1 DEF Begins
  <1>2. Hashes(file'.lines) \subseteq Hashes(file.lines)
    BY <1>1 DEF Hashes
  <1>3. \A i, j \in 1..Len(file'.lines) : file'.lines[i].hash = file'.lines[j].hash => i = j
    BY <1>1 DEF ClaimInv
  <1>4. \A i \in 1..Len(file'.lines) : file'.lines[i].hash <= started'
    BY <1>1 DEF ClaimInv
  <1>5. ASSUME NEW q \in Process, Claims(q)'
        PROVE Claimed(q)' \in 1..started' /\ Claimed(q)' \notin Hashes(file'.lines)
    BY <1>2, <1>5 DEF ClaimInv
  <1>6. ASSUME NEW p \in Process, NEW q \in Process, p # q, Claims(p)', Claims(q)'
        PROVE Claimed(p)' # Claimed(q)'
    BY <1>6 DEF ClaimInv
  <1> QED
    BY <1>3, <1>4, <1>5, <1>6 DEF ClaimInv

\* At the start nobody has asked for anything.
LEMMA ClaimInit == Init => ClaimInv
  BY DEF Init, ClaimInv, Claims, Unwritten, Written, EmptyFile

\* Requests get a digest of their own, and each is written at most once.
LEMMA ClaimStep == TypeInv /\ ChainInv /\ PubInv /\ ClaimInv /\ [Next]_vars => ClaimInv'
  <1> SUFFICES ASSUME TypeInv, ChainInv, PubInv, ClaimInv, [Next]_vars PROVE ClaimInv'
    OBVIOUS
  <1>0. /\ file \in File /\ out \in Wrapper /\ pc \in [Process -> Pc] /\ started \in Nat
        /\ block \in [Process -> Block]
        /\ file.lines \in Seq(Wrapper) /\ file.tail \in Seq(Piece) /\ file.buried \in BOOLEAN
        /\ \A q \in Process : pc[q] \in Critical <=> lock = q
    BY DEF TypeInv, TypeOK, LockInv, File
  <1>t. file' \in File
    BY TypeStep DEF TypeInv, TypeOK
  <1>c. Unwritten \subseteq Critical /\ Written \subseteq Critical /\ "waiting" \notin Critical
        /\ Unwritten \cap Written = {} /\ "waiting" \notin Unwritten \cup Written
    BY DEF Unwritten, Written, Critical
  \* A step of p that leaves the lines alone and begins no round.
  <1>1. ASSUME NEW p \in Process, NEW l \in Pc, pc' = [pc EXCEPT ![p] = l],
               l \notin Unwritten \cup {"waiting"}, l \in Written => pc[p] \in Written /\ out' = out,
               file'.lines = file.lines, file'.buried = file.buried, started' = started,
               out' = out \/ lock = p \/ lock = NoOne,
               \A q \in Process : q # p => block'[q] = block[q],
               0 \notin acked'
        PROVE ClaimInv'
    <2>1. ASSUME NEW q \in Process, Claims(q)' PROVE Claims(q) /\ Claimed(q)' = Claimed(q)
      <3>1. q # p /\ pc'[q] = pc[q] /\ Claims(q) /\ block'[q] = block[q]
        BY <1>0, <1>1, <2>1 DEF Claims
      <3>2. pc[q] # "waiting" => lock = q
        BY <1>0, <1>c, <3>1 DEF Claims
      <3>3. pc[q] # "waiting" => out' = out
        BY <1>1, <3>1, <3>2, ProcessAssumption
      <3> QED
        BY <3>1, <3>3 DEF Claimed
    <2>2. ASSUME NEW q \in Process, pc'[q] \in Written PROVE pc[q] \in Written /\ out' = out
      <3>1. CASE q = p
        BY <1>0, <1>1, <2>2, <3>1
      <3>2. CASE q # p
        <4>1. pc[q] = pc'[q] /\ lock = q
          BY <1>0, <1>1, <1>c, <2>2, <3>2
        <4> QED
          BY <1>1, <2>2, <3>2, <4>1, ProcessAssumption
      <3> QED
        BY <3>1, <3>2
    <2>3. \A q \in Process : pc'[q] \in Written =>
             /\ out'.hash # 0
             /\ \/ file'.buried
                \/ file'.lines # <<>> /\ file'.lines[Len(file'.lines)].hash = out'.hash
      BY <1>1, <2>2 DEF ClaimInv
    <2>4. Begins(file'.lines, file.lines)
      BY <1>0, <1>1 DEF Begins
    <2> QED
      BY <1>1, <1>t, <2>1, <2>3, <2>4, ClaimQuiet
  <1>2. ASSUME NEW p \in Process, NEW m \in Modes, NEW t \in Task, Derive(p, m, t)
        PROVE ClaimInv'
    <2>1. /\ file' = file /\ out' = out /\ acked' = acked /\ started' = started + 1
          /\ pc' = [pc EXCEPT ![p] = "waiting"]
          /\ \A q \in Process : q # p => block'[q] = block[q]
          /\ block'[p].id = started + 1
      BY <1>0, <1>2 DEF Derive, Goto
    <2>2. Claims(p)' /\ Claimed(p)' = started + 1
      BY <1>0, <2>1 DEF Claims, Claimed
    <2>3. \A q \in Process : q # p /\ Claims(q)' => Claims(q) /\ Claimed(q)' = Claimed(q)
      BY <1>0, <2>1 DEF Claims, Claimed
    <2>4. started + 1 \notin Hashes(file.lines)
      BY <1>0 DEF Hashes, ClaimInv
    <2>5. \A q \in Process : Claims(q)' =>
             Claimed(q)' \in 1..started' /\ Claimed(q)' \notin Hashes(file'.lines)
      BY <1>0, <2>1, <2>2, <2>3, <2>4 DEF ClaimInv
    <2>6. ASSUME NEW q \in Process, NEW r \in Process, q # r, Claims(q)', Claims(r)'
          PROVE Claimed(q)' # Claimed(r)'
      BY <1>0, <2>1, <2>2, <2>3, <2>6 DEF ClaimInv
    <2>7. \A q \in Process : pc'[q] \in Written => pc[q] \in Written
      BY <1>0, <1>c, <2>1
    <2>8. \A i \in 1..Len(file.lines) : file.lines[i].hash <= started + 1
      <3> SUFFICES ASSUME NEW i \in 1..Len(file.lines) PROVE file.lines[i].hash <= started + 1
        OBVIOUS
      <3>1. file.lines[i] \in Wrapper
        BY <1>0
      <3>2. file.lines[i].hash \in Nat
        BY <3>1 DEF Wrapper, Digest
      <3>3. file.lines[i].hash <= started
        BY DEF ClaimInv
      <3> QED
        BY <1>0, <3>2, <3>3
    <2> QED
      BY <2>1, <2>5, <2>6, <2>7, <2>8 DEF ClaimInv
  <1>3. ASSUME NEW p \in Process, AppendBegin(p) PROVE ClaimInv'
    <2>1. /\ pc[p] = "waiting" /\ lock = NoOne /\ pc' = [pc EXCEPT ![p] = "opened"]
          /\ file' = file /\ acked' = acked /\ started' = started
          /\ out'.hash = block[p].id
          /\ \A q \in Process : q # p => block'[q] = block[q]
      BY <1>0, <1>3 DEF AppendBegin, Goto, WrapperFor
    <2>2. \A q \in Process : pc[q] \notin Critical
      BY <1>0, <2>1, ProcessAssumption
    <2>3. ASSUME NEW q \in Process, Claims(q)' PROVE Claims(q) /\ Claimed(q)' = Claimed(q)
      <3>1. CASE q = p
        BY <1>0, <2>1, <3>1 DEF Claims, Claimed
      <3>2. CASE q # p
        BY <1>0, <1>c, <2>1, <2>2, <2>3, <3>2 DEF Claims, Claimed
      <3> QED
        BY <3>1, <3>2
    <2>4. \A q \in Process : pc'[q] \notin Written
      BY <1>0, <1>c, <2>1, <2>2 DEF Unwritten
    <2>5. Begins(file'.lines, file.lines)
      BY <1>0, <2>1 DEF Begins
    <2> QED
      BY <1>t, <2>1, <2>3, <2>4, <2>5, ClaimQuiet DEF ClaimInv
  <1>4. ASSUME NEW p \in Process, NEW l \in Unwritten, pc[p] \in Unwritten, pc' = [pc EXCEPT ![p] = l],
               UNCHANGED <<out, block, started, acked>>, file'.lines = file.lines
        PROVE ClaimInv'
    <2>1. \A q \in Process : q # p => pc[q] \notin Critical /\ pc'[q] = pc[q]
      BY <1>0, <1>4, <1>c
    <2>2. pc'[p] = l
      BY <1>0, <1>4
    <2>3. \A q \in Process : Claims(q)' => Claims(q) /\ Claimed(q)' = Claimed(q)
      BY <1>4, <1>c, <2>1, <2>2 DEF Claims, Claimed
    <2>4. \A q \in Process : pc'[q] \notin Written
      BY <1>4, <1>c, <2>1, <2>2
    <2>5. Begins(file'.lines, file.lines)
      BY <1>0, <1>4 DEF Begins
    <2> QED
      BY <1>4, <1>t, <2>3, <2>4, <2>5, ClaimQuiet DEF ClaimInv
  <1>5. ASSUME NEW p \in Process, WritePart(p) PROVE ClaimInv'
    <2>1. file'.lines = file.lines
      BY <1>0, <1>5 DEF WritePart, File
    <2> QED
      BY <1>4, <1>5, <2>1 DEF WritePart, Goto, Unwritten
  <1>6. ASSUME NEW p \in Process, WriteRound(p) PROVE ClaimInv'
    <2>1. file'.lines = file.lines
      BY <1>0, <1>6 DEF WriteRound, File
    <2> QED
      BY <1>4, <1>6, <2>1 DEF WriteRound, Goto, Unwritten
  <1>7. ASSUME NEW p \in Process, WriteNewline(p) PROVE ClaimInv'
    <2>1. /\ pc[p] = "whole" /\ pc' = [pc EXCEPT ![p] = "ended"]
          /\ UNCHANGED <<out, block, started, acked>>
      BY <1>7 DEF WriteNewline, Goto
    <2>2. Claims(p) /\ Claimed(p) = out.hash
      BY <2>1 DEF Claims, Claimed, Unwritten
    <2>3. out.hash \in 1..started /\ out.hash \notin Hashes(file.lines)
      BY <2>2 DEF ClaimInv
    <2>4. \A q \in Process : q # p => pc[q] \notin Critical /\ pc'[q] = pc[q]
      BY <1>0, <1>c, <2>1 DEF Unwritten
    <2>5. pc'[p] = "ended"
      BY <1>0, <2>1
    <2>6. ASSUME NEW q \in Process, Claims(q)'
          PROVE q # p /\ Claims(q) /\ Claimed(q)' = Claimed(q)
      BY <2>1, <2>4, <2>5, <2>6 DEF Claims, Claimed, Unwritten
    <2>7. CASE Bare(file)
      <3>1. file'.lines = Append(file.lines, out)
        BY <1>7, <2>7 DEF WriteNewline
      <3>2. /\ Len(file'.lines) = Len(file.lines) + 1 /\ file'.lines[Len(file.lines) + 1] = out
            /\ \A i \in 1..Len(file.lines) : file'.lines[i] = file.lines[i]
        BY <1>0, <3>1
      <3>3. Len(file.lines) \in Nat
        BY <1>0
      <3>4. Hashes(file'.lines) = Hashes(file.lines) \cup {out.hash}
        BY <3>2, <3>3, SMTT(30) DEF Hashes
      <3>5. \A i \in 1..Len(file.lines) : file.lines[i].hash # out.hash
        BY <2>3 DEF Hashes
      <3>6. ASSUME NEW i \in 1..Len(file'.lines), NEW j \in 1..Len(file'.lines),
                   file'.lines[i].hash = file'.lines[j].hash
            PROVE i = j
        <4>1. i \in 1..Len(file.lines) \/ i = Len(file.lines) + 1
          BY <3>2, <3>3
        <4>2. j \in 1..Len(file.lines) \/ j = Len(file.lines) + 1
          BY <3>2, <3>3
        <4> QED
          BY <3>2, <3>5, <3>6, <4>1, <4>2 DEF ClaimInv
      <3>7. \A i \in 1..Len(file'.lines) : file'.lines[i].hash <= started'
        <4>1. \A i \in 1..Len(file'.lines) : i \in 1..Len(file.lines) \/ i = Len(file.lines) + 1
          BY <3>2, <3>3
        <4> QED
          BY <2>1, <2>3, <3>2, <4>1 DEF ClaimInv
      <3>8. \A q \in Process : Claims(q)' =>
               Claimed(q)' \in 1..started' /\ Claimed(q)' \notin Hashes(file'.lines)
        BY <2>1, <2>2, <2>6, <3>4 DEF ClaimInv
      <3>9. \A q, r \in Process : q # r /\ Claims(q)' /\ Claims(r)' => Claimed(q)' # Claimed(r)'
        BY <2>6 DEF ClaimInv
      <3>10. \A q \in Process : pc'[q] \in Written =>
               out'.hash # 0 /\ file'.lines # <<>> /\ file'.lines[Len(file'.lines)].hash = out'.hash
        <4>1. out'.hash # 0
          BY <1>0, <2>1, <2>3
        <4>2. file'.lines # <<>>
          BY <1>0, <3>1, SMTT(30)
        <4> QED
          BY <2>1, <3>2, <4>1, <4>2
      <3> QED
        BY <2>1, <3>6, <3>7, <3>8, <3>9, <3>10 DEF ClaimInv
    <2>8. CASE ~Bare(file)
      <3>1. file'.lines = file.lines /\ file'.buried
        BY <1>0, <1>7, <2>8 DEF WriteNewline, File
      <3>2. out'.hash # 0
        BY <1>0, <2>1, <2>3
      <3>3. Begins(file'.lines, file.lines)
        BY <1>0, <3>1 DEF Begins
      <3> QED
        BY <1>t, <2>1, <2>6, <3>1, <3>2, <3>3, ClaimQuiet DEF ClaimInv
    <2> QED
      BY <2>7, <2>8
  <1>8. ASSUME NEW p \in Process, Finish(p) PROVE ClaimInv'
    <2>1. pc[p] = "current" /\ lock = p /\ acked' = acked \cup {out.hash}
      BY <1>0, <1>8 DEF Finish, Critical
    <2>2. 0 \notin acked'
      BY <2>1 DEF ClaimInv, Written
    <2>3. file' = file /\ started' = started /\ block' = block /\ pc' = [pc EXCEPT ![p] = "idle"]
      BY <1>8 DEF Finish, Goto
    <2> QED
      BY <1>1, <2>1, <2>2, <2>3 DEF Pc, Idle, Unwritten, Written
  <1>9. ASSUME NEW p \in Process, ReplaceRounds(p) PROVE ClaimInv'
    <2>1. file'.lines = file.lines /\ file'.buried = file.buried
      BY <1>0, <1>9 DEF ReplaceRounds, File
    <2> QED
      BY <1>1, <1>9, <2>1 DEF ReplaceRounds, Goto, Pc, Critical, Unwritten, Written, ClaimInv
  <1>10. ASSUME PowerLoss PROVE ClaimInv'
    <2>1. \A q \in Process : ~Claims(q)' /\ pc'[q] \notin Written
      BY <1>10 DEF PowerLoss, Claims, Unwritten, Written
    <2>2. Begins(file'.lines, file.lines)
      <3>1. ASSUME NEW k \in 1..Len(file.lines), file'.lines = SubSeq(file.lines, 1, k - 1)
            PROVE Begins(file'.lines, file.lines)
        BY <1>0, <3>1 DEF Begins
      <3>2. file'.lines = file.lines => Begins(file'.lines, file.lines)
        BY <1>0 DEF Begins
      <3>3. \A t : [file EXCEPT !.tail = t, !.buried = FALSE].lines = file.lines
        BY <1>0 DEF File
      <3>4. \/ file'.lines = file.lines
            \/ \E k \in 1..Len(file.lines) : file'.lines = SubSeq(file.lines, 1, k - 1)
        <4>1. CutFile
          BY <1>10 DEF PowerLoss
        <4>2. ASSUME NEW k \in 1..Len(file.lines),
                     NEW t \in PieceCuts(<<[of |-> file.lines[k], whole |-> TRUE]>>),
                     file' = [lines |-> SubSeq(file.lines, 1, k - 1), tail |-> t, buried |-> FALSE]
              PROVE file'.lines = SubSeq(file.lines, 1, k - 1)
          BY <4>2
        <4> QED
          BY <3>3, <4>1, <4>2 DEF CutFile
      <3> QED
        BY <3>1, <3>2, <3>4
    <2> QED
      BY <1>10, <1>t, <2>1, <2>2, ClaimQuiet DEF PowerLoss, ClaimInv
  \* The rest leaves the file as it is.
  <1>11. ASSUME NEW p \in Process,
                \/ AppendRefuse(p) \/ Fsync(p) \/ StageCurrent(p) \/ ReplaceCurrent(p)
                \/ RepairBegin(p) \/ SaveFragment(p) \/ StageRounds(p) \/ FinishRepair(p)
                \/ VerifyRounds(p) \/ VerifyCurrent(p) \/ Kill(p) \/ WriteError(p)
         PROVE ClaimInv'
    <2>1. file' = file /\ started' = started /\ acked' = acked
      BY <1>11 DEF AppendRefuse, Fsync, StageCurrent, ReplaceCurrent, RepairBegin, SaveFragment,
         StageRounds, FinishRepair, VerifyRounds, VerifyCurrent, Kill, WriteError
    <2>2. \A q \in Process : q # p => block'[q] = block[q]
      BY <1>0, <1>11 DEF AppendRefuse, Fsync, StageCurrent, ReplaceCurrent, RepairBegin, SaveFragment,
         StageRounds, FinishRepair, VerifyRounds, VerifyCurrent, Kill, WriteError
    <2>3. out' = out \/ lock = p
      BY <1>0, <1>11 DEF AppendRefuse, Fsync, StageCurrent, ReplaceCurrent, RepairBegin, SaveFragment,
         StageRounds, FinishRepair, VerifyRounds, VerifyCurrent, Kill, WriteError, Critical
    <2>4. \E l \in Pc : /\ pc' = [pc EXCEPT ![p] = l] /\ l \notin Unwritten \cup {"waiting"}
                        /\ l \in Written => pc[p] \in Written /\ out' = out
      BY <1>11 DEF AppendRefuse, Fsync, StageCurrent, ReplaceCurrent, RepairBegin, SaveFragment,
         StageRounds, FinishRepair, VerifyRounds, VerifyCurrent, Kill, WriteError, Goto,
         Pc, Idle, Critical, Unwritten, Written
    <2> QED
      BY <1>1, <2>1, <2>2, <2>3, <2>4 DEF ClaimInv
  <1>12. ASSUME \/ UNCHANGED vars
                \/ \E p \in Process : VerifyUnreadable(p)
         PROVE ClaimInv'
    BY <1>12 DEF vars, VerifyUnreadable, ClaimInv, Claims, Claimed
  <1> QED
    BY <1>2, <1>3, <1>5, <1>6, <1>7, <1>8, <1>9, <1>10, <1>11, <1>12
       DEF Next, Step, Verify, Request

-----------------------------------------------------------------------------
(* The refinement.                                                         *)

HashSeq(s) == [i \in 1..Len(s) |-> s[i].hash]

\* The digests of rounds are a sequence of the same length.
LEMMA HashSeqFacts ==
  ASSUME NEW s \in Seq(Wrapper)
  PROVE /\ HashSeq(s) \in Seq(Nat) /\ Len(HashSeq(s)) = Len(s)
        /\ \A i \in 1..Len(s) : HashSeq(s)[i] = s[i].hash
        /\ L!In(HashSeq(s)) = Hashes(s)
  <1>1. \A i \in 1..Len(s) : s[i].hash \in Nat
    <2>1. \A i \in 1..Len(s) : s[i] \in Wrapper
      OBVIOUS
    <2> QED
      BY <2>1 DEF Wrapper, Digest
  <1>2. HashSeq(s) \in Seq(Nat) /\ Len(HashSeq(s)) = Len(s)
    <2>1. Len(s) \in Nat
      OBVIOUS
    <2>2. HashSeq(s) \in [1..Len(s) -> Nat]
      BY <1>1 DEF HashSeq
    <2> QED
      BY <2>1, <2>2 DEF HashSeq
  <1>3. \A i \in 1..Len(s) : HashSeq(s)[i] = s[i].hash
    BY DEF HashSeq
  <1> QED
    BY <1>2, <1>3 DEF L!In, Hashes

\* One round more is one digest more.
LEMMA HashSeqAppend ==
  ASSUME NEW s \in Seq(Wrapper), NEW w \in Wrapper
  PROVE HashSeq(Append(s, w)) = Append(HashSeq(s), w.hash)
  <1>1. Append(s, w) \in Seq(Wrapper) /\ Len(Append(s, w)) = Len(s) + 1
    OBVIOUS
  <1>2. w.hash \in Nat
    BY DEF Wrapper, Digest
  <1>3. Append(HashSeq(s), w.hash) \in Seq(Nat)
        /\ Len(Append(HashSeq(s), w.hash)) = Len(s) + 1
    BY <1>2, HashSeqFacts
  <1>4. HashSeq(Append(s, w)) \in Seq(Nat) /\ Len(HashSeq(Append(s, w))) = Len(s) + 1
    BY <1>1, HashSeqFacts
  <1>5. ASSUME NEW i \in 1..Len(s) + 1
        PROVE HashSeq(Append(s, w))[i] = Append(HashSeq(s), w.hash)[i]
    <2>1. HashSeq(Append(s, w))[i] = Append(s, w)[i].hash
      BY <1>1, HashSeqFacts
    <2>2. CASE i = Len(s) + 1
      <3>1. Append(s, w)[i] = w
        BY <2>2
      <3>2. Append(HashSeq(s), w.hash)[i] = w.hash
        BY <1>2, <2>2, HashSeqFacts
      <3> QED
        BY <2>1, <3>1, <3>2
    <2>3. CASE i \in 1..Len(s)
      <3>1. Append(s, w)[i] = s[i]
        BY <2>3
      <3>2. Append(HashSeq(s), w.hash)[i] = HashSeq(s)[i]
        BY <1>2, <2>3, HashSeqFacts
      <3>3. HashSeq(s)[i] = s[i].hash
        BY <2>3, HashSeqFacts
      <3> QED
        BY <2>1, <3>1, <3>2, <3>3
    <2>4. i = Len(s) + 1 \/ i \in 1..Len(s)
      <3>1. Len(s) \in Nat
        OBVIOUS
      <3> QED
        BY <3>1
    <2> QED
      BY <2>2, <2>3, <2>4
  <1> QED
    BY <1>3, <1>4, <1>5, SeqEqual

\* The first rounds have the first digests.
LEMMA HashSeqBegins ==
  ASSUME NEW s \in Seq(Wrapper), NEW t \in Seq(Wrapper), Begins(t, s)
  PROVE Len(t) \in 0..Len(s) /\ HashSeq(t) = SubSeq(HashSeq(s), 1, Len(t))
  <1>1. Len(t) \in 0..Len(s)
    BY DEF Begins
  <1>2. /\ SubSeq(HashSeq(s), 1, Len(t)) \in Seq(Nat)
        /\ Len(SubSeq(HashSeq(s), 1, Len(t))) = Len(t)
        /\ \A i \in 1..Len(t) : SubSeq(HashSeq(s), 1, Len(t))[i] = HashSeq(s)[i]
    BY <1>1, HashSeqFacts
  <1>3. ASSUME NEW i \in 1..Len(t)
        PROVE HashSeq(t)[i] = SubSeq(HashSeq(s), 1, Len(t))[i]
    <2>1. i \in 1..Len(s) /\ t[i] = s[i]
      BY <1>1 DEF Begins
    <2>2. HashSeq(t)[i] = t[i].hash /\ HashSeq(s)[i] = s[i].hash
      BY <2>1, HashSeqFacts
    <2> QED
      BY <1>2, <2>1, <2>2
  <1>4. HashSeq(t) \in Seq(Nat) /\ Len(HashSeq(t)) = Len(t)
    BY HashSeqFacts
  <1> QED
    BY <1>1, <1>2, <1>3, <1>4, SeqEqual

\* A power loss keeps the first lines, all of them where it keeps the file.
LEMMA CutBegins ==
  ASSUME file \in File, CutFile
  PROVE file' = file \/ (Begins(file'.lines, file.lines) /\ ~file'.buried)
  <1>0. file.lines \in Seq(Wrapper)
    BY DEF File
  <1>1. ASSUME NEW k \in 1..Len(file.lines),
               NEW t \in PieceCuts(<<[of |-> file.lines[k], whole |-> TRUE]>>),
               file' = [lines |-> SubSeq(file.lines, 1, k - 1), tail |-> t, buried |-> FALSE]
        PROVE Begins(file'.lines, file.lines) /\ ~file'.buried
    <2>1. file'.lines = SubSeq(file.lines, 1, k - 1) /\ ~file'.buried
      BY <1>1
    <2> QED
      BY <1>0, <2>1 DEF Begins
  <1>2. ASSUME NEW t \in PieceCuts(file.tail), file' = [file EXCEPT !.tail = t, !.buried = FALSE]
        PROVE Begins(file'.lines, file.lines) /\ ~file'.buried
    <2>1. file'.lines = file.lines /\ ~file'.buried
      BY <1>2 DEF File
    <2> QED
      BY <1>0, <2>1 DEF Begins
  <1> QED
    BY <1>1, <1>2 DEF CutFile

\* The empty ledger is the empty log.
LEMMA LogInit == Init => L!Init
  BY DEF Init, EmptyFile, L!Init

\* Every step of the ledger is a step of the log, or none.
LEMMA LogStep ==
  TypeInv /\ ChainInv /\ PubInv /\ ClaimInv /\ PubInv' /\ ClaimInv' /\ [Next]_vars
    => [L!Next]_(L!vars)
  <1> SUFFICES ASSUME TypeInv, ChainInv, PubInv, ClaimInv, PubInv', ClaimInv', [Next]_vars
               PROVE [L!Next]_(L!vars)
    OBVIOUS
  <1> DEFINE log == HashSeq(file.lines)
  <1>0. /\ file \in File /\ out \in Wrapper
        /\ file.lines \in Seq(Wrapper) /\ file.tail \in Seq(Piece) /\ file.buried \in BOOLEAN
    BY DEF TypeInv, TypeOK, File
  <1>t. file' \in File /\ file'.lines \in Seq(Wrapper)
    BY TypeStep DEF TypeInv, TypeOK, File
  <1>1. file'.lines = file.lines /\ file'.buried = file.buried /\ acked' = acked
        => UNCHANGED L!vars
    BY DEF L!vars
  <1>2. ASSUME NEW p \in Process, WriteNewline(p) PROVE L!Next
    <2>1. pc[p] = "whole" /\ acked' = acked
      BY <1>2 DEF WriteNewline
    <2>2. ~file.buried
      BY <2>1 DEF PubInv, HolderInv
    <2>3. CASE Bare(file)
      <3>1. file'.lines = Append(file.lines, out) /\ file'.buried = FALSE
        BY <1>2, <2>3 DEF WriteNewline
      <3>2. log' = Append(log, out.hash)
        BY <1>0, <3>1, HashSeqAppend
      <3>3. Claims(p) /\ Claimed(p) = out.hash
        BY <2>1 DEF Claims, Claimed, Unwritten
      <3>4. out.hash \notin L!In(log)
        BY <1>0, <3>3, HashSeqFacts DEF ClaimInv
      <3>5. out.hash \in L!In(log')
        <4>1. file'.lines[Len(file'.lines)] = out /\ Len(file'.lines) \in 1..Len(file'.lines)
          BY <1>0, <3>1
        <4>2. out.hash \in Hashes(file'.lines)
          BY <4>1 DEF Hashes
        <4> QED
          BY <1>t, <4>2, HashSeqFacts
      <3>6. out.hash \in L!In(log') \ L!In(log)
        BY <3>4, <3>5
      <3>7. \E r \in L!In(log') \ L!In(log) : log' = Append(log, r)
        BY <3>2, <3>6
      <3>8. UNCHANGED <<acked, file.buried>>
        <4>1. file.buried = FALSE
          BY <1>0, <2>2
        <4> QED
          BY <2>1, <3>1, <4>1
      <3>9. L!Add
        BY ONLY <2>2, <3>7, <3>8 DEF L!Add, HashSeq
      <3> QED
        BY <3>9 DEF L!Next
    <2>4. CASE ~Bare(file)
      <3>1. file'.lines = file.lines /\ file'.buried = TRUE
        BY <1>0, <1>2, <2>4 DEF WriteNewline, File
      <3> QED
        BY <2>1, <3>1 DEF L!Next, L!Spoil
    <2> QED
      BY <2>3, <2>4
  <1>3. ASSUME NEW p \in Process, Finish(p) PROVE L!Next
    <2>1. pc[p] = "current" /\ acked' = acked \cup {out.hash} /\ file' = file
      BY <1>3 DEF Finish
    <2>2. \/ file.buried
          \/ file.lines # <<>> /\ file.lines[Len(file.lines)].hash = out.hash
      BY <2>1 DEF ClaimInv, Written
    <2>3. CASE file.buried
      BY <2>1, <2>3 DEF L!Next, L!Ack
    <2>4. CASE file.lines # <<>> /\ file.lines[Len(file.lines)].hash = out.hash
      <3>1. Len(log) = Len(file.lines) /\ Len(file.lines) \in 1..Len(file.lines)
        BY <1>0, <2>4, HashSeqFacts
      <3>2. log # <<>> /\ log[Len(log)] = out.hash
        <4>1. log[Len(file.lines)] = out.hash
          BY <1>0, <2>4, <3>1, HashSeqFacts
        <4>2. log # <<>>
          BY <3>1
        <4> QED
          BY <3>1, <4>1, <4>2
      <3> QED
        BY <2>1, <3>2 DEF L!Next, L!Ack, HashSeq
    <2> QED
      BY <2>2, <2>3, <2>4
  <1>4. ASSUME PowerLoss PROVE [L!Next]_(L!vars)
    <2>1. CutFile /\ acked' = acked
      BY <1>4 DEF PowerLoss
    <2>2. CASE file' = file
      BY <1>1, <2>1, <2>2
    <2>3. CASE Begins(file'.lines, file.lines) /\ ~file'.buried
      <3>1. Len(file'.lines) \in 0..Len(file.lines)
            /\ log' = SubSeq(log, 1, Len(file'.lines))
        BY <1>0, <1>t, <2>3, HashSeqBegins
      <3>2. \E k \in 0..Len(log) : log' = SubSeq(log, 1, k)
        BY <1>0, <3>1, HashSeqFacts
      <3>3. acked' \subseteq L!In(log')
        <4>1. ASSUME NEW d \in acked' PROVE d \in Hashes(file'.lines)
          <5>1. d \in Published'
            BY <4>1 DEF ClaimInv, Published
          <5>2. Durable(d)'
            BY <5>1 DEF PubInv
          <5> QED
            BY <2>3, <5>2 DEF Durable, Hashes
        <4> QED
          BY <1>t, <4>1, HashSeqFacts
      <3>4. file'.buried = FALSE
        BY <1>t, <2>3 DEF File
      <3> QED
        BY <2>1, <3>2, <3>3, <3>4 DEF L!Next, L!Lose, HashSeq
    <2> QED
      BY <1>0, <2>1, <2>2, <2>3, CutBegins
  <1>5. ASSUME NEW p \in Process,
               \/ WritePart(p) \/ WriteRound(p) \/ ReplaceRounds(p)
        PROVE UNCHANGED L!vars
    <2>1. file'.lines = file.lines /\ file'.buried = file.buried /\ acked' = acked
      BY <1>0, <1>5 DEF WritePart, WriteRound, ReplaceRounds, File
    <2> QED
      BY <1>1, <2>1
  <1>6. ASSUME NEW p \in Process,
               \/ Request(p) \/ AppendRefuse(p) \/ AppendBegin(p) \/ Fsync(p)
               \/ StageCurrent(p) \/ ReplaceCurrent(p)
               \/ RepairBegin(p) \/ SaveFragment(p) \/ StageRounds(p) \/ FinishRepair(p)
               \/ Verify(p) \/ VerifyCurrent(p) \/ Kill(p) \/ WriteError(p)
        PROVE UNCHANGED L!vars
    <2>1. file' = file /\ acked' = acked
      BY <1>6 DEF Request, Derive, AppendRefuse, AppendBegin, Fsync, StageCurrent, ReplaceCurrent,
         RepairBegin, SaveFragment, StageRounds, FinishRepair, Verify, VerifyUnreadable,
         VerifyRounds, VerifyCurrent, Kill, WriteError
    <2> QED
      BY <1>1, <2>1
  <1>7. CASE UNCHANGED vars
    BY <1>1, <1>7 DEF vars
  <1> QED
    BY <1>2, <1>3, <1>4, <1>5, <1>6, <1>7 DEF Next, Step

\* The ledger, with all its steps, files and crashes, is a log: rounds come in
\* once, at the end, and what an append reported success of is never taken back
\* unless the log is spoilt.
THEOREM LogCorrect == Spec => Logged
  BY TypeInit, ChainInit, PubInit, ClaimInit, LogInit, TypeStep, ChainStep, PubStep, ClaimStep,
     LogStep, PTL DEF Spec, Logged, L!Spec

-----------------------------------------------------------------------------
(* What a step may do.                                                     *)

\* Who writes rounds.jsonl.
LEMMA FileMoves ==
  ASSUME [Next]_vars
  PROVE \/ UNCHANGED <<file, synced>>
        \/ \E p \in Process :
             WritePart(p) \/ WriteRound(p) \/ WriteNewline(p) \/ Fsync(p) \/ ReplaceRounds(p)
        \/ PowerLoss
  <1>1. ASSUME NEW p \in Process,
               \/ Request(p) \/ AppendRefuse(p) \/ AppendBegin(p) \/ StageCurrent(p)
               \/ ReplaceCurrent(p) \/ Finish(p) \/ RepairBegin(p) \/ SaveFragment(p)
               \/ StageRounds(p) \/ FinishRepair(p)
               \/ Verify(p) \/ VerifyCurrent(p) \/ Kill(p) \/ WriteError(p)
        PROVE UNCHANGED <<file, synced>>
    BY <1>1 DEF Request, Derive, AppendRefuse, AppendBegin, StageCurrent, ReplaceCurrent, Finish,
       RepairBegin, SaveFragment, StageRounds, FinishRepair, Verify, VerifyUnreadable,
       VerifyRounds, VerifyCurrent, Kill, WriteError
  <1> QED
    BY <1>1 DEF Next, Step, vars

\* Who tells of a round.
LEMMA TellMoves ==
  ASSUME [Next]_vars
  PROVE \/ UNCHANGED <<cur, acked, events>>
        \/ \E p \in Process : ReplaceCurrent(p) \/ Finish(p) \/ FinishRepair(p)
        \/ PowerLoss
  <1>1. ASSUME NEW p \in Process,
               \/ Request(p) \/ AppendRefuse(p) \/ AppendBegin(p) \/ WritePart(p) \/ WriteRound(p)
               \/ WriteNewline(p) \/ Fsync(p) \/ StageCurrent(p) \/ RepairBegin(p)
               \/ SaveFragment(p) \/ StageRounds(p) \/ ReplaceRounds(p)
               \/ Verify(p) \/ VerifyCurrent(p) \/ Kill(p) \/ WriteError(p)
        PROVE UNCHANGED <<cur, acked, events>>
    BY <1>1 DEF Request, Derive, AppendRefuse, AppendBegin, WritePart, WriteRound, WriteNewline,
       Fsync, StageCurrent, RepairBegin, SaveFragment, StageRounds, ReplaceRounds, Verify,
       VerifyUnreadable, VerifyRounds, VerifyCurrent, Kill, WriteError
  <1> QED
    BY <1>1 DEF Next, Step, vars

\* Nothing the lock protects changes while its holder stands still, ...
LEMMA HeldStill ==
  ASSUME TypeInv, [Next]_vars, NEW q \in Process, pc[q] \in Critical, pc'[q] = pc[q]
  PROVE UNCHANGED <<file, synced, cur, events, out, acked>>
  <1>0. /\ pc \in [Process -> Pc] /\ lock = q /\ lock # NoOne
        /\ \A p \in Process : p # q => pc[p] \notin Critical
        /\ pc[q] \notin {"idle", "waiting", "verify"}
    BY ProcessAssumption DEF TypeInv, TypeOK, LockInv, Critical
  <1>1. ASSUME NEW p \in Process, Step(p) \/ RepairBegin(p) \/ WriteError(p)
        PROVE UNCHANGED <<file, synced, cur, events, out, acked>>
    <2>1. CASE VerifyCurrent(p) \/ AppendRefuse(p)
      BY <1>0, <2>1 DEF VerifyCurrent, AppendRefuse
    <2>2. CASE AppendBegin(p) \/ RepairBegin(p)
      BY <1>0, <2>2 DEF AppendBegin, RepairBegin
    <2>3. CASE WritePart(p) \/ WriteRound(p) \/ WriteNewline(p) \/ Fsync(p) \/ StageCurrent(p)
                 \/ ReplaceCurrent(p) \/ Finish(p)
      <3>1. pc[p] \in Critical
        BY <2>3 DEF WritePart, WriteRound, WriteNewline, Fsync, StageCurrent, ReplaceCurrent,
           Finish, Critical
      <3>2. p = q
        BY <1>0, <3>1
      <3>3. pc'[q] # pc[q]
        BY <1>0, <2>3, <3>2 DEF WritePart, WriteRound, WriteNewline, Fsync, StageCurrent,
           ReplaceCurrent, Finish, Goto
      <3> QED
        BY <3>3
    <2>4. CASE SaveFragment(p) \/ StageRounds(p) \/ ReplaceRounds(p) \/ FinishRepair(p) \/ WriteError(p)
      <3>1. pc[p] \in Critical
        BY <2>4 DEF SaveFragment, StageRounds, ReplaceRounds, FinishRepair, WriteError, Critical
      <3>2. p = q
        BY <1>0, <3>1
      <3>3. pc'[q] # pc[q]
        BY <1>0, <2>4, <3>2 DEF SaveFragment, StageRounds, ReplaceRounds, FinishRepair, WriteError, Goto
      <3> QED
        BY <3>3
    <2> QED
      BY <1>1, <2>1, <2>2, <2>3, <2>4 DEF Step
  <1>2. ASSUME NEW p \in Process, Request(p) \/ Verify(p)
        PROVE UNCHANGED <<file, synced, cur, events, out, acked>>
    BY <1>2 DEF Request, Derive, Verify, VerifyUnreadable, VerifyRounds
  <1>3. ASSUME NEW p \in Process, Kill(p)
        PROVE UNCHANGED <<file, synced, cur, events, out, acked>>
    <2>1. p # q
      BY <1>0, <1>3 DEF Kill, Goto
    <2> QED
      BY <1>0, <1>3, <2>1 DEF Kill
  <1>4. ~PowerLoss
    BY <1>0 DEF PowerLoss
  <1> QED
    BY <1>1, <1>2, <1>3, <1>4 DEF Next, vars

\* ... and it gets to a step only by the step before.
LEMMA Arrives ==
  ASSUME TypeInv, [Next]_vars, NEW q \in Process, pc'[q] # pc[q]
  PROVE /\ pc'[q] = "waiting" => \E m \in Modes, t \in Task : Derive(q, m, t)
        /\ pc'[q] = "opened" => AppendBegin(q)
        /\ pc'[q] = "part" => WritePart(q)
        /\ pc'[q] = "whole" => WriteRound(q)
        /\ pc'[q] = "ended" => WriteNewline(q)
        /\ pc'[q] = "durable" => Fsync(q)
        /\ pc'[q] = "staged" => StageCurrent(q)
        /\ pc'[q] = "current" => ReplaceCurrent(q)
        /\ pc'[q] = "repair" => RepairBegin(q)
        /\ pc'[q] = "verify" => VerifyRounds(q)
  <1>0. pc \in [Process -> Pc]
    BY DEF TypeInv, TypeOK
  <1>a. ASSUME NEW p \in Process, NEW l, Goto(p, l) PROVE q = p /\ pc'[q] = l
    BY <1>0, <1>a DEF Goto
  <1>1. CASE \E p \in Process : Step(p)
    <2>1. PICK p \in Process : Step(p)
      BY <1>1
    <2>2. q = p
      BY <1>a, <2>1 DEF Step, AppendRefuse, AppendBegin, WritePart, WriteRound, WriteNewline, Fsync,
         StageCurrent, ReplaceCurrent, Finish, SaveFragment, StageRounds, ReplaceRounds,
         FinishRepair, VerifyCurrent
    <2>3. CASE AppendRefuse(p) \/ AppendBegin(p) \/ WritePart(p) \/ WriteRound(p) \/ WriteNewline(p)
      BY <1>a, <2>2, <2>3 DEF AppendRefuse, AppendBegin, WritePart, WriteRound, WriteNewline
    <2>4. CASE Fsync(p) \/ StageCurrent(p) \/ ReplaceCurrent(p) \/ Finish(p) \/ VerifyCurrent(p)
      BY <1>a, <2>2, <2>4 DEF Fsync, StageCurrent, ReplaceCurrent, Finish, VerifyCurrent
    <2>5. CASE SaveFragment(p) \/ StageRounds(p) \/ ReplaceRounds(p) \/ FinishRepair(p)
      BY <1>a, <2>2, <2>5 DEF SaveFragment, StageRounds, ReplaceRounds, FinishRepair
    <2> QED
      BY <2>1, <2>3, <2>4, <2>5 DEF Step
  <1>2. CASE \E p \in Process : Request(p)
    <2>1. PICK p \in Process, m \in Modes, t \in Task : Derive(p, m, t)
      BY <1>2 DEF Request
    <2>2. Goto(p, "waiting")
      BY <2>1 DEF Derive
    <2>3. q = p /\ pc'[q] = "waiting"
      BY <1>a, <2>2
    <2> QED
      BY <2>1, <2>3
  <1>3. CASE \E p \in Process : RepairBegin(p) \/ Kill(p) \/ WriteError(p)
    BY <1>a, <1>3 DEF RepairBegin, Kill, WriteError
  <1>4. CASE \E p \in Process : Verify(p)
    BY <1>a, <1>4 DEF Verify, VerifyUnreadable, VerifyRounds
  <1>5. CASE PowerLoss
    BY <1>5 DEF PowerLoss
  <1> QED
    BY <1>1, <1>2, <1>3, <1>4, <1>5 DEF Next, vars

-----------------------------------------------------------------------------
(* STATE_CURRENT.json.                                                     *)

\* Once its line is written an append leaves no fragment, or has buried it, and
\* with its fsync it has buried it for good; at its end STATE_CURRENT.json has its
\* round.
AfterInv ==
  \A p \in Process :
    /\ pc[p] \in Written /\ ~file.buried => file.tail = <<>>
    /\ pc[p] \in {"durable", "staged", "current"} /\ file.buried => Marks(file) <= synced
    /\ pc[p] = "current" => cur = out.hash

\* Line d comes no later than line c.
NotAfter(d, c) ==
  \E i, j \in 1..Len(file.lines) :
    i <= j /\ file.lines[i].hash = d /\ file.lines[j].hash = c

\* A buried line an fsync has covered stays for ever: in every other file the round of
\* STATE_CURRENT.json is as far as any that was acknowledged.
CurInv ==
  ~file.buried \/ synced < Marks(file) =>
    \A d \in acked : cur # 0 /\ NotAfter(d, cur)

\* The holder of the lock has done what is behind it.
LEMMA AfterStep == TypeInv /\ ClaimInv /\ AfterInv /\ [Next]_vars => AfterInv'
  <1> SUFFICES ASSUME TypeInv, ClaimInv, AfterInv, [Next]_vars, NEW q \in Process, pc'[q] \in Written
               PROVE /\ ~file'.buried => file'.tail = <<>>
                     /\ pc'[q] \in {"durable", "staged", "current"} /\ file'.buried =>
                          Marks(file)' <= synced'
                     /\ pc'[q] = "current" => cur' = out'.hash
    BY DEF AfterInv, Written
  <1>0. /\ file \in File /\ synced \in Nat
        /\ file.lines \in Seq(Wrapper) /\ file.tail \in Seq(Piece) /\ file.buried \in BOOLEAN
    BY DEF TypeInv, TypeOK, File
  <1>1. CASE pc'[q] = pc[q]
    <2>1. UNCHANGED <<file, synced, cur, out>> /\ pc[q] \in Written
      BY <1>1, HeldStill DEF Written, Critical
    <2>2. Marks(file)' = Marks(file)
      BY <2>1 DEF Marks, TailMarks
    <2> QED
      BY <1>1, <2>1, <2>2 DEF AfterInv
  <1>2. CASE pc'[q] = "ended" /\ pc[q] # "ended"
    <2>1. WriteNewline(q)
      BY <1>2, Arrives
    <2> QED
      BY <1>0, <1>2, <2>1 DEF WriteNewline, File
  <1>3. CASE pc'[q] = "durable" /\ pc[q] # "durable"
    <2>1. Fsync(q)
      BY <1>3, Arrives
    <2>2. file' = file /\ synced' = Marks(file) /\ pc[q] \in Written
      BY <2>1 DEF Fsync, Written
    <2>3. Marks(file)' = Marks(file) /\ Marks(file) \in Nat
      BY <1>0, <2>2, MarksType DEF Marks, TailMarks
    <2> QED
      BY <1>3, <2>2, <2>3 DEF AfterInv
  <1>4. CASE pc'[q] = "staged" /\ pc[q] # "staged"
    <2>1. StageCurrent(q)
      BY <1>4, Arrives
    <2>2. file' = file /\ synced' = synced /\ pc[q] = "durable"
      BY <2>1 DEF StageCurrent
    <2>3. Marks(file)' = Marks(file)
      BY <2>2 DEF Marks, TailMarks
    <2> QED
      BY <1>4, <2>2, <2>3 DEF AfterInv, Written
  <1>5. CASE pc'[q] = "current" /\ pc[q] # "current"
    <2>1. ReplaceCurrent(q)
      BY <1>5, Arrives
    <2>2. file' = file /\ synced' = synced /\ pc[q] = "staged" /\ cur' = out.hash /\ out' = out
      BY <2>1 DEF ReplaceCurrent
    <2>3. Marks(file)' = Marks(file)
      BY <2>2 DEF Marks, TailMarks
    <2> QED
      BY <1>5, <2>2, <2>3 DEF AfterInv, Written
  <1> QED
    BY <1>1, <1>2, <1>3, <1>4, <1>5 DEF Written

\* A power loss takes something away from a file with a buried line, or nothing.
LEMMA CutOfBuried ==
  ASSUME file \in File, CutFile, file.buried
  PROVE file' = file \/ Marks(file') < Marks(file)
  <1>0. /\ file.lines \in Seq(Wrapper) /\ file.tail \in Seq(Piece) /\ Len(file.lines) \in Nat
        /\ TailMarks(file.tail) \in Nat
    BY DEF File, TailMarks, PieceMarks
  <1>1. Marks(file) = 3 * Len(file.lines) + TailMarks(file.tail) + 1
    BY DEF Marks
  <1>2. ASSUME NEW k \in 1..Len(file.lines),
               NEW t \in PieceCuts(<<[of |-> file.lines[k], whole |-> TRUE]>>),
               file' = [lines |-> SubSeq(file.lines, 1, k - 1), tail |-> t, buried |-> FALSE]
        PROVE Marks(file') < Marks(file)
    <2> DEFINE u == <<[of |-> file.lines[k], whole |-> TRUE]>>
    <2>1. u \in Seq(Piece) /\ TailMarks(u) = 2
      BY <1>0 DEF Piece, TailMarks, PieceMarks
    <2>2. TailMarks(t) \in Nat /\ TailMarks(t) <= 2
      BY <2>1, TailMarksCut
    <2>3. Marks(file') = 3 * (k - 1) + TailMarks(t)
      <3>1. Len(SubSeq(file.lines, 1, k - 1)) = k - 1
        BY <1>0
      <3>2. Marks(file') = 3 * Len(SubSeq(file.lines, 1, k - 1)) + TailMarks(t)
        BY <1>0, <1>2, <2>2, <3>1 DEF Marks
      <3> QED
        BY <3>1, <3>2
    <2> QED
      BY <1>0, <1>1, <2>2, <2>3
  <1>3. ASSUME NEW t \in PieceCuts(file.tail), file' = [file EXCEPT !.tail = t, !.buried = FALSE]
        PROVE Marks(file') < Marks(file)
    <2>1. TailMarks(t) \in Nat /\ TailMarks(t) <= TailMarks(file.tail)
      BY <1>0, TailMarksCut
    <2>2. file'.lines = file.lines /\ file'.tail = t /\ file'.buried = FALSE
      BY <1>3 DEF File
    <2>3. Marks(file') = 3 * Len(file.lines) + TailMarks(t)
      BY <1>0, <2>1, <2>2 DEF Marks
    <2> QED
      BY <1>0, <1>1, <2>1, <2>3
  <1> QED
    BY <1>2, <1>3 DEF CutFile

\* STATE_CURRENT.json is not left behind by any step.
LEMMA CurStep ==
  TypeInv /\ PubInv /\ ClaimInv /\ AfterInv /\ CurInv /\ PubInv' /\ [Next]_vars => CurInv'
  <1> SUFFICES ASSUME TypeInv, PubInv, ClaimInv, AfterInv, CurInv, PubInv', [Next]_vars,
                      ~file'.buried \/ synced' < Marks(file)', NEW d \in acked'
               PROVE cur' # 0 /\ NotAfter(d, cur)'
    BY DEF CurInv
  <1>0. /\ file \in File /\ synced \in Nat /\ Marks(file) \in Nat /\ out \in Wrapper
        /\ file.lines \in Seq(Wrapper) /\ file.tail \in Seq(Piece) /\ file.buried \in BOOLEAN
        /\ Len(file.lines) \in Nat
    BY MarksType DEF TypeInv, TypeOK, File
  <1>t. file' \in File /\ file'.lines \in Seq(Wrapper) /\ Len(file'.lines) \in Nat
    BY TypeStep DEF TypeInv, TypeOK, File
  \* The round of an append that has written its line is the newest.
  <1>a. ASSUME NEW p \in Process, pc[p] \in {"staged", "current"}, file' = file, synced' = synced
        PROVE /\ out.hash # 0 /\ ~file.buried
              /\ Len(file.lines) \in 1..Len(file.lines)
              /\ file.lines[Len(file.lines)].hash = out.hash
    <2>1. Marks(file)' = Marks(file)
      BY <1>a DEF Marks, TailMarks
    <2>2. ~file.buried
      BY <1>0, <1>a, <2>1 DEF AfterInv
    <2> QED
      BY <1>0, <1>a, <2>2 DEF ClaimInv, Written
  \* Steps that tell of nothing, and keep the lines.
  <1>b. ASSUME UNCHANGED <<cur, acked>>, ~file.buried \/ synced < Marks(file),
               \A i \in 1..Len(file.lines) :
                  i \in 1..Len(file'.lines) /\ file'.lines[i] = file.lines[i]
        PROVE cur' # 0 /\ NotAfter(d, cur)'
    <2>1. cur # 0 /\ NotAfter(d, cur)
      BY <1>b DEF CurInv
    <2> QED
      BY <1>b, <2>1 DEF NotAfter
  <1>1. ASSUME NEW p \in Process, ReplaceCurrent(p) PROVE cur' # 0 /\ NotAfter(d, cur)'
    <2>1. /\ pc[p] = "staged" /\ cur' = out.hash
          /\ UNCHANGED <<file, synced, acked>>
      BY <1>1 DEF ReplaceCurrent
    <2>2. /\ out.hash # 0 /\ ~file.buried
          /\ Len(file.lines) \in 1..Len(file.lines)
          /\ file.lines[Len(file.lines)].hash = out.hash
      BY <1>a, <2>1
    <2>3. Durable(d)
      BY <2>1 DEF PubInv, Published, ClaimInv
    <2>4. \E i \in 1..Len(file.lines) : file.lines[i].hash = d /\ i <= Len(file.lines)
      BY <2>2, <2>3 DEF Durable
    <2> QED
      BY <2>1, <2>2, <2>4 DEF NotAfter
  <1>2. ASSUME NEW p \in Process, Finish(p) PROVE cur' # 0 /\ NotAfter(d, cur)'
    <2>1. /\ pc[p] = "current" /\ acked' = acked \cup {out.hash} /\ cur = out.hash
          /\ UNCHANGED <<file, synced, cur>>
      BY <1>2 DEF Finish, AfterInv
    <2>2. /\ out.hash # 0 /\ ~file.buried
          /\ Len(file.lines) \in 1..Len(file.lines)
          /\ file.lines[Len(file.lines)].hash = out.hash
      BY <1>a, <2>1
    <2>3. CASE d = out.hash
      BY <2>1, <2>2, <2>3 DEF NotAfter
    <2>4. CASE d \in acked
      <3>1. NotAfter(d, cur)
        BY <2>2, <2>4 DEF CurInv
      <3> QED
        BY <2>1, <2>2, <3>1 DEF NotAfter
    <2> QED
      BY <2>1, <2>3, <2>4
  <1>3. ASSUME PowerLoss PROVE cur' # 0 /\ NotAfter(d, cur)'
    <2>1. CutFile /\ UNCHANGED <<cur, acked>> /\ synced' = Marks(file') /\ synced <= Marks(file')
      BY <1>3 DEF PowerLoss, CutFile
    <2>2. CASE file' = file
      <3>1. ~file.buried
        BY <1>0, <2>1, <2>2 DEF Marks, TailMarks
      <3> QED
        BY <1>b, <2>1, <2>2, <3>1
    <2>3. CASE file' # file
      <3>1. Begins(file'.lines, file.lines) /\ ~file'.buried
        BY <1>0, <2>1, <2>3, CutBegins
      <3>2. ~file.buried \/ synced < Marks(file)
        <4>1. Marks(file') \in Nat
          BY <1>t, MarksType
        <4> QED
          BY <1>0, <2>1, <2>3, <4>1, CutOfBuried
      <3>3. cur # 0 /\ NotAfter(d, cur)
        BY <2>1, <3>2 DEF CurInv
      <3>4. PICK i \in 1..Len(file.lines), j \in 1..Len(file.lines) :
              i <= j /\ file.lines[i].hash = d /\ file.lines[j].hash = cur
        BY <3>3 DEF NotAfter
      <3>5. Durable(d)' /\ Durable(cur)'
        BY <2>1, <3>3 DEF PubInv, Published, ClaimInv
      <3>6. PICK k \in 1..Len(file'.lines), l \in 1..Len(file'.lines) :
              file'.lines[k].hash = d /\ file'.lines[l].hash = cur'
        <4>1. \E k \in 1..Len(file'.lines) : file'.lines[k].hash = d
          BY <3>1, <3>5 DEF Durable
        <4>2. \E l \in 1..Len(file'.lines) : file'.lines[l].hash = cur'
          BY <2>1, <3>1, <3>5 DEF Durable
        <4> QED
          BY <4>1, <4>2
      <3>7. /\ k \in 1..Len(file.lines) /\ l \in 1..Len(file.lines)
            /\ file'.lines[k] = file.lines[k] /\ file'.lines[l] = file.lines[l]
        BY <1>0, <1>t, <3>1 DEF Begins
      <3>8. k = i /\ l = j
        <4>1. file.lines[k].hash = file.lines[i].hash /\ file.lines[l].hash = file.lines[j].hash
          BY <2>1, <3>4, <3>6, <3>7
        <4>2. \A a, b \in 1..Len(file.lines) : file.lines[a].hash = file.lines[b].hash => a = b
          BY DEF ClaimInv
        <4> QED
          BY <3>4, <3>7, <4>1, <4>2
      <3> QED
        BY <2>1, <3>3, <3>4, <3>6, <3>8 DEF NotAfter
    <2> QED
      BY <2>2, <2>3
  <1>4. ASSUME UNCHANGED <<cur, acked>>, ~PowerLoss PROVE cur' # 0 /\ NotAfter(d, cur)'
    <2>1. CASE UNCHANGED <<file, synced>>
      <3>1. Marks(file)' = Marks(file)
        BY <2>1 DEF Marks, TailMarks
      <3> QED
        BY <1>b, <1>4, <2>1, <3>1
    <2>2. ASSUME NEW p \in Process, WritePart(p) \/ WriteRound(p) \/ ReplaceRounds(p)
          PROVE cur' # 0 /\ NotAfter(d, cur)'
      <3>1. file'.lines = file.lines
        BY <1>0, <2>2 DEF WritePart, WriteRound, ReplaceRounds, File
      <3>2. ~file.buried
        BY <2>2 DEF PubInv, HolderInv, WritePart, WriteRound, ReplaceRounds
      <3> QED
        BY <1>b, <1>4, <3>1, <3>2
    <2>3. ASSUME NEW p \in Process, WriteNewline(p) PROVE cur' # 0 /\ NotAfter(d, cur)'
      <3>1. file'.lines = Append(file.lines, out) \/ file'.lines = file.lines
        BY <1>0, <2>3 DEF WriteNewline, File
      <3>2. ~file.buried
        BY <2>3 DEF PubInv, HolderInv, WriteNewline
      <3>3. \A i \in 1..Len(file.lines) :
              i \in 1..Len(file'.lines) /\ file'.lines[i] = file.lines[i]
        BY <1>0, <3>1
      <3> QED
        BY <1>b, <1>4, <3>2, <3>3
    <2>4. ASSUME NEW p \in Process, Fsync(p) PROVE cur' # 0 /\ NotAfter(d, cur)'
      <3>1. file' = file /\ synced' = Marks(file)
        BY <2>4 DEF Fsync
      <3>2. ~file.buried
        BY <1>0, <3>1 DEF Marks, TailMarks
      <3> QED
        BY <1>b, <1>4, <3>1, <3>2
    <2> QED
      BY <1>4, <2>1, <2>2, <2>3, <2>4, FileMoves
  <1>5. ASSUME NEW p \in Process, FinishRepair(p) PROVE UNCHANGED <<cur, acked>> /\ ~PowerLoss
    BY <1>5 DEF FinishRepair, PowerLoss, Fault, TypeInv, TypeOK
  <1> QED
    BY <1>1, <1>2, <1>3, <1>4, <1>5, TellMoves

\* The position of a line that is there once.
LEMMA PositionOf ==
  ASSUME ClaimInv, NEW i \in 1..Len(file.lines)
  PROVE Position(file.lines[i].hash) = i
  BY DEF Position, ClaimInv

\* ledger.py append: STATE_CURRENT.json is never behind a round whose append
\* reported success, whoever died at which point and what a loss of power took.
THEOREM CurrentCorrect == Spec => []CurrentNotBehindAcked
  <1>1. Init => AfterInv /\ CurInv
    BY DEF Init, AfterInv, CurInv, Written
  <1>2. ClaimInv /\ CurInv => CurrentNotBehindAcked
    <2> SUFFICES ASSUME ClaimInv, CurInv, ~file.buried, NEW d \in acked
                 PROVE cur \in Hashes(file.lines) /\ Position(d) <= Position(cur)
      BY DEF CurrentNotBehindAcked
    <2>1. PICK i \in 1..Len(file.lines), j \in 1..Len(file.lines) :
            i <= j /\ file.lines[i].hash = d /\ file.lines[j].hash = cur
      BY DEF CurInv, NotAfter
    <2> QED
      BY <2>1, PositionOf DEF Hashes
  <1> QED
    BY TypeInit, ChainInit, PubInit, ClaimInit, TypeStep, ChainStep, PubStep, ClaimStep, AfterStep,
       CurStep, <1>1, <1>2, PTL DEF Spec

-----------------------------------------------------------------------------
(* events.log.                                                             *)

\* A derived block stays as it is while its process waits for the lock.
LEMMA WaitsStill ==
  ASSUME TypeInv, [Next]_vars, NEW q \in Process, pc[q] = "waiting", pc'[q] = "waiting"
  PROVE block'[q] = block[q]
  <1>0. pc \in [Process -> Pc] /\ block \in [Process -> Block]
    BY DEF TypeInv, TypeOK
  <1>1. ASSUME NEW p \in Process, Request(p) \/ AppendRefuse(p) \/ AppendBegin(p) \/ Kill(p)
        PROVE block'[q] = block[q]
    <2>1. p # q
      BY <1>0, <1>1 DEF Request, Derive, AppendRefuse, AppendBegin, Kill, Goto
    <2> QED
      BY <1>0, <1>1, <2>1 DEF Request, Derive, AppendRefuse, AppendBegin, Kill
  <1>2. ~PowerLoss
    BY DEF PowerLoss
  <1>3. ASSUME NEW p \in Process,
               \/ WritePart(p) \/ WriteRound(p) \/ WriteNewline(p) \/ Fsync(p) \/ StageCurrent(p)
               \/ ReplaceCurrent(p) \/ Finish(p) \/ RepairBegin(p) \/ SaveFragment(p)
               \/ StageRounds(p) \/ ReplaceRounds(p) \/ FinishRepair(p) \/ Verify(p)
               \/ VerifyCurrent(p) \/ WriteError(p)
        PROVE block' = block
    BY <1>3 DEF WritePart, WriteRound, WriteNewline, Fsync, StageCurrent, ReplaceCurrent, Finish,
       RepairBegin, SaveFragment, StageRounds, ReplaceRounds, FinishRepair, Verify,
       VerifyUnreadable, VerifyRounds, VerifyCurrent, WriteError
  <1> QED
    BY <1>1, <1>2, <1>3 DEF Next, Step, vars

\* What becomes of the digests that are being written, and of those written.
LEMMA ClaimMoves ==
  ASSUME TypeInv, [Next]_vars, NEW q \in Process
  PROVE /\ Claims(q)' => \/ Claims(q) /\ Claimed(q)' = Claimed(q) /\ started' \in {started, started + 1}
                         \/ Claimed(q)' = started + 1 /\ started' = started + 1
        /\ pc'[q] \in Written => \/ pc[q] \in Written /\ out' = out
                                 \/ WriteNewline(q) /\ Claims(q) /\ Claimed(q) = out.hash /\ out' = out
  <1>0. /\ pc \in [Process -> Pc] /\ block \in [Process -> Block] /\ started \in Nat
        /\ started' \in {started, started + 1}
    BY DEF TypeInv, TypeOK, Next, Step, Request, Derive, AppendRefuse, AppendBegin, WritePart,
       WriteRound, WriteNewline, Fsync, StageCurrent, ReplaceCurrent, Finish, RepairBegin,
       SaveFragment, StageRounds, ReplaceRounds, FinishRepair, Verify, VerifyUnreadable,
       VerifyRounds, VerifyCurrent, Kill, WriteError, PowerLoss, vars
  <1>1. CASE pc'[q] = "waiting" /\ pc[q] = "waiting"
    <2>1. block'[q] = block[q]
      BY <1>1, WaitsStill
    <2> QED
      BY <1>0, <1>1, <2>1 DEF Claims, Claimed, Written
  <1>2. CASE pc'[q] = "waiting" /\ pc[q] # "waiting"
    <2>1. PICK m \in Modes, t \in Task : Derive(q, m, t)
      BY <1>2, Arrives
    <2>2. block'[q].id = started + 1 /\ started' = started + 1
      BY <1>0, <2>1 DEF Derive
    <2> QED
      BY <1>2, <2>2 DEF Claimed, Written
  <1>3. CASE pc'[q] = "opened" /\ pc[q] # "opened"
    <2>1. AppendBegin(q)
      BY <1>3, Arrives
    <2>2. pc[q] = "waiting" /\ out'.hash = block[q].id
      BY <2>1 DEF AppendBegin, WrapperFor
    <2> QED
      BY <1>0, <1>3, <2>2 DEF Claims, Claimed, Written
  <1>4. CASE pc'[q] = "part" /\ pc[q] # "part"
    BY <1>0, <1>4, Arrives DEF WritePart, Claims, Claimed, Written, Unwritten
  <1>5. CASE pc'[q] = "whole" /\ pc[q] # "whole"
    BY <1>0, <1>5, Arrives DEF WriteRound, Claims, Claimed, Written, Unwritten
  <1>6. CASE pc'[q] = "ended" /\ pc[q] # "ended"
    BY <1>0, <1>6, Arrives DEF WriteNewline, Claims, Claimed, Written, Unwritten
  <1>7. CASE pc'[q] \in Written \ {"ended"} /\ pc'[q] # pc[q]
    BY <1>0, <1>7, Arrives DEF Fsync, StageCurrent, ReplaceCurrent, Claims, Written, Unwritten
  <1>8. CASE pc'[q] \in Unwritten \cup Written /\ pc'[q] = pc[q]
    <2>1. out' = out
      BY <1>8, HeldStill DEF Unwritten, Written, Critical
    <2> QED
      BY <1>0, <1>8, <2>1 DEF Claims, Claimed, Unwritten, Written
  <1> QED
    BY <1>1, <1>2, <1>3, <1>4, <1>5, <1>6, <1>7, <1>8 DEF Claims, Unwritten, Written

\* What becomes of the lines of rounds.jsonl.
LEMMA LineMoves ==
  ASSUME TypeInv, ChainInv, [Next]_vars
  PROVE \/ Begins(file'.lines, file.lines)
        \/ \E p \in Process : WriteNewline(p) /\ file'.lines = Append(file.lines, out)
  <1>0. /\ file \in File /\ file.lines \in Seq(Wrapper) /\ Len(file.lines) \in Nat
    BY DEF TypeInv, TypeOK, File
  <1>1. CASE file'.lines = file.lines
    BY <1>0, <1>1 DEF Begins
  <1>2. ASSUME NEW p \in Process,
               WritePart(p) \/ WriteRound(p) \/ Fsync(p) \/ ReplaceRounds(p)
        PROVE file'.lines = file.lines
    BY <1>0, <1>2 DEF WritePart, WriteRound, Fsync, ReplaceRounds, File
  <1>3. ASSUME NEW p \in Process, WriteNewline(p)
        PROVE file'.lines = Append(file.lines, out) \/ file'.lines = file.lines
    BY <1>0, <1>3 DEF WriteNewline, File
  <1>4. CASE PowerLoss
    <2>1. CutFile
      BY <1>4 DEF PowerLoss
    <2> QED
      BY <1>0, <1>1, <2>1, CutBegins
  <1> QED
    BY <1>1, <1>2, <1>3, <1>4, FileMoves

\* The lines stay between the newline of an append and its end.
LEMMA WrittenKeeps ==
  ASSUME TypeInv, [Next]_vars, NEW q \in Process, pc[q] \in Written, pc'[q] \in Written
  PROVE file' = file /\ events' = events
  <1>1. CASE pc'[q] = pc[q]
    BY <1>1, HeldStill DEF Written, Critical
  <1>2. CASE pc'[q] # pc[q]
    <2>1. ~WriteNewline(q)
      BY DEF WriteNewline, Written
    <2> QED
      BY <1>2, <2>1, Arrives DEF Fsync, StageCurrent, ReplaceCurrent, Written
  <1> QED
    BY <1>1, <1>2

\* The events s tell of d.
Tells(s, d) == \E i \in 1..Len(s) : s[i] = d

\* A round is told of once, after it is written, and those before it were told of
\* before: the newest line is the one whose append is under way.
EventInv ==
  /\ \A i, j \in 1..Len(events), a, b \in 1..Len(file.lines) :
       i < j /\ events[j] # 0 /\ file.lines[a].hash = events[i] /\ file.lines[b].hash = events[j]
         => a < b
  /\ \A i \in 1..Len(events) : events[i] <= started
  /\ \A p \in Process : Claims(p) => ~Tells(events, Claimed(p))
  /\ \A p \in Process : pc[p] \in Written =>
       /\ out.hash <= started
       /\ ~Tells(events, out.hash)
       /\ \A q \in Process : Claims(q) => Claimed(q) # out.hash
       /\ \A a \in 1..Len(file.lines) : file.lines[a].hash = out.hash => a = Len(file.lines)

\* What becomes of the lines of events.log.
LEMMA EventMoves ==
  ASSUME TypeInv, [Next]_vars
  PROVE \/ \A i \in 1..Len(events') : i \in 1..Len(events) /\ events'[i] = events[i]
        \/ \E p \in Process : Finish(p) /\ events' = Append(events, out.hash)
        \/ \E p \in Process : FinishRepair(p) /\ events' = Append(events, 0)
  <1>0. events \in Seq(Digest) /\ Len(events) \in Nat
    BY DEF TypeInv, TypeOK
  <1>1. CASE events' = events
    BY <1>1
  <1>2. CASE PowerLoss
    <2>1. PICK k \in 0..Len(events) : events' = SubSeq(events, 1, k)
      BY <1>2 DEF PowerLoss
    <2>2. Len(events') = k /\ \A i \in 1..k : events'[i] = events[i]
      BY <1>0, <2>1
    <2> QED
      BY <1>0, <2>2
  <1>3. ASSUME NEW p \in Process, ReplaceCurrent(p) PROVE events' = events
    BY <1>3 DEF ReplaceCurrent
  <1>4. ASSUME NEW p \in Process, Finish(p) PROVE events' = Append(events, out.hash)
    BY <1>4 DEF Finish
  <1>5. ASSUME NEW p \in Process, FinishRepair(p) PROVE events' = Append(events, 0)
    BY <1>5 DEF FinishRepair
  <1> QED
    BY <1>1, <1>2, <1>3, <1>4, <1>5, TellMoves

\* Every step keeps events.log in the order of rounds.jsonl.
LEMMA EventStep == TypeInv /\ ChainInv /\ ClaimInv /\ EventInv /\ [Next]_vars => EventInv'
  <1> SUFFICES ASSUME TypeInv, ChainInv, ClaimInv, EventInv, [Next]_vars PROVE EventInv'
    OBVIOUS
  <1>0. /\ file.lines \in Seq(Wrapper) /\ Len(file.lines) \in Nat /\ out \in Wrapper
        /\ events \in Seq(Digest) /\ Len(events) \in Nat /\ started \in Nat
        /\ started' \in {started, started + 1}
        /\ \A i \in 1..Len(events) : events[i] \in Nat
        /\ \A a \in 1..Len(file.lines) : file.lines[a].hash \in Nat
        /\ out.hash \in Nat /\ Len(file'.lines) \in Nat
        /\ pc \in [Process -> Pc]
        /\ \A p, q \in Process : pc[p] \in Critical /\ pc[q] \in Critical => p = q
    <2>1. started' \in {started, started + 1}
      BY DEF Next, Step, Request, Derive, AppendRefuse, AppendBegin, WritePart,
         WriteRound, WriteNewline, Fsync, StageCurrent, ReplaceCurrent, Finish, RepairBegin,
         SaveFragment, StageRounds, ReplaceRounds, FinishRepair, Verify, VerifyUnreadable,
         VerifyRounds, VerifyCurrent, Kill, WriteError, PowerLoss, vars
    <2>2. \A w \in Wrapper : w.hash \in Nat
      BY DEF Wrapper, Digest
    <2>3. Len(file'.lines) \in Nat
      BY TypeStep DEF TypeInv, TypeOK, File
    <2> QED
      BY <2>1, <2>2, <2>3, ElementOfSeq DEF TypeInv, TypeOK, LockInv, File, Digest
  \* An append that ends has its round written.
  <1>f. ASSUME NEW p \in Process, Finish(p)
        PROVE pc[p] \in Written /\ pc' = [pc EXCEPT ![p] = "idle"] /\ file' = file /\ started' = started
    BY <1>f DEF Finish, Written, Goto
  \* What is told anew.
  <1>t. ASSUME NEW d, Tells(events', d)
        PROVE Tells(events, d) \/ d = 0 \/ \E p \in Process : Finish(p) /\ d = out.hash
    <2>1. PICK i \in 1..Len(events') : events'[i] = d
      BY <1>t DEF Tells
    <2>2. ASSUME NEW e, events' = Append(events, e) PROVE Tells(events, d) \/ d = e
      <3>1. i = Len(events) + 1 => events'[i] = e
        BY <1>0, <2>2
      <3>2. i # Len(events) + 1 => i \in 1..Len(events) /\ events'[i] = events[i]
        BY <1>0, <2>1, <2>2
      <3> QED
        BY <2>1, <3>1, <3>2 DEF Tells
    <2> QED
      BY <2>1, <2>2, EventMoves DEF Tells
  <1>1. ASSUME NEW i \in 1..Len(events'), NEW j \in 1..Len(events'),
               NEW a \in 1..Len(file'.lines), NEW b \in 1..Len(file'.lines),
               i < j, events'[j] # 0, file'.lines[a].hash = events'[i], file'.lines[b].hash = events'[j]
        PROVE a < b
    <2>1. CASE /\ \A k \in 1..Len(events') : k \in 1..Len(events) /\ events'[k] = events[k]
               /\ Begins(file'.lines, file.lines)
      <3>1. /\ a \in 1..Len(file.lines) /\ file'.lines[a] = file.lines[a]
            /\ b \in 1..Len(file.lines) /\ file'.lines[b] = file.lines[b]
        BY <1>0, <2>1 DEF Begins
      <3> QED
        BY <1>1, <2>1, <3>1 DEF EventInv
    <2>2. ASSUME \A k \in 1..Len(events') : k \in 1..Len(events) /\ events'[k] = events[k],
                 NEW p \in Process, WriteNewline(p), file'.lines = Append(file.lines, out)
          PROVE a < b
      <3>1. ~Tells(events, out.hash)
        BY <2>2 DEF EventInv, WriteNewline, Claims, Claimed, Unwritten
      <3>2. \A k \in 1..Len(file'.lines) : IF k = Len(file.lines) + 1
                                           THEN file'.lines[k] = out
                                           ELSE k \in 1..Len(file.lines) /\ file'.lines[k] = file.lines[k]
        BY <1>0, <2>2
      <3>3. a # Len(file.lines) + 1 /\ b # Len(file.lines) + 1
        BY <1>1, <2>2, <3>1, <3>2 DEF Tells
      <3>4. /\ a \in 1..Len(file.lines) /\ file'.lines[a] = file.lines[a]
            /\ b \in 1..Len(file.lines) /\ file'.lines[b] = file.lines[b]
            /\ i \in 1..Len(events) /\ events'[i] = events[i]
            /\ j \in 1..Len(events) /\ events'[j] = events[j]
        BY <2>2, <3>2, <3>3
      <3> QED
        BY <1>1, <3>4 DEF EventInv
    <2>3. ASSUME NEW p \in Process, Finish(p), events' = Append(events, out.hash) PROVE a < b
      <3>1. file' = file /\ pc[p] \in Written
        BY <1>f, <2>3
      <3>2. /\ i \in 1..Len(events) /\ events'[i] = events[i]
            /\ \/ j \in 1..Len(events) /\ events'[j] = events[j]
               \/ events'[j] = out.hash
        <4>1. /\ Len(events') = Len(events) + 1 /\ events'[Len(events) + 1] = out.hash
              /\ \A k \in 1..Len(events) : events'[k] = events[k]
          BY <1>0, <2>3 DEF Digest
        <4>2. Len(events) \in Nat
          BY <1>0
        <4>3. j = Len(events) + 1 \/ j \in 1..Len(events)
          BY <4>1, <4>2
        <4>4. i \in 1..Len(events)
          BY <1>1, <4>1, <4>2
        <4> QED
          BY <4>1, <4>3, <4>4
      <3>3. CASE j \in 1..Len(events) /\ events'[j] = events[j]
        BY <1>1, <3>1, <3>2, <3>3 DEF EventInv
      <3>4. CASE events'[j] = out.hash
        <4>1. b = Len(file.lines) /\ file.lines[a].hash # out.hash /\ file.lines[b].hash = out.hash
          BY <1>1, <3>1, <3>2, <3>4 DEF EventInv, Tells
        <4> QED
          BY <1>0, <1>1, <3>1, <4>1
      <3> QED
        BY <3>2, <3>3, <3>4
    <2>4. ASSUME NEW p \in Process, FinishRepair(p), events' = Append(events, 0) PROVE a < b
      <3>1. file' = file
        BY <2>4 DEF FinishRepair
      <3>2. /\ i \in 1..Len(events) /\ events'[i] = events[i]
            /\ \/ j \in 1..Len(events) /\ events'[j] = events[j]
               \/ events'[j] = 0
        <4>1. /\ Len(events') = Len(events) + 1 /\ events'[Len(events) + 1] = 0
              /\ \A k \in 1..Len(events) : events'[k] = events[k]
          BY <1>0, <2>4 DEF Digest
        <4>2. Len(events) \in Nat
          BY <1>0
        <4>3. j = Len(events) + 1 \/ j \in 1..Len(events)
          BY <4>1, <4>2
        <4>4. i \in 1..Len(events)
          BY <1>1, <4>1, <4>2
        <4> QED
          BY <4>1, <4>3, <4>4
      <3> QED
        BY <1>1, <3>1, <3>2 DEF EventInv
    <2>5. ASSUME NEW p \in Process, Finish(p) \/ FinishRepair(p) PROVE file' = file
      BY <2>5 DEF Finish, FinishRepair
    <2> QED
      BY <2>1, <2>2, <2>3, <2>4, EventMoves, LineMoves
  <1>2. ASSUME NEW i \in 1..Len(events') PROVE events'[i] <= started'
    <2>1. Tells(events', events'[i])
      BY <1>2 DEF Tells
    <2>2. ASSUME NEW p \in Process, Finish(p) PROVE out.hash <= started
      BY <1>f, <2>2 DEF EventInv
    <2>3. \A d : Tells(events, d) => d \in Nat /\ d <= started
      BY <1>0 DEF EventInv, Tells
    <2> QED
      BY <1>0, <1>t, <2>1, <2>2, <2>3
  <1>3. ASSUME NEW p \in Process, Claims(p)' PROVE ~Tells(events', Claimed(p)')
    <2>1. Claimed(p)' # 0 /\ ~Tells(events, Claimed(p)')
      <3>1. CASE Claims(p) /\ Claimed(p)' = Claimed(p)
        BY <1>0, <3>1 DEF EventInv, ClaimInv
      <3>2. CASE Claimed(p)' = started + 1
        BY <1>0, <3>2 DEF EventInv, Tells
      <3> QED
        BY <1>3, <3>1, <3>2, ClaimMoves
    <2>2. ASSUME NEW q \in Process, Finish(q) PROVE Claimed(p)' # out.hash
      <3>1. p # q
        BY <1>0, <1>3, <1>f, <2>2 DEF Claims, Unwritten
      <3>2. CASE Claims(p) /\ Claimed(p)' = Claimed(p)
        BY <1>f, <2>2, <3>2 DEF EventInv
      <3>3. CASE Claimed(p)' = started + 1
        BY <1>0, <1>f, <2>2, <3>3 DEF EventInv
      <3> QED
        BY <1>3, <3>2, <3>3, ClaimMoves
    <2> QED
      BY <1>t, <2>1, <2>2
  <1>4. ASSUME NEW p \in Process, pc'[p] \in Written
        PROVE /\ out'.hash <= started'
              /\ ~Tells(events', out'.hash)
              /\ \A q \in Process : Claims(q)' => Claimed(q)' # out'.hash
              /\ \A a \in 1..Len(file'.lines) : file'.lines[a].hash = out'.hash => a = Len(file'.lines)
    <2>1. \/ pc[p] \in Written /\ out' = out
          \/ WriteNewline(p) /\ Claims(p) /\ Claimed(p) = out.hash /\ out' = out
      BY <1>4, ClaimMoves
    <2>2. /\ out' = out /\ out.hash # 0 /\ out.hash <= started /\ ~Tells(events, out.hash)
      BY <1>0, <2>1 DEF EventInv, ClaimInv
    <2>3. \A q \in Process : ~Finish(q)
      <3>1. pc[p] \in Critical
        BY <2>1 DEF WriteNewline, Critical, Written
      <3> QED
        BY <1>0, <1>4, <1>f, <3>1 DEF Written, Critical
    <2>4. ASSUME NEW q \in Process, Claims(q)' PROVE Claimed(q)' # out'.hash
      <3>1. CASE Claimed(q)' = started + 1
        BY <1>0, <2>2, <3>1
      <3>2. CASE Claims(q) /\ Claimed(q)' = Claimed(q) /\ pc[p] \in Written
        BY <2>2, <3>2 DEF EventInv
      <3>3. CASE Claims(q) /\ Claimed(q)' = Claimed(q) /\ WriteNewline(p) /\ Claims(p) /\ Claimed(p) = out.hash
        <4>1. p # q
          BY <1>4, <2>4 DEF Claims, Written, Unwritten
        <4> QED
          BY <2>2, <3>3, <4>1 DEF ClaimInv
      <3> QED
        BY <2>1, <2>4, <3>1, <3>2, <3>3, ClaimMoves
    <2>5. ASSUME NEW a \in 1..Len(file'.lines), file'.lines[a].hash = out'.hash PROVE a = Len(file'.lines)
      <3>1. CASE pc[p] \in Written
        <4>1. file' = file
          BY <1>4, <3>1, WrittenKeeps
        <4> QED
          BY <2>2, <2>5, <3>1, <4>1 DEF EventInv
      <3>2. CASE WriteNewline(p) /\ Claims(p) /\ Claimed(p) = out.hash
        <4>1. file'.lines = Append(file.lines, out) \/ file'.lines = file.lines
          BY <3>2 DEF WriteNewline, TypeInv, TypeOK, File
        <4>2. \A c \in 1..Len(file.lines) : file.lines[c].hash # out.hash
          BY <3>2 DEF ClaimInv, Hashes
        <4>3. file'.lines = Append(file.lines, out)
          BY <2>2, <2>5, <4>1, <4>2
        <4>4. /\ Len(file'.lines) = Len(file.lines) + 1
              /\ a \in 1..Len(file.lines) => file'.lines[a] = file.lines[a]
          BY <1>0, <4>3
        <4>5. a \notin 1..Len(file.lines)
          BY <2>2, <2>5, <4>2, <4>4
        <4> QED
          BY <1>0, <4>4, <4>5
      <3> QED
        BY <2>1, <3>1, <3>2
    <2> QED
      BY <1>0, <1>t, <2>2, <2>3, <2>4, <2>5
  <1> QED
    BY <1>1, <1>2, <1>3, <1>4 DEF EventInv

\* ledger.py append and repair: events.log tells the rounds it tells in the order of
\* rounds.jsonl and each once, whatever a crash took from either.
THEOREM EventsCorrect == Spec => []EventsInOrder
  <1>1. Init => EventInv
    BY DEF Init, EventInv, Claims, Unwritten, Written, EmptyFile
  <1>2. ClaimInv /\ EventInv => EventsInOrder
    <2> SUFFICES ASSUME ClaimInv, EventInv, NEW i \in 1..Len(events), NEW j \in 1..Len(events),
                        i < j, events[i] # 0, events[j] # 0,
                        events[i] \in Hashes(file.lines), events[j] \in Hashes(file.lines)
                 PROVE Position(events[i]) < Position(events[j])
      BY DEF EventsInOrder
    <2>1. PICK a \in 1..Len(file.lines) : file.lines[a].hash = events[i]
      BY DEF Hashes
    <2>2. PICK b \in 1..Len(file.lines) : file.lines[b].hash = events[j]
      BY DEF Hashes
    <2>3. a < b
      BY <2>1, <2>2 DEF EventInv
    <2> QED
      BY <2>1, <2>2, <2>3, PositionOf
  <1> QED
    BY TypeInit, ChainInit, PubInit, ClaimInit, TypeStep, ChainStep, PubStep, ClaimStep, EventStep,
       <1>1, <1>2, PTL DEF Spec

-----------------------------------------------------------------------------
(* What rounds.jsonl is made of.                                           *)

\* The rounds in f, written whole or in part.
Within(f) == {f.lines[i] : i \in 1..Len(f.lines)} \cup {f.tail[i].of : i \in 1..Len(f.tail)}

\* A cut of pieces is of the same rounds.
LEMMA PieceCutsOf ==
  ASSUME NEW t \in Seq(Piece), NEW c \in PieceCuts(t), NEW i \in 1..Len(c)
  PROVE \E j \in 1..Len(t) : c[i].of = t[j].of
  <1>1. ASSUME NEW k \in 0..Len(t), c = SubSeq(t, 1, k)
        PROVE i \in 1..Len(t) /\ c[i].of = t[i].of
    BY <1>1
  <1>2. ASSUME NEW k \in 1..Len(t), c = Append(SubSeq(t, 1, k - 1), [of |-> t[k].of, whole |-> FALSE])
        PROVE i \in 1..Len(t) /\ c[i].of = t[i].of
    <2>1. SubSeq(t, 1, k - 1) \in Seq(Piece) /\ Len(SubSeq(t, 1, k - 1)) = k - 1
      OBVIOUS
    <2>2. Len(c) = k /\ c[k].of = t[k].of
      BY <1>2, <2>1
    <2>3. \A j \in 1..k - 1 : c[j] = t[j]
      BY <1>2, <2>1
    <2> QED
      BY <2>2, <2>3
  <1> QED
    BY <1>1, <1>2 DEF PieceCuts

\* No step puts anything into rounds.jsonl but the round of the append under way.
LEMMA WithinStep ==
  ASSUME TypeInv, [Next]_vars
  PROVE \/ Within(file') \subseteq Within(file)
        \/ /\ \E p \in Process : pc[p] \in Unwritten
           /\ Within(file') \subseteq Within(file) \cup {out}
  <1>0. /\ file \in File /\ file.lines \in Seq(Wrapper) /\ file.tail \in Seq(Piece)
        /\ Len(file.lines) \in Nat /\ Len(file.tail) \in Nat /\ out \in Wrapper
    BY DEF TypeInv, TypeOK, File
  <1>a. /\ \A i \in 1..Len(file.lines) : file.lines[i] \in Within(file)
        /\ \A i \in 1..Len(file.tail) : file.tail[i].of \in Within(file)
    BY DEF Within
  <1>1. ASSUME NEW p \in Process, WritePart(p) PROVE Within(file') \subseteq Within(file) \cup {out}
    <2> DEFINE u == [of |-> out, whole |-> FALSE]
    <2>1. file'.lines = file.lines /\ file'.tail = Append(file.tail, u)
      BY <1>0, <1>1 DEF WritePart, File
    <2>2. u \in Piece /\ u.of = out
      BY <1>0 DEF Piece
    <2> HIDE DEF u
    <2>3. \A i \in 1..Len(file'.tail) : file'.tail[i] = u \/ (i \in 1..Len(file.tail) /\ file'.tail[i] = file.tail[i])
      BY <1>0, <2>1, <2>2
    <2> QED
      BY <2>1, <2>2, <2>3 DEF Within
  <1>2. ASSUME NEW p \in Process, WriteRound(p) PROVE Within(file') \subseteq Within(file) \cup {out}
    <2> DEFINE u == [of |-> out, whole |-> TRUE]
               t == SubSeq(file.tail, 1, Len(file.tail) - 1)
    <2>1. file'.lines = file.lines /\ file'.tail = Append(t, u)
      BY <1>0, <1>2 DEF WriteRound, File
    <2>2. u \in Piece /\ u.of = out
      BY <1>0 DEF Piece
    <2>3. t \in Seq(Piece) /\ \A i \in 1..Len(t) : i \in 1..Len(file.tail) /\ t[i] = file.tail[i]
      BY <1>0
    <2> HIDE DEF u, t
    <2>4. \A i \in 1..Len(file'.tail) : file'.tail[i] = u \/ (i \in 1..Len(t) /\ file'.tail[i] = t[i])
      BY <2>1, <2>2, <2>3
    <2> QED
      BY <2>1, <2>2, <2>3, <2>4 DEF Within
  <1>3. ASSUME NEW p \in Process, WriteNewline(p) PROVE Within(file') \subseteq Within(file) \cup {out}
    <2>1. CASE file' = [lines |-> Append(file.lines, out), tail |-> <<>>, buried |-> FALSE]
      <3>1. \A i \in 1..Len(file'.lines) : file'.lines[i] = out \/ (i \in 1..Len(file.lines) /\ file'.lines[i] = file.lines[i])
        BY <1>0, <2>1
      <3>2. Len(file'.tail) = 0
        BY <2>1
      <3> QED
        BY <3>1, <3>2 DEF Within
    <2>2. CASE file' = [file EXCEPT !.buried = TRUE]
      <3>1. file'.lines = file.lines /\ file'.tail = file.tail
        BY <1>0, <2>2 DEF File
      <3> QED
        BY <3>1 DEF Within
    <2> QED
      BY <1>3, <2>1, <2>2 DEF WriteNewline
  <1>4. ASSUME NEW p \in Process, ReplaceRounds(p) PROVE Within(file') \subseteq Within(file)
    <2>1. file'.lines = file.lines /\ Len(file'.tail) = 0
      BY <1>0, <1>4 DEF ReplaceRounds, File
    <2> QED
      BY <2>1 DEF Within
  <1>5. CASE file' = file
    BY <1>5
  <1>6. ASSUME PowerLoss PROVE Within(file') \subseteq Within(file)
    <2>1. ASSUME NEW k \in 1..Len(file.lines),
                 NEW t \in PieceCuts(<<[of |-> file.lines[k], whole |-> TRUE]>>),
                 file' = [lines |-> SubSeq(file.lines, 1, k - 1), tail |-> t, buried |-> FALSE]
          PROVE Within(file') \subseteq Within(file)
      <3> DEFINE u == <<[of |-> file.lines[k], whole |-> TRUE]>>
      <3>1. u \in Seq(Piece) /\ \A j \in 1..Len(u) : u[j].of = file.lines[k]
        BY <1>0 DEF Piece
      <3>2. t \in PieceCuts(u)
        OBVIOUS
      <3> HIDE DEF u
      <3>3. \A i \in 1..Len(t) : t[i].of = file.lines[k]
        BY <3>1, <3>2, PieceCutsOf
      <3>4. \A i \in 1..Len(file'.lines) : i \in 1..Len(file.lines) /\ file'.lines[i] = file.lines[i]
        BY <1>0, <2>1
      <3>5. file'.tail = t
        BY <2>1
      <3> QED
        BY <1>a, <3>3, <3>4, <3>5 DEF Within
    <2>2. ASSUME NEW t \in PieceCuts(file.tail), file' = [file EXCEPT !.tail = t, !.buried = FALSE]
          PROVE Within(file') \subseteq Within(file)
      <3>1. file'.lines = file.lines /\ file'.tail = t
        BY <1>0, <2>2 DEF File
      <3>2. \A i \in 1..Len(t) : \E j \in 1..Len(file.tail) : t[i].of = file.tail[j].of
        BY <1>0, PieceCutsOf
      <3> QED
        BY <3>1, <3>2 DEF Within
    <2>3. CutFile
      BY <1>6 DEF PowerLoss
    <2> QED
      BY <1>5, <2>1, <2>2, <2>3 DEF CutFile
  <1>7. \A p \in Process : WritePart(p) \/ WriteRound(p) \/ WriteNewline(p) => pc[p] \in Unwritten
    BY DEF WritePart, WriteRound, WriteNewline, Unwritten
  <1>8. \A p \in Process : Fsync(p) => file' = file
    BY DEF Fsync
  <1> QED
    BY <1>1, <1>2, <1>3, <1>4, <1>5, <1>6, <1>7, <1>8, FileMoves

-----------------------------------------------------------------------------
(* entity.name.                                                            *)

\* The round of somebody's HEARTBEAT_AGENT.
Named(w) == \E p \in Process : w.name = Agent[p]

NameInv ==
  /\ \A w \in Within(file) : Named(w)
  /\ Named(out)
  /\ \A p \in Process : block[p].name = Agent[p]

\* Every round is of the agent of a process.
LEMMA NameStep == TypeInv /\ NameInv /\ [Next]_vars => NameInv'
  <1> SUFFICES ASSUME TypeInv, NameInv, [Next]_vars PROVE NameInv'
    OBVIOUS
  <1>0. block \in [Process -> Block]
    BY DEF TypeInv, TypeOK
  <1>1. \A w \in Within(file') : Named(w)
    BY WithinStep DEF NameInv
  <1>n. Named(NoWrapper) /\ \A p \in Process : NoBlock(p).name = Agent[p]
    BY ProcessAssumption DEF Named, NoWrapper, NoBlock
  <1>2. Named(out')
    <2>1. ASSUME NEW p \in Process, AppendBegin(p) PROVE Named(out')
      BY <2>1 DEF AppendBegin, WrapperFor, NameInv, Named
    <2>2. ASSUME NEW p \in Process, Finish(p) \/ Kill(p) \/ WriteError(p) PROVE Named(out')
      BY <1>n, <2>2 DEF Finish, Kill, WriteError, NameInv
    <2>3. ASSUME NEW p \in Process,
                 \/ Request(p) \/ AppendRefuse(p) \/ WritePart(p) \/ WriteRound(p)
                 \/ WriteNewline(p) \/ Fsync(p) \/ StageCurrent(p) \/ ReplaceCurrent(p)
                 \/ RepairBegin(p) \/ SaveFragment(p) \/ StageRounds(p) \/ ReplaceRounds(p)
                 \/ FinishRepair(p) \/ Verify(p) \/ VerifyCurrent(p)
          PROVE out' = out
      BY <2>3 DEF Request, Derive, AppendRefuse, WritePart, WriteRound, WriteNewline, Fsync,
         StageCurrent, ReplaceCurrent, RepairBegin, SaveFragment, StageRounds, ReplaceRounds,
         FinishRepair, Verify, VerifyUnreadable, VerifyRounds, VerifyCurrent
    <2>4. CASE PowerLoss
      BY <1>n, <2>4 DEF PowerLoss
    <2> QED
      BY <2>1, <2>2, <2>3, <2>4 DEF Next, Step, NameInv, vars
  <1>3. ASSUME NEW q \in Process PROVE block'[q].name = Agent[q]
    <2>1. ASSUME NEW p \in Process, Request(p) PROVE block'[q].name = Agent[q]
      BY <1>0, <2>1 DEF Request, Derive, NameInv
    <2>2. ASSUME NEW p \in Process, AppendRefuse(p) \/ AppendBegin(p) \/ Kill(p) PROVE block'[q].name = Agent[q]
      BY <1>0, <1>n, <2>2 DEF AppendRefuse, AppendBegin, Kill, NameInv
    <2>3. ASSUME NEW p \in Process,
                 \/ WritePart(p) \/ WriteRound(p) \/ WriteNewline(p) \/ Fsync(p) \/ StageCurrent(p)
                 \/ ReplaceCurrent(p) \/ Finish(p) \/ RepairBegin(p) \/ SaveFragment(p)
                 \/ StageRounds(p) \/ ReplaceRounds(p) \/ FinishRepair(p) \/ Verify(p)
                 \/ VerifyCurrent(p) \/ WriteError(p)
          PROVE block' = block
      BY <2>3 DEF WritePart, WriteRound, WriteNewline, Fsync, StageCurrent, ReplaceCurrent, Finish,
         RepairBegin, SaveFragment, StageRounds, ReplaceRounds, FinishRepair, Verify,
         VerifyUnreadable, VerifyRounds, VerifyCurrent, WriteError
    <2>4. CASE PowerLoss
      BY <1>n, <2>4 DEF PowerLoss
    <2> QED
      BY <2>1, <2>2, <2>3, <2>4 DEF Next, Step, NameInv, vars
  <1> QED
    BY <1>1, <1>2, <1>3 DEF NameInv

\* At the start the names are those of the agents.
LEMMA NameInit == Init => NameInv
  <1> SUFFICES ASSUME Init PROVE NameInv
    OBVIOUS
  <1>1. Within(file) = {}
    BY DEF Init, EmptyFile, Within
  <1>2. Named(out)
    BY ProcessAssumption DEF Init, Named, NoWrapper
  <1> QED
    BY <1>1, <1>2 DEF Init, NameInv, NoBlock

\* A linked chain of one agent's rounds is sound.
LEMMA LinkedSound ==
  ASSUME NameInv, OneAgent, Linked(file.lines)
  PROVE ChainSound(file.lines)
  <1>1. \A i \in 1..Len(file.lines) : Named(file.lines[i])
    BY DEF NameInv, Within
  <1>2. \A i, j \in 1..Len(file.lines) : file.lines[i].name = file.lines[j].name
    BY <1>1 DEF Named, OneAgent
  <1> QED
    BY <1>2 DEF Linked, ChainSound

\* ledger.py append: what it leaves behind verifies, and so the round it has reported
\* repairs what an earlier crash left, unless its line was buried.
THEOREM HealsCorrect == Spec => AppendHeals
  <1>1. Init => AfterInv
    BY DEF Init, AfterInv, Written
  <1>2. TypeInv /\ ChainInv /\ ClaimInv /\ AfterInv /\ NameInv /\ [Next]_vars =>
          [acked' # acked /\ ~file'.buried /\ OneAgent => VerifyPasses(file', cur')]_vars
    <2> SUFFICES ASSUME TypeInv, ChainInv, ClaimInv, AfterInv, NameInv, [Next]_vars,
                        acked' # acked, ~file'.buried, OneAgent
                 PROVE VerifyPasses(file', cur')
      OBVIOUS
    <2>1. PICK p \in Process : Finish(p)
      BY TellMoves DEF ReplaceCurrent, FinishRepair, PowerLoss
    <2>2. pc[p] = "current" /\ file' = file /\ cur' = cur
      BY <2>1 DEF Finish
    <2>3. /\ file.tail = <<>> /\ cur = out.hash
          /\ file.lines # <<>> /\ file.lines[Len(file.lines)].hash = out.hash
      BY <2>2 DEF AfterInv, ClaimInv, Written
    <2>4. ~Bare(file) /\ Rounds(file) = file.lines /\ Readable(file)
      BY <2>2, <2>3 DEF Bare, Rounds, Readable, Torn
    <2>5. ChainSound(file.lines)
      BY LinkedSound DEF ChainInv
    <2> QED
      BY <2>2, <2>3, <2>4, <2>5 DEF VerifyPasses, CurrentMatches, LastHash
  <1> QED
    BY TypeInit, ChainInit, PubInit, ClaimInit, NameInit, TypeStep, ChainStep, PubStep, ClaimStep,
       AfterStep, NameStep, <1>1, <1>2, PTL DEF Spec, AppendHeals

-----------------------------------------------------------------------------
(* A ledger nothing has happened to.                                       *)

\* Where nothing has gone wrong there is nothing to repair, the file ends in a newline
\* unless an append is at it, and STATE_CURRENT.json has its last round unless an
\* append is about to replace it.
Quiet ==
  /\ ~file.buried
  /\ \A p \in Process : pc[p] \notin {"repair", "saved", "cut", "repaired"}
  /\ (\A p \in Process : pc[p] \notin {"part", "whole"}) => file.tail = <<>>
  /\ \A p \in Process : /\ pc[p] = "part" => Len(file.tail) = 1
                        /\ pc[p] = "whole" => Bare(file)
  /\ (\A p \in Process : pc[p] \notin {"ended", "durable", "staged"}) => cur = LastHash(file.lines)

\* A step that meets no fault.
LEMMA NoFault ==
  ASSUME TypeInv, [Next]_vars, faults' = faults
  PROVE ~PowerLoss /\ \A p \in Process : ~Kill(p) /\ ~WriteError(p)
  <1>0. faults \in Nat
    BY DEF TypeInv, TypeOK
  <1>1. \A p \in Process : Kill(p) \/ WriteError(p) => faults' = faults + 1
    BY DEF Kill, WriteError, Fault
  <1>2. PowerLoss => faults' = faults + 1
    BY DEF PowerLoss, Fault
  <1> QED
    BY <1>0, <1>1, <1>2

\* The faults are counted.
LEMMA CountsFaults == TypeInv /\ [Next]_vars /\ faults' = 0 => faults = 0
  <1> SUFFICES ASSUME TypeInv, [Next]_vars, faults' = 0 PROVE faults = 0
    OBVIOUS
  <1>0. faults \in Nat
    BY DEF TypeInv, TypeOK
  <1>1. ASSUME NEW p \in Process, Request(p) \/ RepairBegin(p) \/ Verify(p) \/ Step(p) PROVE faults' = faults
    BY <1>1 DEF Step, Request, Derive, AppendRefuse, AppendBegin, WritePart, WriteRound, WriteNewline,
       Fsync, StageCurrent, ReplaceCurrent, Finish, RepairBegin, SaveFragment, StageRounds,
       ReplaceRounds, FinishRepair, Verify, VerifyUnreadable, VerifyRounds, VerifyCurrent
  <1>2. ASSUME NEW p \in Process, Kill(p) \/ WriteError(p) PROVE faults' = faults + 1
    BY <1>2 DEF Kill, WriteError, Fault
  <1>3. ASSUME PowerLoss PROVE faults' = faults + 1
    BY <1>3 DEF PowerLoss, Fault
  <1> QED
    BY <1>0, <1>1, <1>2, <1>3 DEF Next, vars

\* Without a fault no step leaves anything to repair.
LEMMA QuietStep ==
  ASSUME TypeInv, ClaimInv, Quiet, [Next]_vars, faults' = faults
  PROVE Quiet'
  <1>0. /\ file \in File /\ file.lines \in Seq(Wrapper) /\ file.tail \in Seq(Piece) /\ out \in Wrapper
        /\ pc \in [Process -> Pc]
        /\ \A p, q \in Process : pc[p] \in Critical /\ pc[q] \in Critical => p = q
        /\ \A p \in Process : lock = NoOne => pc[p] \notin Critical
    BY ProcessAssumption DEF TypeInv, TypeOK, LockInv, File
  <1>1. ~PowerLoss /\ \A p \in Process : ~Kill(p) /\ ~WriteError(p)
    BY NoFault
  <1>q. /\ ~file.buried
        /\ \A p \in Process : pc[p] \notin {"repair", "saved", "cut", "repaired"}
        /\ (\A p \in Process : pc[p] \notin {"part", "whole"}) => file.tail = <<>>
        /\ \A p \in Process : /\ pc[p] = "part" => Len(file.tail) = 1
                              /\ pc[p] = "whole" => Bare(file)
        /\ (\A p \in Process : pc[p] \notin {"ended", "durable", "staged"}) => cur = LastHash(file.lines)
    BY DEF Quiet
  \* A step that writes to no file, and enters and leaves none of the moments above.
  <1>2. ASSUME NEW p \in Process, UNCHANGED <<file, cur>>,
               \A q \in Process : pc'[q] = pc[q] \/
                  /\ pc'[q] \notin {"part", "whole", "repair", "saved", "cut", "repaired"}
                  /\ pc[q] \notin {"part", "whole"}
                  /\ pc[q] \in {"ended", "durable", "staged"} => pc'[q] \in {"ended", "durable", "staged"}
        PROVE Quiet'
    BY <1>2, <1>q DEF Quiet, Bare
  <1>3. ASSUME NEW p \in Process,
               \/ Request(p) \/ AppendRefuse(p) \/ AppendBegin(p) \/ Fsync(p) \/ StageCurrent(p)
               \/ Finish(p) \/ VerifyRounds(p) \/ VerifyCurrent(p)
        PROVE Quiet'
    <2>1. UNCHANGED <<file, cur>>
      BY <1>3 DEF Request, Derive, AppendRefuse, AppendBegin, Fsync, StageCurrent, Finish,
         VerifyRounds, VerifyCurrent
    <2>2. \A q \in Process : pc'[q] = pc[q] \/
             /\ pc'[q] \notin {"part", "whole", "repair", "saved", "cut", "repaired"}
             /\ pc[q] \notin {"part", "whole"}
             /\ pc[q] \in {"ended", "durable", "staged"} => pc'[q] \in {"ended", "durable", "staged"}
      BY <1>0, <1>3 DEF Request, Derive, AppendRefuse, AppendBegin, Fsync, StageCurrent, Finish,
         VerifyRounds, VerifyCurrent, Goto
    <2> QED
      BY <1>2, <2>1, <2>2
  <1>4. ASSUME NEW p \in Process, VerifyUnreadable(p) \/ UNCHANGED vars PROVE Quiet'
    <2>1. UNCHANGED <<file, cur, pc>>
      BY <1>4 DEF VerifyUnreadable, vars
    <2> QED
      BY <1>2, <2>1
  <1>5. ASSUME NEW p \in Process PROVE ~RepairBegin(p)
    <2>1. RepairBegin(p) => file.tail # <<>> /\ \A q \in Process : pc[q] \notin Critical
      BY <1>0 DEF RepairBegin, Torn
    <2> QED
      BY <1>q, <2>1 DEF Critical
  <1>6. ASSUME NEW p \in Process PROVE ~SaveFragment(p) /\ ~StageRounds(p) /\ ~ReplaceRounds(p) /\ ~FinishRepair(p)
    BY <1>q DEF SaveFragment, StageRounds, ReplaceRounds, FinishRepair
  <1>7. ASSUME NEW p \in Process, WritePart(p) PROVE Quiet'
    <2> DEFINE u == [of |-> out, whole |-> FALSE]
    <2>1. pc[p] = "opened" /\ \A q \in Process : pc'[q] = IF q = p THEN "part" ELSE pc[q]
      BY <1>0, <1>7 DEF WritePart, Goto
    <2>2. \A q \in Process : q # p => pc[q] \notin Critical
      BY <1>0, <2>1 DEF Critical
    <2>3. file.tail = <<>> /\ cur = LastHash(file.lines)
      BY <1>q, <2>1, <2>2 DEF Critical
    <2>4. /\ file'.lines = file.lines /\ file'.tail = Append(file.tail, u) /\ file'.buried = file.buried
          /\ cur' = cur
      BY <1>0, <1>7 DEF WritePart, File
    <2>5. u \in Piece
      BY <1>0 DEF Piece
    <2> HIDE DEF u
    <2>6. Len(file'.tail) = 1
      BY <1>0, <2>3, <2>4, <2>5
    <2> QED
      BY <1>q, <2>1, <2>2, <2>3, <2>4, <2>6 DEF Quiet, Critical
  <1>8. ASSUME NEW p \in Process, WriteRound(p) PROVE Quiet'
    <2> DEFINE u == [of |-> out, whole |-> TRUE]
    <2>1. pc[p] = "part" /\ \A q \in Process : pc'[q] = IF q = p THEN "whole" ELSE pc[q]
      BY <1>0, <1>8 DEF WriteRound, Goto
    <2>2. \A q \in Process : q # p => pc[q] \notin Critical
      BY <1>0, <2>1 DEF Critical
    <2>3. Len(file.tail) = 1 /\ cur = LastHash(file.lines)
      BY <1>q, <2>1, <2>2 DEF Critical
    <2>4. /\ file'.lines = file.lines /\ file'.tail = Append(SubSeq(file.tail, 1, Len(file.tail) - 1), u)
          /\ file'.buried = file.buried /\ cur' = cur
      BY <1>0, <1>8 DEF WriteRound, File
    <2>5. u \in Piece /\ u.whole
      BY <1>0 DEF Piece
    <2> HIDE DEF u
    <2>6. SubSeq(file.tail, 1, Len(file.tail) - 1) = <<>>
      BY <1>0, <2>3
    <2>7. Len(file'.tail) = 1 /\ file'.tail[1] = u
      BY <2>4, <2>5, <2>6
    <2>8. Bare(file')
      BY <2>5, <2>7 DEF Bare
    <2> QED
      BY <1>q, <2>1, <2>2, <2>3, <2>4, <2>8 DEF Quiet, Critical, Bare
  <1>9. ASSUME NEW p \in Process, WriteNewline(p) PROVE Quiet'
    <2>1. pc[p] = "whole" /\ \A q \in Process : pc'[q] = IF q = p THEN "ended" ELSE pc[q]
      BY <1>0, <1>9 DEF WriteNewline, Goto
    <2>2. \A q \in Process : q # p => pc[q] \notin Critical
      BY <1>0, <2>1 DEF Critical
    <2>3. file' = [lines |-> Append(file.lines, out), tail |-> <<>>, buried |-> FALSE]
      BY <1>9, <1>q, <2>1 DEF WriteNewline
    <2>4. file'.tail = <<>> /\ ~file'.buried
      BY <2>3
    <2> QED
      BY <1>q, <2>1, <2>2, <2>4 DEF Quiet, Critical
  <1>10. ASSUME NEW p \in Process, ReplaceCurrent(p) PROVE Quiet'
    <2>1. pc[p] = "staged" /\ \A q \in Process : pc'[q] = IF q = p THEN "current" ELSE pc[q]
      BY <1>0, <1>10 DEF ReplaceCurrent, Goto
    <2>2. \A q \in Process : q # p => pc[q] \notin Critical
      BY <1>0, <2>1 DEF Critical
    <2>3. file' = file /\ cur' = out.hash
      BY <1>10 DEF ReplaceCurrent
    <2>4. file.tail = <<>>
      BY <1>q, <2>1, <2>2 DEF Critical
    <2>5. LastHash(file.lines) = out.hash
      BY <1>q, <2>1 DEF ClaimInv, Written, LastHash
    <2> QED
      BY <1>q, <2>1, <2>2, <2>3, <2>4, <2>5 DEF Quiet, Critical
  <1> QED
    BY <1>1, <1>3, <1>4, <1>5, <1>6, <1>7, <1>8, <1>9, <1>10, ProcessAssumption DEF Next, Step, Verify

\* A quiet ledger nobody writes to verifies.
LEMMA QuietPasses ==
  ASSUME ChainInv, NameInv, Quiet, OneAgent, \A p \in Process : pc[p] \notin Critical
  PROVE /\ Rounds(file) = file.lines /\ Readable(file)
        /\ ChainSound(file.lines) /\ CurrentMatches(LastHash(file.lines), cur)
        /\ VerifyPasses(file, cur)
  <1>1. file.tail = <<>> /\ ~file.buried /\ cur = LastHash(file.lines)
    BY DEF Quiet, Critical
  <1>2. ~Bare(file) /\ Rounds(file) = file.lines /\ Readable(file)
    BY <1>1 DEF Bare, Rounds, Readable, Torn
  <1>3. ChainSound(file.lines)
    BY LinkedSound DEF ChainInv
  <1> QED
    BY <1>1, <1>2, <1>3 DEF VerifyPasses, CurrentMatches

\* As long as nothing has failed.
QuietInv == faults = 0 => Quiet

\* A ledger on which nothing has failed stays quiet.
LEMMA QuietInvStep == TypeInv /\ ClaimInv /\ QuietInv /\ [Next]_vars => QuietInv'
  BY CountsFaults, QuietStep DEF QuietInv

\* ledger.py verify, of a ledger on which nothing has failed and no append is under way:
\* it passes, whoever derived and appended, in whatever order and with whatever flags.
THEOREM QuietCorrect == Spec => []QuietVerifies
  <1>1. Init => QuietInv
    BY DEF Init, QuietInv, Quiet, EmptyFile, LastHash
  <1>2. TypeInv /\ ChainInv /\ NameInv /\ QuietInv => QuietVerifies
    <2> SUFFICES ASSUME TypeInv, ChainInv, NameInv, QuietInv, faults = 0, lock = NoOne, OneAgent
                 PROVE VerifyPasses(file, cur)
      BY DEF QuietVerifies
    <2>1. \A p \in Process : pc[p] \notin Critical
      BY ProcessAssumption DEF TypeInv, LockInv
    <2> QED
      BY <2>1, QuietPasses DEF QuietInv
  <1> QED
    BY TypeInit, ChainInit, PubInit, ClaimInit, NameInit, TypeStep, ChainStep, PubStep, ClaimStep,
       NameStep, QuietInvStep, <1>1, <1>2, PTL DEF Spec

-----------------------------------------------------------------------------
(* What a verify has read.                                                 *)

\* Without a loss of power lines are only added, by an append whose round is all there
\* is after the last newline.
LEMMA LinesGrow ==
  ASSUME TypeInv, ChainInv, [Next]_vars, ~PowerLoss
  PROVE \/ file'.lines = file.lines
        \/ /\ \E p \in Process : pc[p] = "whole"
           /\ file.tail # <<>> /\ file.tail[1].of = out
           /\ file' = [lines |-> Append(file.lines, out), tail |-> <<>>, buried |-> FALSE]
  <1>0. file \in File
    BY DEF TypeInv, TypeOK
  <1>1. ASSUME NEW p \in Process, WritePart(p) \/ WriteRound(p) \/ Fsync(p) \/ ReplaceRounds(p)
        PROVE file'.lines = file.lines
    BY <1>0, <1>1 DEF WritePart, WriteRound, Fsync, ReplaceRounds, File
  <1>2. ASSUME NEW p \in Process, WriteNewline(p)
        PROVE \/ file'.lines = file.lines
              \/ /\ pc[p] = "whole"
                 /\ file.tail # <<>> /\ file.tail[1].of = out
                 /\ file' = [lines |-> Append(file.lines, out), tail |-> <<>>, buried |-> FALSE]
    <2>1. CASE Bare(file)
      <3>1. Len(file.tail) = 1 /\ file.tail # <<>> /\ file.tail[Len(file.tail)].of = out
        BY <1>2, <2>1 DEF Bare, WriteNewline, ChainInv
      <3> QED
        BY <1>2, <2>1, <3>1 DEF WriteNewline
    <2>2. CASE ~Bare(file)
      BY <1>0, <1>2, <2>2 DEF WriteNewline, File
    <2> QED
      BY <2>1, <2>2
  <1> QED
    BY <1>1, <1>2, FileMoves

\* What becomes of the first piece after the last newline.
LEMMA FirstPiece ==
  ASSUME TypeInv, ChainInv, [Next]_vars, ~PowerLoss, file'.tail # <<>>
  PROVE /\ file'.lines = file.lines
        /\ \/ file.tail # <<>> /\ file'.tail[1].of = file.tail[1].of
           \/ (\E p \in Process : pc[p] = "opened" /\ pc'[p] = "part") /\ file'.tail[1].of = out
  <1>0. /\ file \in File /\ file.tail \in Seq(Piece) /\ Len(file.tail) \in Nat /\ out \in Wrapper
        /\ pc \in [Process -> Pc]
    BY DEF TypeInv, TypeOK, File
  <1>1. CASE file' = file
    BY <1>1
  <1>2. ASSUME NEW p \in Process, WritePart(p)
        PROVE /\ file'.lines = file.lines
              /\ \/ file.tail # <<>> /\ file'.tail[1].of = file.tail[1].of
                 \/ (pc[p] = "opened" /\ pc'[p] = "part") /\ file'.tail[1].of = out
    <2> DEFINE u == [of |-> out, whole |-> FALSE]
    <2>1. file'.lines = file.lines /\ file'.tail = Append(file.tail, u)
      BY <1>0, <1>2 DEF WritePart, File
    <2>2. u \in Piece /\ u.of = out
      BY <1>0 DEF Piece
    <2> HIDE DEF u
    <2>3. IF file.tail = <<>> THEN file'.tail[1] = u ELSE file'.tail[1] = file.tail[1]
      BY <1>0, <2>1, <2>2
    <2>4. pc[p] = "opened" /\ pc'[p] = "part"
      BY <1>0, <1>2 DEF WritePart, Goto
    <2> QED
      BY <2>1, <2>2, <2>3, <2>4
  <1>3. ASSUME NEW p \in Process, WriteRound(p)
        PROVE file'.lines = file.lines /\ file.tail # <<>> /\ file'.tail[1].of = file.tail[1].of
    <2> DEFINE u == [of |-> out, whole |-> TRUE]
               t == SubSeq(file.tail, 1, Len(file.tail) - 1)
    <2>1. file'.lines = file.lines /\ file'.tail = Append(t, u)
      BY <1>0, <1>3 DEF WriteRound, File
    <2>2. u \in Piece /\ u.of = out
      BY <1>0 DEF Piece
    <2>3. file.tail # <<>> /\ file.tail[Len(file.tail)].of = out
      BY <1>3 DEF WriteRound, ChainInv
    <2>4. t \in Seq(Piece) /\ Len(t) = Len(file.tail) - 1 /\ (Len(t) > 0 => t[1] = file.tail[1])
      BY <1>0, <2>3
    <2> HIDE DEF u, t
    <2>5. IF Len(t) > 0 THEN file'.tail[1] = t[1] ELSE file'.tail[1] = u
      BY <2>1, <2>2, <2>4
    <2>6. Len(t) > 0 \/ Len(file.tail) = 1
      <3>1. \A n \in Nat : n = 0 \/ n = 1 \/ n - 1 > 0
        OBVIOUS
      <3>2. Len(file.tail) \in Nat /\ Len(file.tail) # 0
        BY <1>0, <2>3, EmptySeq
      <3> QED
        BY <2>4, <3>1, <3>2
    <2> QED
      BY <2>1, <2>2, <2>3, <2>4, <2>5, <2>6
  <1>4. ASSUME NEW p \in Process, WriteNewline(p)
        PROVE file'.lines = file.lines /\ file.tail # <<>> /\ file'.tail[1].of = file.tail[1].of
    <2>1. ~Bare(file)
      BY <1>4 DEF WriteNewline
    <2>2. file'.lines = file.lines /\ file'.tail = file.tail
      BY <1>0, <1>4, <2>1 DEF WriteNewline, File
    <2> QED
      BY <2>2
  <1>5. ASSUME NEW p \in Process PROVE ~ReplaceRounds(p)
    BY <1>0 DEF ReplaceRounds, File
  <1>6. \A p \in Process : Fsync(p) => file' = file
    BY DEF Fsync
  <1> QED
    BY <1>1, <1>2, <1>3, <1>4, <1>5, <1>6, FileMoves

Unopened == {"waiting", "opened"}

\* Every round in rounds.jsonl has the digest of a request; the first piece after the
\* last newline is of none of the lines, and no piece is of an append that has not
\* begun to write.
TailInv ==
  /\ \A w \in Within(file) : w.hash \in 1..started
  /\ file.tail # <<>> => file.tail[1].of.hash \notin Hashes(file.lines)
  /\ \A q \in Process : pc[q] \in Unopened =>
       \A i \in 1..Len(file.tail) : file.tail[i].of.hash # Claimed(q)

\* An append that has not begun to write had not before the step.
LEMMA UnopenedMoves ==
  ASSUME TypeInv, [Next]_vars, NEW q \in Process, pc'[q] \in Unopened
  PROVE /\ ~PowerLoss
        /\ \/ pc[q] \in Unopened /\ Claimed(q)' = Claimed(q)
           \/ Claimed(q)' = started + 1 /\ started' = started + 1 /\ file' = file
  <1>0. pc \in [Process -> Pc]
    BY DEF TypeInv, TypeOK
  <1>1. ~PowerLoss
    BY DEF PowerLoss, Unopened
  <1>2. CASE pc[q] \in Unopened
    <2>1. Claims(q)'
      BY DEF Claims, Unopened, Unwritten
    <2>2. CASE Claimed(q)' = Claimed(q)
      BY <1>1, <1>2, <2>2
    <2>3. CASE Claimed(q)' = started + 1 /\ started' = started + 1
      <3>1. ASSUME NEW p \in Process, NEW m \in Modes, NEW t \in Task, Derive(p, m, t) PROVE file' = file
        BY <3>1 DEF Derive
      <3>2. (\A p \in Process : ~Request(p)) => started' = started
        BY <1>1 DEF Next, Step, AppendRefuse, AppendBegin, WritePart, WriteRound, WriteNewline, Fsync,
           StageCurrent, ReplaceCurrent, Finish, RepairBegin, SaveFragment, StageRounds,
           ReplaceRounds, FinishRepair, Verify, VerifyUnreadable, VerifyRounds, VerifyCurrent, Kill,
           WriteError, vars
      <3>3. started \in Nat
        BY DEF TypeInv, TypeOK
      <3> QED
        BY <1>1, <2>3, <3>1, <3>2, <3>3 DEF Request
    <2> QED
      BY <2>1, <2>2, <2>3, ClaimMoves
  <1>3. CASE pc[q] \notin Unopened
    <2>1. pc'[q] # pc[q]
      BY <1>3
    <2>2. pc'[q] = "waiting"
      BY <1>3, <2>1, Arrives DEF AppendBegin, Unopened
    <2>3. PICK m \in Modes, t \in Task : Derive(q, m, t)
      BY <2>1, <2>2, Arrives
    <2>4. block'[q].id = started + 1 /\ started' = started + 1 /\ file' = file
      BY <2>3 DEF Derive, TypeInv, TypeOK
    <2> QED
      BY <1>1, <2>2, <2>4 DEF Claimed
  <1> QED
    BY <1>2, <1>3

\* Every step keeps the digests of rounds.jsonl those of requests.
LEMMA TailStep == TypeInv /\ ChainInv /\ ClaimInv /\ TailInv /\ [Next]_vars => TailInv'
  <1> SUFFICES ASSUME TypeInv, ChainInv, ClaimInv, TailInv, [Next]_vars PROVE TailInv'
    OBVIOUS
  <1>0. /\ file \in File /\ file.lines \in Seq(Wrapper) /\ file.tail \in Seq(Piece)
        /\ out \in Wrapper /\ started \in Nat /\ started' \in {started, started + 1}
        /\ \A p, q \in Process : pc[p] \in Critical /\ pc[q] \in Critical => p = q
    <2>1. started' \in {started, started + 1}
      BY DEF Next, Step, Request, Derive, AppendRefuse, AppendBegin, WritePart,
         WriteRound, WriteNewline, Fsync, StageCurrent, ReplaceCurrent, Finish, RepairBegin,
         SaveFragment, StageRounds, ReplaceRounds, FinishRepair, Verify, VerifyUnreadable,
         VerifyRounds, VerifyCurrent, Kill, WriteError, PowerLoss, vars
    <2> QED
      BY <2>1 DEF TypeInv, TypeOK, LockInv, File
  <1>o. ASSUME NEW p \in Process, pc[p] \in Unwritten
        PROVE Claims(p) /\ Claimed(p) = out.hash /\ out.hash \in 1..started /\ out.hash \notin Hashes(file.lines)
    <2>1. Claims(p) /\ Claimed(p) = out.hash
      BY <1>o DEF Claims, Claimed, Unwritten
    <2> QED
      BY <2>1 DEF ClaimInv
  <1>1. \A w \in Within(file') : w.hash \in 1..started'
    <2>1. \A w \in Within(file') : w \in Within(file) \/ (w = out /\ \E p \in Process : pc[p] \in Unwritten)
      BY WithinStep
    <2>2. \A w \in Within(file') : w.hash \in 1..started
      BY <1>o, <2>1 DEF TailInv
    <2> QED
      BY <1>0, <2>2
  <1>2. ASSUME file'.tail # <<>> PROVE file'.tail[1].of.hash \notin Hashes(file'.lines)
    <2>1. CASE ~PowerLoss
      <3>1. CASE file.tail # <<>> /\ file'.tail[1].of = file.tail[1].of
        BY <1>2, <2>1, <3>1, FirstPiece DEF TailInv
      <3>2. ASSUME NEW p \in Process, pc[p] = "opened", file'.tail[1].of = out
            PROVE file'.tail[1].of.hash \notin Hashes(file'.lines)
        BY <1>2, <1>o, <2>1, <3>2, FirstPiece DEF Unwritten
      <3> QED
        BY <1>2, <2>1, <3>1, <3>2, FirstPiece
    <2>2. CASE PowerLoss
      <3>1. CutFile
        BY <2>2 DEF PowerLoss
      <3>2. CASE file' = file
        BY <1>2, <3>2 DEF TailInv
      <3>3. ASSUME NEW k \in 1..Len(file.lines),
                   NEW t \in PieceCuts(<<[of |-> file.lines[k], whole |-> TRUE]>>),
                   file' = [lines |-> SubSeq(file.lines, 1, k - 1), tail |-> t, buried |-> FALSE]
            PROVE file'.tail[1].of.hash \notin Hashes(file'.lines)
        <4> DEFINE u == <<[of |-> file.lines[k], whole |-> TRUE]>>
        <4>1. u \in Seq(Piece) /\ u[1].of = file.lines[k] /\ t \in PieceCuts(u) /\ file'.tail = t
          BY <1>0, <3>3 DEF Piece
        <4> HIDE DEF u
        <4>2. file'.tail[1].of = file.lines[k]
          BY <1>2, <4>1, PieceCutsFirst
        <4>3. \A i \in 1..Len(file'.lines) : i \in 1..Len(file.lines) /\ i # k /\ file'.lines[i] = file.lines[i]
          BY <1>0, <3>3
        <4>4. \A i \in 1..Len(file'.lines) : file'.lines[i].hash # file.lines[k].hash
          BY <4>3 DEF ClaimInv
        <4> QED
          BY <4>2, <4>4 DEF Hashes
      <3>4. ASSUME NEW t \in PieceCuts(file.tail), file' = [file EXCEPT !.tail = t, !.buried = FALSE]
            PROVE file'.tail[1].of.hash \notin Hashes(file'.lines)
        <4>1. file'.lines = file.lines /\ file'.tail = t
          BY <1>0, <3>4 DEF File
        <4>2. file.tail # <<>> /\ t[1].of = file.tail[1].of
          BY <1>0, <1>2, <4>1, PieceCutsFirst
        <4> QED
          BY <4>1, <4>2 DEF TailInv
      <3> QED
        BY <3>1, <3>2, <3>3, <3>4 DEF CutFile
    <2> QED
      BY <2>1, <2>2
  <1>3. ASSUME NEW q \in Process, pc'[q] \in Unopened, NEW i \in 1..Len(file'.tail)
        PROVE file'.tail[i].of.hash # Claimed(q)'
    <2>1. ~PowerLoss
      BY <1>3, UnopenedMoves
    <2>2. file'.tail[i].of \in Within(file')
      BY DEF Within
    <2>3. CASE Claimed(q)' = started + 1 /\ started' = started + 1 /\ file' = file
      BY <1>0, <2>2, <2>3 DEF TailInv
    <2>4. CASE pc[q] \in Unopened /\ Claimed(q)' = Claimed(q)
      <3>1. CASE \E j \in 1..Len(file.tail) : file'.tail[i].of = file.tail[j].of
        BY <2>4, <3>1 DEF TailInv
      <3>2. ASSUME NEW p \in Process, pc[p] \in Unwritten, p # q, file'.tail[i].of = out
            PROVE file'.tail[i].of.hash # Claimed(q)'
        <4>1. Claims(q)
          BY <2>4 DEF Claims, Unopened, Unwritten
        <4> QED
          BY <1>o, <2>4, <3>2, <4>1 DEF ClaimInv
      <3>3. ASSUME NEW p \in Process, WritePart(p)
            PROVE \/ \E j \in 1..Len(file.tail) : file'.tail[i].of = file.tail[j].of
                  \/ pc[p] \in Unwritten /\ p # q /\ file'.tail[i].of = out
        <4> DEFINE u == [of |-> out, whole |-> FALSE]
        <4>1. file'.tail = Append(file.tail, u)
          BY <1>0, <3>3 DEF WritePart, File
        <4>2. u \in Piece /\ u.of = out
          BY <1>0 DEF Piece
        <4> HIDE DEF u
        <4>3. file'.tail[i] = u \/ (i \in 1..Len(file.tail) /\ file'.tail[i] = file.tail[i])
          BY <1>0, <4>1, <4>2
        <4>4. pc[p] \in Unwritten /\ p # q
          BY <1>3, <3>3 DEF WritePart, Goto, Unwritten, Unopened, TypeInv, TypeOK
        <4> QED
          BY <4>2, <4>3, <4>4
      <3>4. ASSUME NEW p \in Process, WriteRound(p)
            PROVE \/ \E j \in 1..Len(file.tail) : file'.tail[i].of = file.tail[j].of
                  \/ pc[p] \in Unwritten /\ p # q /\ file'.tail[i].of = out
        <4> DEFINE u == [of |-> out, whole |-> TRUE]
                   t == SubSeq(file.tail, 1, Len(file.tail) - 1)
        <4>1. file'.tail = Append(t, u)
          BY <1>0, <3>4 DEF WriteRound, File
        <4>2. u \in Piece /\ u.of = out
          BY <1>0 DEF Piece
        <4>3. t \in Seq(Piece) /\ \A j \in 1..Len(t) : j \in 1..Len(file.tail) /\ t[j] = file.tail[j]
          BY <1>0
        <4> HIDE DEF u, t
        <4>4. file'.tail[i] = u \/ (i \in 1..Len(t) /\ file'.tail[i] = t[i])
          BY <4>1, <4>2, <4>3
        <4>5. pc[p] \in Unwritten /\ p # q
          BY <1>3, <3>4 DEF WriteRound, Goto, Unwritten, Unopened, TypeInv, TypeOK
        <4> QED
          BY <4>2, <4>3, <4>4, <4>5
      <3>5. CASE file' = file
        BY <3>1, <3>5
      <3>6. ASSUME NEW p \in Process, WriteNewline(p) PROVE file'.tail = file.tail \/ Len(file'.tail) = 0
        BY <1>0, <3>6 DEF WriteNewline, File
      <3>7. ASSUME NEW p \in Process, ReplaceRounds(p) PROVE Len(file'.tail) = 0
        BY <1>0, <3>7 DEF ReplaceRounds, File
      <3>8. \A p \in Process : Fsync(p) => file' = file
        BY DEF Fsync
      <3> QED
        BY <2>1, <3>1, <3>2, <3>3, <3>4, <3>5, <3>6, <3>7, <3>8, FileMoves
    <2> QED
      BY <1>3, <2>3, <2>4, UnopenedMoves
  <1> QED
    BY <1>1, <1>2, <1>3 DEF TailInv

\* For a verify that has read rounds.jsonl: what it computed is what it would compute
\* of the rounds up to the one it read last, wherever that is now, and that one is of
\* no append still to come.
SeenInv ==
  \A p \in Process : pc[p] = "verify" =>
    /\ seen[p].last \in 0..started
    /\ seen[p].last = 0 => seen[p].sound
    /\ \A i \in 1..Len(file.lines) : file.lines[i].hash = seen[p].last =>
         (seen[p].sound <=> ChainSound(SubSeq(file.lines, 1, i)))
    /\ file.tail # <<>> /\ file.tail[1].of.hash = seen[p].last =>
         (seen[p].sound <=> ChainSound(Append(file.lines, file.tail[1].of)))
    /\ \A q \in Process : pc[q] \in Unopened => Claimed(q) # seen[p].last

\* Nothing changes what a verify has read but the verify itself.
LEMMA SeenMoves ==
  ASSUME TypeInv, [Next]_vars, NEW p \in Process, pc[p] = "verify"
  PROVE \/ pc'[p] = "verify" /\ seen'[p] = seen[p] /\ ~PowerLoss
        \/ pc'[p] = "idle" /\ (VerifyCurrent(p) \/ faults' = faults + 1)
  <1>0. /\ pc \in [Process -> Pc]
        /\ seen \in [Process -> [sound : BOOLEAN, last : Digest]]
    BY DEF TypeInv, TypeOK
  <1>1. ASSUME NEW q \in Process, q # p,
               Request(q) \/ RepairBegin(q) \/ Verify(q) \/ Step(q) \/ Kill(q) \/ WriteError(q)
        PROVE pc'[p] = "verify" /\ seen'[p] = seen[p]
    <2>1. CASE Request(q) \/ RepairBegin(q) \/ Verify(q) \/ Kill(q) \/ WriteError(q)
      BY <1>0, <1>1, <2>1 DEF Request, Derive, RepairBegin, Verify, VerifyUnreadable, VerifyRounds,
         Kill, WriteError, Goto
    <2>2. CASE Step(q)
      BY <1>0, <1>1, <2>2 DEF Step, AppendRefuse, AppendBegin, WritePart, WriteRound, WriteNewline,
         Fsync, StageCurrent, ReplaceCurrent, Finish, SaveFragment, StageRounds, ReplaceRounds,
         FinishRepair, VerifyCurrent, Goto
    <2> QED
      BY <1>1, <2>1, <2>2
  <1>2. ASSUME Request(p) \/ RepairBegin(p) \/ Verify(p) \/ Step(p) \/ Kill(p) \/ WriteError(p)
        PROVE pc'[p] = "idle" /\ (VerifyCurrent(p) \/ faults' = faults + 1)
    <2>1. VerifyCurrent(p) \/ Kill(p)
      BY <1>2 DEF Request, Derive, RepairBegin, Verify, VerifyUnreadable, VerifyRounds,
         WriteError, Step, AppendRefuse, AppendBegin, WritePart, WriteRound, WriteNewline,
         Fsync, StageCurrent, ReplaceCurrent, Finish, SaveFragment, StageRounds, ReplaceRounds,
         FinishRepair
    <2> QED
      BY <1>0, <2>1 DEF VerifyCurrent, Kill, Goto, Fault
  <1>3. ASSUME PowerLoss PROVE pc'[p] = "idle" /\ faults' = faults + 1
    BY <1>3 DEF PowerLoss, Fault
  <1>4. CASE PowerLoss
    BY <1>3, <1>4
  <1>5. CASE ~PowerLoss
    BY <1>1, <1>2, <1>5 DEF Next, vars
  <1> QED
    BY <1>4, <1>5

\* The rounds a verify reads, and their last digest.
LEMMA RoundsRead ==
  ASSUME TypeInv, TailInv, Readable(file)
  PROVE /\ \/ /\ file.tail = <<>> /\ Rounds(file) = file.lines
              /\ LastHash(Rounds(file)) = IF file.lines = <<>> THEN 0 ELSE file.lines[Len(file.lines)].hash
           \/ /\ file.tail # <<>> /\ Rounds(file) = Append(file.lines, file.tail[1].of)
              /\ LastHash(Rounds(file)) = file.tail[1].of.hash
        /\ LastHash(Rounds(file)) \in 0..started
        /\ LastHash(Rounds(file)) = 0 => Rounds(file) = <<>>
  <1>0. /\ file.lines \in Seq(Wrapper) /\ file.tail \in Seq(Piece) /\ started \in Nat
    BY DEF TypeInv, TypeOK, File
  <1>1. CASE Bare(file)
    <2>1. file.tail # <<>> /\ 1 \in 1..Len(file.tail)
      BY <1>1 DEF Bare
    <2>2. file.tail[1].of \in Within(file) /\ file.tail[1].of \in Wrapper
      <3>1. file.tail[1] \in Piece
        BY <1>0, <2>1, ElementOfSeq
      <3> QED
        BY <2>1, <3>1 DEF Within, Piece
    <2>3. Rounds(file) = Append(file.lines, file.tail[1].of)
      BY <1>1 DEF Rounds
    <2>4. LastHash(Rounds(file)) = file.tail[1].of.hash
      BY <1>0, <2>2, <2>3 DEF LastHash
    <2> QED
      BY <1>0, <2>1, <2>2, <2>3, <2>4 DEF TailInv
  <1>2. CASE ~Bare(file)
    <2>1. file.tail = <<>> /\ Rounds(file) = file.lines
      BY <1>2 DEF Readable, Torn, Rounds
    <2>2. CASE file.lines = <<>>
      BY <1>0, <2>1, <2>2 DEF LastHash
    <2>3. CASE file.lines # <<>>
      <3>1. file.lines[Len(file.lines)] \in Within(file)
        BY <1>0, <2>3 DEF Within
      <3> QED
        BY <1>0, <2>1, <2>3, <3>1 DEF LastHash, TailInv
    <2> QED
      BY <2>2, <2>3
  <1> QED
    BY <1>1, <1>2

\* A chain of nothing is sound.
LEMMA NothingSound == ChainSound(<<>>)
  BY DEF ChainSound

\* Every step keeps what a verify has read true of the rounds it read.
LEMMA SeenStep == TypeInv /\ ChainInv /\ ClaimInv /\ TailInv /\ SeenInv /\ [Next]_vars => SeenInv'
  <1> SUFFICES ASSUME TypeInv, ChainInv, ClaimInv, TailInv, SeenInv, [Next]_vars,
                      NEW p \in Process, pc'[p] = "verify"
               PROVE /\ seen'[p].last \in 0..started'
                     /\ seen'[p].last = 0 => seen'[p].sound
                     /\ \A i \in 1..Len(file'.lines) : file'.lines[i].hash = seen'[p].last =>
                          (seen'[p].sound <=> ChainSound(SubSeq(file'.lines, 1, i)))
                     /\ file'.tail # <<>> /\ file'.tail[1].of.hash = seen'[p].last =>
                          (seen'[p].sound <=> ChainSound(Append(file'.lines, file'.tail[1].of)))
                     /\ \A q \in Process : pc'[q] \in Unopened => Claimed(q)' # seen'[p].last
    BY DEF SeenInv
  <1>0. /\ file.lines \in Seq(Wrapper) /\ Len(file.lines) \in Nat /\ file.tail \in Seq(Piece)
        /\ out \in Wrapper /\ started \in Nat /\ started' \in {started, started + 1}
        /\ pc \in [Process -> Pc]
        /\ seen \in [Process -> [sound : BOOLEAN, last : Digest]]
    <2>1. started' \in {started, started + 1}
      BY DEF Next, Step, Request, Derive, AppendRefuse, AppendBegin, WritePart,
         WriteRound, WriteNewline, Fsync, StageCurrent, ReplaceCurrent, Finish, RepairBegin,
         SaveFragment, StageRounds, ReplaceRounds, FinishRepair, Verify, VerifyUnreadable,
         VerifyRounds, VerifyCurrent, Kill, WriteError, PowerLoss, vars
    <2> QED
      BY <2>1 DEF TypeInv, TypeOK, File
  <1>1. CASE pc[p] = "verify"
    <2>1. seen'[p] = seen[p] /\ ~PowerLoss
      BY <1>1, SeenMoves
    <2> DEFINE last == seen[p].last
               sound == seen[p].sound
    <2>2. /\ last \in 0..started
          /\ last = 0 => sound
          /\ \A i \in 1..Len(file.lines) : file.lines[i].hash = last =>
               (sound <=> ChainSound(SubSeq(file.lines, 1, i)))
          /\ file.tail # <<>> /\ file.tail[1].of.hash = last =>
               (sound <=> ChainSound(Append(file.lines, file.tail[1].of)))
          /\ \A q \in Process : pc[q] \in Unopened => Claimed(q) # last
      BY <1>1 DEF SeenInv
    <2>3. seen'[p].last = last /\ (seen'[p].sound <=> sound)
      BY <2>1
    <2> HIDE DEF last, sound
    <2>4. ASSUME NEW i \in 1..Len(file'.lines), file'.lines[i].hash = last
          PROVE sound <=> ChainSound(SubSeq(file'.lines, 1, i))
      <3>1. CASE file'.lines = file.lines
        BY <2>2, <2>4, <3>1
      <3>2. CASE /\ file.tail # <<>> /\ file.tail[1].of = out
                 /\ file' = [lines |-> Append(file.lines, out), tail |-> <<>>, buried |-> FALSE]
        <4>1. file'.lines = Append(file.lines, out)
          BY <3>2
        <4>2. CASE i = Len(file.lines) + 1
          <5>1. file'.lines[i] = out /\ SubSeq(file'.lines, 1, i) = Append(file.lines, out)
            BY <1>0, <4>1, <4>2
          <5> QED
            BY <2>2, <2>4, <3>2, <5>1
        <4>3. CASE i # Len(file.lines) + 1
          <5>1. /\ i \in 1..Len(file.lines) /\ file'.lines[i] = file.lines[i]
                /\ SubSeq(file'.lines, 1, i) = SubSeq(file.lines, 1, i)
            BY <1>0, <4>1, <4>3
          <5> QED
            BY <2>2, <2>4, <5>1
        <4> QED
          BY <4>2, <4>3
      <3> QED
        BY <2>1, <3>1, <3>2, LinesGrow
    <2>5. ASSUME file'.tail # <<>>, file'.tail[1].of.hash = last
          PROVE sound <=> ChainSound(Append(file'.lines, file'.tail[1].of))
      <3>1. file'.lines = file.lines
        BY <2>1, <2>5, FirstPiece
      <3>2. ASSUME NEW q \in Process, pc[q] = "opened" PROVE out.hash # last
        BY <2>2, <3>2 DEF Unopened, Claimed
      <3>3. file.tail # <<>> /\ file'.tail[1].of = file.tail[1].of
        BY <2>1, <2>5, <3>2, FirstPiece
      <3> QED
        BY <2>2, <2>5, <3>1, <3>3
    <2>6. ASSUME NEW q \in Process, pc'[q] \in Unopened PROVE Claimed(q)' # last
      BY <1>0, <2>2, <2>6, UnopenedMoves
    <2> QED
      BY <1>0, <2>2, <2>3, <2>4, <2>5, <2>6
  <1>2. CASE pc[p] # "verify"
    <2>1. VerifyRounds(p)
      BY <1>2, Arrives
    <2>2. Readable(file) /\ file' = file /\ started' = started
      BY <2>1 DEF VerifyRounds
    <2> DEFINE rounds == Rounds(file)
    <2>3. seen'[p].last = LastHash(rounds) /\ (seen'[p].sound <=> ChainSound(rounds))
      BY <1>0, <2>1 DEF VerifyRounds
    <2>4. /\ LastHash(rounds) \in 0..started
          /\ LastHash(rounds) = 0 => ChainSound(rounds)
      BY <2>2, RoundsRead, NothingSound
    <2>5. ASSUME NEW i \in 1..Len(file.lines), file.lines[i].hash = LastHash(rounds)
          PROVE SubSeq(file.lines, 1, i) = rounds
      <3>1. CASE file.tail = <<>>
        <4>1. rounds = file.lines /\ file.lines # <<>> /\ LastHash(rounds) = file.lines[Len(file.lines)].hash
          BY <1>0, <2>2, <3>1, RoundsRead
        <4>2. i = Len(file.lines)
          BY <1>0, <2>5, <4>1 DEF ClaimInv
        <4> QED
          BY <1>0, <4>1, <4>2
      <3>2. CASE file.tail # <<>>
        <4>1. LastHash(rounds) = file.tail[1].of.hash
          BY <2>2, <3>2, RoundsRead
        <4> QED
          BY <2>5, <3>2, <4>1 DEF TailInv, Hashes
      <3> QED
        BY <3>1, <3>2
    <2>6. file.tail # <<>> => rounds = Append(file.lines, file.tail[1].of)
      BY <2>2, RoundsRead
    <2>7. ASSUME NEW q \in Process, pc'[q] \in Unopened PROVE Claimed(q)' # LastHash(rounds)
      <3>1. CASE pc[q] \in Unopened /\ Claimed(q)' = Claimed(q)
        <4>1. Claims(q)
          BY <3>1 DEF Claims, Unopened, Unwritten
        <4>2. Claimed(q) \notin Hashes(file.lines) /\ Claimed(q) # 0
          BY <1>0, <4>1 DEF ClaimInv
        <4>3. CASE file.tail = <<>>
          <5>1. LastHash(rounds) = 0 \/ LastHash(rounds) \in Hashes(file.lines)
            BY <1>0, <2>2, <4>3, RoundsRead DEF Hashes
          <5> QED
            BY <3>1, <4>2, <5>1
        <4>4. CASE file.tail # <<>>
          <5>1. LastHash(rounds) = file.tail[1].of.hash /\ 1 \in 1..Len(file.tail)
            BY <1>0, <2>2, <4>4, RoundsRead
          <5> QED
            BY <3>1, <5>1 DEF TailInv
        <4> QED
          BY <4>3, <4>4
      <3>2. CASE Claimed(q)' = started + 1
        BY <1>0, <2>4, <3>2
      <3> QED
        BY <2>7, <3>1, <3>2, UnopenedMoves
    <2> HIDE DEF rounds
    <2> QED
      BY <2>2, <2>3, <2>4, <2>5, <2>6, <2>7
  <1> QED
    BY <1>1, <1>2

\* ledger.py verify, which reads rounds.jsonl and STATE_CURRENT.json at two moments
\* without the lock: where the round it read last is the last one still, what it says is
\* true of both files at the second moment.
THEOREM VerdictCorrect == Spec => VerdictHolds
  <1>1. Init => TailInv /\ SeenInv
    <2> SUFFICES ASSUME Init PROVE TailInv /\ SeenInv
      OBVIOUS
    <2>1. Within(file) = {} /\ file.tail = <<>>
      BY DEF Init, EmptyFile, Within
    <2>2. \A p \in Process : pc[p] = "idle"
      BY DEF Init
    <2> QED
      BY <2>1, <2>2 DEF TailInv, SeenInv, Unopened
  <1>2. ASSUME TypeInv, TailInv, SeenInv, [Next]_vars,
               NEW p \in Process, pc[p] = "verify", pc'[p] = "idle", faults' = faults,
               Readable(file), seen[p].last = LastHash(Rounds(file))
        PROVE verdict' = "intact" <=> VerifyPasses(file, cur)
    <2>0. /\ faults \in Nat
          /\ file.lines \in Seq(Wrapper)
      BY <1>2 DEF TypeInv, TypeOK, File
    <2>1. VerifyCurrent(p)
      BY <1>2, <2>0, SeenMoves
    <2>2. verdict' = "intact" <=> seen[p].sound /\ CurrentMatches(seen[p].last, cur)
      BY <2>1 DEF VerifyCurrent
    <2>3. seen[p].sound <=> ChainSound(Rounds(file))
      <3>1. CASE file.tail # <<>>
        <4>1. Rounds(file) = Append(file.lines, file.tail[1].of) /\ seen[p].last = file.tail[1].of.hash
          BY <1>2, <3>1, RoundsRead
        <4> QED
          BY <1>2, <3>1, <4>1 DEF SeenInv
      <3>2. CASE file.tail = <<>> /\ file.lines # <<>>
        <4>1. Rounds(file) = file.lines /\ seen[p].last = file.lines[Len(file.lines)].hash
          BY <1>2, <3>2, RoundsRead
        <4>2. Len(file.lines) \in 1..Len(file.lines) /\ SubSeq(file.lines, 1, Len(file.lines)) = file.lines
          BY <2>0, <3>2
        <4> QED
          BY <1>2, <4>1, <4>2 DEF SeenInv
      <3>3. CASE file.tail = <<>> /\ file.lines = <<>>
        <4>1. Rounds(file) = <<>> /\ seen[p].last = 0
          BY <1>2, <3>3, RoundsRead
        <4> QED
          BY <1>2, <4>1, NothingSound DEF SeenInv
      <3> QED
        BY <3>1, <3>2, <3>3
    <2> QED
      BY <1>2, <2>2, <2>3 DEF VerifyPasses
  <1>3. TypeInv /\ TailInv /\ SeenInv /\ [Next]_vars =>
          [\A p \in Process :
             pc[p] = "verify" /\ pc'[p] = "idle" /\ faults' = faults
               /\ Readable(file) /\ seen[p].last = LastHash(Rounds(file))
             => (verdict' = "intact" <=> VerifyPasses(file, cur))]_vars
    BY <1>2
  <1> QED
    BY TypeInit, ChainInit, PubInit, ClaimInit, TypeStep, ChainStep, PubStep, ClaimStep, TailStep,
       SeenStep, <1>1, <1>3, PTL DEF Spec, VerdictHolds

-----------------------------------------------------------------------------
(* relation.upstream.                                                      *)

\* The lines of f and the round being written after them.
Begun(f) == IF f.tail = <<>> THEN f.lines ELSE Append(f.lines, f.tail[1].of)

\* Between two restarts rounds are numbered one by one.
Straight(s) ==
  \A i \in 1..Len(s), j \in 0..Len(s) :
    j < i /\ (\A k \in j + 1..i : ~Restarted(s, k)) => s[i].round = RoundAt(s, j) + i - j

\* What the rounds begun, the round about to be written and the derived blocks name.
Upstreams ==
  {Begun(file)[i].upstream : i \in 1..Len(Begun(file))}
  \cup {block[p].upstream : p \in {q \in Process : pc[q] = "waiting"}}
  \cup {out.upstream : p \in {q \in Process : pc[q] = "opened"}}

\* Where nobody numbers ahead: the rounds begun, and those with the round about to be
\* written after them, name what comes just before and are numbered one by one between
\* restarts; a derived block is numbered one past the round it names at most; and no
\* round is named before an append begins to write it.
UpInv ==
  NobodyAhead =>
    /\ NamesPrevious(Begun(file)) /\ Straight(Begun(file))
    /\ \A p \in Process : pc[p] = "opened" =>
         NamesPrevious(Append(Begun(file), out)) /\ Straight(Append(Begun(file), out))
    /\ \A p \in Process : pc[p] = "waiting" =>
         \A j \in 0..Len(Begun(file)) :
           block[p].upstream = HashAt(Begun(file), j) => block[p].round <= RoundAt(Begun(file), j) + 1
    /\ \A u \in Upstreams :
         u \in 0..started /\ \A q \in Process : pc[q] \in Unopened => Claimed(q) # u

\* The rounds begun are a sequence of rounds.
LEMMA BegunType == ASSUME NEW f \in File PROVE Begun(f) \in Seq(Wrapper)
  <1>1. f.lines \in Seq(Wrapper) /\ f.tail \in Seq(Piece)
    BY DEF File
  <1>2. CASE f.tail # <<>>
    <2>1. f.tail[1] \in Piece
      BY <1>1, <1>2, ElementOfSeq
    <2> QED
      BY <1>1, <1>2, <2>1, AppendProperties DEF Begun, Piece
  <1> QED
    BY <1>1, <1>2 DEF Begun

\* What derive.py and append read is the rounds begun.
LEMMA ReadsBegun ==
  ASSUME Readable(file)
  PROVE Rounds(file) = Begun(file)
  <1>1. CASE Bare(file)
    <2>1. file.tail # <<>>
      BY <1>1 DEF Bare
    <2> QED
      BY <1>1, <2>1 DEF Rounds, Begun
  <1>2. CASE ~Bare(file)
    BY <1>2 DEF Rounds, Begun, Readable, Torn
  <1> QED
    BY <1>1, <1>2

\* The lines of a file begin what is begun of it.
LEMMA LinesBegin ==
  ASSUME NEW f \in File
  PROVE Begins(f.lines, Begun(f))
  <1>1. f.lines \in Seq(Wrapper) /\ f.tail \in Seq(Piece)
    BY DEF File
  <1>2. CASE f.tail = <<>>
    BY <1>1, <1>2 DEF Begun, Begins
  <1>3. CASE f.tail # <<>>
    <2>1. f.tail[1] \in Piece
      BY <1>1, <1>3, ElementOfSeq
    <2>2. f.tail[1].of \in Wrapper
      BY <2>1 DEF Piece
    <2> QED
      BY <1>1, <1>3, <2>2 DEF Begun, Begins
  <1> QED
    BY <1>2, <1>3

\* A loss of power takes rounds begun away from the end.
LEMMA CutBegun ==
  ASSUME file \in File, CutFile
  PROVE Begins(Begun(file'), Begun(file))
  <1>0. file.lines \in Seq(Wrapper) /\ file.tail \in Seq(Piece) /\ Begun(file) \in Seq(Wrapper)
    BY BegunType DEF File
  <1>1. CASE UNCHANGED file
    BY <1>0, <1>1 DEF Begins
  <1>2. ASSUME NEW k \in 1..Len(file.lines),
               NEW t \in PieceCuts(<<[of |-> file.lines[k], whole |-> TRUE]>>),
               file' = [lines |-> SubSeq(file.lines, 1, k - 1), tail |-> t, buried |-> FALSE]
        PROVE Begins(Begun(file'), file.lines)
    <2> DEFINE u == <<[of |-> file.lines[k], whole |-> TRUE]>>
               r == SubSeq(file.lines, 1, k - 1)
    <2>1. /\ u \in Seq(Piece) /\ file.lines[k] \in Wrapper /\ Len(u) = 1 /\ u[1].of = file.lines[k]
          /\ r \in Seq(Wrapper) /\ Len(r) = k - 1 /\ \A i \in 1..k - 1 : r[i] = file.lines[i]
      BY <1>0 DEF Piece
    <2>2. t \in Seq(Piece)
      BY <2>1, PieceCutsType
    <2>3. file'.lines = r /\ file'.tail = t
      BY <1>2
    <2>4. CASE t = <<>>
      <3>1. Begun(file') = r
        BY <2>3, <2>4 DEF Begun
      <3> QED
        BY <1>0, <2>1, <3>1 DEF Begins
    <2>5. CASE t # <<>>
      <3>1. t \in PieceCuts(u) /\ 1 \in 1..Len(t)
        BY <2>2, <2>5
      <3> HIDE DEF u
      <3>2. PICK j \in 1..Len(u) : t[1].of = u[j].of
        BY <2>1, <2>2, <3>1, PieceCutsOf
      <3>3. t[1].of = file.lines[k]
        BY <2>1, <3>2
      <3>4. Begun(file') = Append(r, file.lines[k])
        BY <2>3, <2>5, <3>3 DEF Begun
      <3> HIDE DEF r
      <3>5. Len(Append(r, file.lines[k])) = k /\ Append(r, file.lines[k])[k] = file.lines[k]
            /\ \A i \in 1..k - 1 : Append(r, file.lines[k])[i] = file.lines[i]
        BY <2>1
      <3> QED
        BY <1>0, <3>4, <3>5 DEF Begins
    <2> QED
      BY <2>4, <2>5
  <1>3. ASSUME NEW t \in PieceCuts(file.tail), file' = [file EXCEPT !.tail = t, !.buried = FALSE]
        PROVE Begins(Begun(file'), Begun(file))
    <2>1. file'.lines = file.lines /\ file'.tail = t /\ t \in Seq(Piece)
      BY <1>0, <1>3, PieceCutsType DEF File
    <2>2. CASE t = <<>>
      <3>1. Begun(file') = file.lines
        BY <2>1, <2>2 DEF Begun
      <3> QED
        BY <3>1, LinesBegin
    <2>3. CASE t # <<>>
      <3>1. t[1].of = file.tail[1].of /\ file.tail # <<>>
        <4>1. ASSUME NEW k \in 0..Len(file.tail), t = SubSeq(file.tail, 1, k)
              PROVE t[1].of = file.tail[1].of /\ file.tail # <<>>
          BY <1>0, <2>1, <2>3, <4>1
        <4>2. ASSUME NEW k \in 1..Len(file.tail),
                     t = Append(SubSeq(file.tail, 1, k - 1), [of |-> file.tail[k].of, whole |-> FALSE])
              PROVE t[1].of = file.tail[1].of /\ file.tail # <<>>
          <5> DEFINE v == SubSeq(file.tail, 1, k - 1)
          <5>1. v \in Seq(Piece) /\ Len(v) = k - 1 /\ (k > 1 => v[1] = file.tail[1]) /\ file.tail # <<>>
            BY <1>0
          <5> HIDE DEF v
          <5>2. t = Append(v, [of |-> file.tail[k].of, whole |-> FALSE])
            BY <4>2 DEF v
          <5>3. CASE k = 1
            BY <5>1, <5>2, <5>3
          <5>4. CASE k > 1
            BY <5>1, <5>2, <5>4
          <5> QED
            BY <5>3, <5>4
        <4> QED
          BY <1>3, <4>1, <4>2 DEF PieceCuts
      <3>2. Begun(file') = Begun(file)
        BY <2>1, <2>3, <3>1 DEF Begun
      <3> QED
        BY <1>0, <3>2 DEF Begins
    <2> QED
      BY <2>2, <2>3
  <1>4. ASSUME Begins(Begun(file'), file.lines) PROVE Begins(Begun(file'), Begun(file))
    <2>1. Begins(file.lines, Begun(file))
      BY LinesBegin
    <2> QED
      BY <1>0, <1>4, <2>1 DEF Begins
  <1> QED
    BY <1>1, <1>2, <1>3, <1>4 DEF CutFile

\* The rounds begun grow by the one an append begins to write, or lose some at the end.
LEMMA BegunMoves ==
  ASSUME TypeInv, ChainInv, [Next]_vars
  PROVE \/ Begins(Begun(file'), Begun(file))
        \/ (\E p \in Process : pc[p] = "opened" /\ pc'[p] = "part") /\ Begun(file') = Append(Begun(file), out)
  <1>0. /\ file \in File /\ file.lines \in Seq(Wrapper) /\ file.tail \in Seq(Piece) /\ pc \in [Process -> Pc]
        /\ out \in Wrapper /\ Begun(file) \in Seq(Wrapper)
    BY BegunType DEF TypeInv, TypeOK, File
  <1>1. CASE PowerLoss
    BY <1>0, <1>1, CutBegun DEF PowerLoss
  <1>2. CASE ~PowerLoss /\ file'.tail # <<>>
    <2>1. /\ file'.lines = file.lines
          /\ \/ file.tail # <<>> /\ file'.tail[1].of = file.tail[1].of
             \/ (\E p \in Process : pc[p] = "opened" /\ pc'[p] = "part") /\ file'.tail[1].of = out
      BY <1>2, FirstPiece
    <2>2. CASE file.tail # <<>> /\ file'.tail[1].of = file.tail[1].of
      <3>1. Begun(file') = Begun(file)
        BY <1>2, <2>1, <2>2 DEF Begun
      <3> QED
        BY <1>0, <3>1 DEF Begins
    <2>3. CASE (\E p \in Process : pc[p] = "opened" /\ pc'[p] = "part") /\ file'.tail[1].of = out
      <3>1. Begun(file') = Append(file.lines, out)
        BY <1>2, <2>1, <2>3 DEF Begun
      <3>2. CASE file.tail = <<>>
        BY <2>3, <3>1, <3>2 DEF Begun
      <3>3. CASE file.tail # <<>>
        <4>1. PICK p \in Process : pc[p] = "opened" /\ pc'[p] = "part"
          BY <2>3
        <4>2. WritePart(p)
          BY <4>1, Arrives
        <4> DEFINE u == [of |-> out, whole |-> FALSE]
        <4>3. file'.tail = Append(file.tail, u) /\ u \in Piece
          BY <1>0, <4>2 DEF WritePart, File, Piece
        <4> HIDE DEF u
        <4>4. file'.tail[1] = file.tail[1]
          BY <1>0, <3>3, <4>3
        <4> QED
          BY <2>2, <3>3, <4>4
      <3> QED
        BY <3>2, <3>3
    <2> QED
      BY <2>1, <2>2, <2>3
  <1>3. CASE ~PowerLoss /\ file'.tail = <<>>
    <2>1. Begun(file') = file'.lines
      BY <1>3 DEF Begun
    <2>2. \/ file'.lines = file.lines
          \/ file.tail # <<>> /\ file.tail[1].of = out /\ file'.lines = Append(file.lines, out)
      BY <1>3, LinesGrow
    <2>3. CASE file'.lines = file.lines
      BY <1>0, <2>1, <2>3, LinesBegin
    <2>4. CASE file.tail # <<>> /\ file.tail[1].of = out /\ file'.lines = Append(file.lines, out)
      <3>1. Begun(file') = Begun(file)
        BY <2>1, <2>4 DEF Begun
      <3> QED
        BY <1>0, <3>1 DEF Begins
    <2> QED
      BY <2>2, <2>3, <2>4
  <1> QED
    BY <1>1, <1>2, <1>3

\* Rounds taken away from the end leave those before them as they were.
LEMMA BeginsKeeps ==
  ASSUME NEW s \in Seq(Wrapper), NEW t \in Seq(Wrapper), Begins(t, s)
  PROVE /\ \A j \in 0..Len(t) : j \in 0..Len(s) /\ HashAt(t, j) = HashAt(s, j) /\ RoundAt(t, j) = RoundAt(s, j)
        /\ \A k \in 1..Len(t) : k \in 1..Len(s) /\ t[k] = s[k] /\ (Restarted(t, k) <=> Restarted(s, k))
        /\ NamesPrevious(s) => NamesPrevious(t)
        /\ Straight(s) => Straight(t)
  <1>1. \A k \in 1..Len(t) : k \in 1..Len(s) /\ t[k] = s[k]
    BY DEF Begins
  <1>2. \A k \in 1..Len(t) : 1 \in 1..Len(t)
    OBVIOUS
  <1>3. \A k \in 1..Len(t) : Restarted(t, k) <=> Restarted(s, k)
    BY <1>1, <1>2 DEF Restarted
  <1>4. \A j \in 0..Len(t) : j \in 0..Len(s) /\ (j # 0 => j \in 1..Len(t))
    BY DEF Begins
  <1>5. \A j \in 0..Len(t) : HashAt(t, j) = HashAt(s, j) /\ RoundAt(t, j) = RoundAt(s, j)
    BY <1>1, <1>4 DEF HashAt, RoundAt
  <1>6. \A i \in 1..Len(t), j \in 0..Len(t) : \A k \in j + 1..i : k \in 1..Len(t)
    OBVIOUS
  <1>7. ASSUME NamesPrevious(s), NEW i \in 1..Len(t), NEW j \in 0..Len(t), t[i].upstream = HashAt(t, j)
        PROVE j = i - 1 \/ \E k \in j + 1..i : Restarted(t, k)
    <2>1. j = i - 1 \/ \E k \in j + 1..i : Restarted(s, k)
      BY <1>1, <1>4, <1>5, <1>7 DEF NamesPrevious
    <2> QED
      BY <1>3, <1>6, <2>1
  <1>8. ASSUME Straight(s), NEW i \in 1..Len(t), NEW j \in 0..Len(t),
               j < i, \A k \in j + 1..i : ~Restarted(t, k)
        PROVE t[i].round = RoundAt(t, j) + i - j
    <2>1. \A k \in j + 1..i : ~Restarted(s, k)
      BY <1>3, <1>6, <1>8
    <2> QED
      BY <1>1, <1>4, <1>5, <1>8, <2>1 DEF Straight
  <1> QED
    BY <1>1, <1>3, <1>4, <1>5, <1>7, <1>8 DEF NamesPrevious, Straight

\* No two of the rounds begun have one digest, none has that of the null upstream, and
\* none is of an append that has not begun to write.
LEMMA BegunApart ==
  ASSUME TypeInv, ClaimInv, TailInv
  PROVE /\ \A i, j \in 0..Len(Begun(file)) : HashAt(Begun(file), i) = HashAt(Begun(file), j) => i = j
        /\ \A j \in 0..Len(Begun(file)) :
             /\ HashAt(Begun(file), j) \in 0..started
             /\ \A q \in Process : pc[q] \in Unopened => Claimed(q) # HashAt(Begun(file), j)
  <1> DEFINE s == Begun(file)
             n == Len(file.lines)
  <1>0. /\ file \in File /\ file.lines \in Seq(Wrapper) /\ file.tail \in Seq(Piece) /\ s \in Seq(Wrapper)
        /\ n \in Nat /\ started \in Nat
    BY BegunType DEF TypeInv, TypeOK, File
  <1>1. /\ \A i \in 1..n : i \in 1..Len(s) /\ s[i] = file.lines[i]
        /\ \A i \in 1..Len(s) : i \in 1..n \/ (i = n + 1 /\ file.tail # <<>> /\ s[i] = file.tail[1].of)
    <2>1. CASE file.tail = <<>>
      BY <1>0, <2>1 DEF Begun
    <2>2. CASE file.tail # <<>>
      <3>1. file.tail[1] \in Piece
        BY <1>0, <2>2, ElementOfSeq
      <3>2. file.tail[1].of \in Wrapper
        BY <3>1 DEF Piece
      <3>3. s = Append(file.lines, file.tail[1].of)
        BY <2>2 DEF Begun
      <3> HIDE DEF s
      <3> QED
        BY <1>0, <2>2, <3>2, <3>3
    <2> QED
      BY <2>1, <2>2
  <1> HIDE DEF s, n
  <1>2. ASSUME NEW i \in 1..Len(s) PROVE s[i].hash \in 1..started
    <2>1. s[i] \in Within(file)
      <3>1. CASE i \in 1..n
        BY <1>1, <3>1 DEF Within, n
      <3>2. CASE i = n + 1 /\ file.tail # <<>> /\ s[i] = file.tail[1].of
        <4>1. 1 \in 1..Len(file.tail)
          BY <1>0, <3>2
        <4> QED
          BY <3>2, <4>1 DEF Within
      <3> QED
        BY <1>1, <3>1, <3>2
    <2> QED
      BY <2>1 DEF TailInv
  <1>3. ASSUME NEW i \in 1..Len(s), NEW j \in 1..Len(s), s[i].hash = s[j].hash PROVE i = j
    <2>1. CASE i \in 1..n /\ j \in 1..n
      BY <1>1, <1>3, <2>1 DEF ClaimInv, n
    <2>2. ASSUME NEW a \in 1..n, NEW b \in 1..Len(s), b \notin 1..n PROVE s[a].hash # s[b].hash
      <3>1. file.tail # <<>> /\ s[b] = file.tail[1].of
        BY <1>1, <2>2
      <3>2. s[a].hash \in Hashes(file.lines)
        BY <1>1 DEF Hashes, n
      <3> QED
        BY <3>1, <3>2 DEF TailInv
    <2>3. CASE i \in 1..n /\ j \notin 1..n
      BY <1>3, <2>2, <2>3
    <2>4. CASE i \notin 1..n /\ j \in 1..n
      BY <1>3, <2>2, <2>4
    <2>5. CASE i \notin 1..n /\ j \notin 1..n
      BY <1>1, <2>5
    <2> QED
      BY <2>1, <2>3, <2>4, <2>5
  <1>4. ASSUME NEW i \in 1..Len(s), NEW q \in Process, pc[q] \in Unopened PROVE Claimed(q) # s[i].hash
    <2>1. CASE i \in 1..n
      <3>1. Claims(q)
        BY <1>4 DEF Claims, Unopened, Unwritten
      <3>2. s[i].hash \in Hashes(file.lines)
        BY <1>1, <2>1 DEF Hashes, n
      <3> QED
        BY <3>1, <3>2 DEF ClaimInv
    <2>2. CASE i = n + 1 /\ file.tail # <<>> /\ s[i] = file.tail[1].of
      <3>1. 1 \in 1..Len(file.tail)
        BY <1>0, <2>2
      <3> QED
        BY <1>4, <2>2, <3>1 DEF TailInv
    <2> QED
      BY <1>1, <2>1, <2>2
  <1>5. \A q \in Process : pc[q] \in Unopened => Claimed(q) # 0
    BY DEF ClaimInv, Claims, Unopened, Unwritten
  <1>6. \A j \in 0..Len(s) : j # 0 => j \in 1..Len(s)
    BY <1>0
  <1>7. ASSUME NEW i \in 0..Len(s), NEW j \in 0..Len(s), HashAt(s, i) = HashAt(s, j) PROVE i = j
    <2>1. CASE i = 0 \/ j = 0
      BY <1>2, <1>6, <1>7, <2>1 DEF HashAt
    <2>2. CASE i # 0 /\ j # 0
      BY <1>3, <1>6, <1>7, <2>2 DEF HashAt
    <2> QED
      BY <2>1, <2>2
  <1>8. ASSUME NEW j \in 0..Len(s)
        PROVE HashAt(s, j) \in 0..started /\ \A q \in Process : pc[q] \in Unopened => Claimed(q) # HashAt(s, j)
    <2>1. CASE j = 0
      BY <1>0, <1>5, <2>1 DEF HashAt
    <2>2. CASE j # 0
      BY <1>0, <1>2, <1>4, <1>6, <2>2 DEF HashAt
    <2> QED
      BY <2>1, <2>2
  <1> QED
    BY <1>7, <1>8 DEF s

\* A round appended to rounds that name what comes just before names the last of them,
\* or restarts the numbering after the one it names.
LEMMA UpAppend ==
  ASSUME NEW s \in Seq(Wrapper), NEW b \in Block, NEW w \in Wrapper, w = WrapperFor(b, s),
         NamesPrevious(s), Straight(s),
         \A i, j \in 0..Len(s) : HashAt(s, i) = HashAt(s, j) => i = j,
         \A j \in 0..Len(s) : b.upstream = HashAt(s, j) => b.round <= RoundAt(s, j) + 1,
         \A j \in 0..Len(s) : HashAt(s, j) # b.id,
         \A i \in 1..Len(s) : s[i].upstream # b.id,
         b.upstream # b.id
  PROVE  NamesPrevious(Append(s, w)) /\ Straight(Append(s, w))
  <1> DEFINE t == Append(s, w)
             n == Len(s)
  <1>0. /\ n \in Nat /\ \A k \in 1..n : k \in 1..n + 1 /\ t[k] = s[k]
        /\ t[n + 1] = w /\ Len(t) = n + 1
        /\ b.round \in Int /\ w.round \in Int
        /\ \A j \in 0..n : RoundAt(s, j) \in Int
    <2>1. /\ n \in Nat /\ \A k \in 1..n : k \in 1..n + 1 /\ t[k] = s[k]
          /\ t[n + 1] = w /\ Len(t) = n + 1
      OBVIOUS
    <2>2. b.round \in Int /\ w.round \in Int
      BY DEF Block, Wrapper
    <2>3. \A k \in 1..n : s[k] \in Wrapper
      BY ElementOfSeq
    <2>4. \A j \in 0..n : j # 0 => j \in 1..n
      BY <2>1
    <2>5. \A j \in 0..n : RoundAt(s, j) \in Int
      BY <2>3, <2>4 DEF RoundAt, Wrapper
    <2> QED
      BY <2>1, <2>2, <2>5
  <1> HIDE DEF t, n
  <1>1. /\ \A k \in 1..n : Restarted(t, k) <=> Restarted(s, k)
        /\ Restarted(t, n + 1) <=> (w.disc \/ (n = 0 /\ w.round # 1))
    <2>1. \A k \in 1..n : 1 \in 1..n
      BY <1>0
    <2>2. n + 1 = 1 <=> n = 0
      BY <1>0
    <2> QED
      BY <1>0, <2>1, <2>2 DEF Restarted
  <1>2. /\ \A j \in 0..n : HashAt(t, j) = HashAt(s, j) /\ RoundAt(t, j) = RoundAt(s, j)
        /\ HashAt(t, n + 1) = b.id
    <2>1. \A j \in 0..n : j # 0 => j \in 1..n
      BY <1>0
    <2>2. n + 1 # 0 /\ w.hash = b.id
      BY <1>0 DEF WrapperFor
    <2> QED
      BY <1>0, <2>1, <2>2 DEF HashAt, RoundAt
  <1>3. LastRound(s) = RoundAt(s, n) /\ LastHash(s) = HashAt(s, n)
    BY DEF LastRound, LastHash, RoundAt, HashAt, n
  <1>4. ~Restarted(t, n + 1) => w.round = RoundAt(s, n) + 1
    <2> SUFFICES ASSUME ~w.disc, ~(n = 0 /\ w.round # 1) PROVE w.round = RoundAt(s, n) + 1
      BY <1>1
    <2>1. CASE n = 0
      BY <2>1 DEF RoundAt
    <2>2. CASE n # 0
      <3>1. s # <<>>
        BY <2>2 DEF n
      <3>2. b.mode.auto \/ b.round = LastRound(s) + 1
        BY <3>1 DEF Follows, WrapperFor
      <3> QED
        BY <1>3, <3>2 DEF WrapperFor
    <2> QED
      BY <2>1, <2>2
  <1>5. ASSUME NEW j \in 0..n, \A k \in j + 1..n + 1 : ~Restarted(t, k)
        PROVE w.round = RoundAt(s, j) + n + 1 - j
    <2>1. n + 1 \in j + 1..n + 1
      BY <1>0
    <2>2. w.round = RoundAt(s, n) + 1
      BY <1>4, <1>5, <2>1
    <2>3. CASE j = n
      BY <1>0, <2>2, <2>3
    <2>4. CASE j # n
      <3>1. j < n /\ n \in 1..n /\ \A k \in j + 1..n : k \in 1..n /\ k \in j + 1..n + 1
        BY <1>0, <2>4
      <3>2. \A k \in j + 1..n : ~Restarted(s, k)
        BY <1>1, <1>5, <3>1
      <3>3. s[n].round = RoundAt(s, j) + n - j
        BY <3>1, <3>2 DEF Straight, n
      <3>4. RoundAt(s, n) = s[n].round /\ n \in 0..n
        BY <3>1 DEF RoundAt
      <3> QED
        BY <1>0, <2>2, <3>3, <3>4
    <2> QED
      BY <2>3, <2>4
  <1>6. ASSUME NEW i \in 1..n + 1, NEW j \in 0..n + 1, j < i, \A k \in j + 1..i : ~Restarted(t, k)
        PROVE t[i].round = RoundAt(t, j) + i - j
    <2>1. CASE i = n + 1
      <3>1. j \in 0..n
        BY <1>0, <1>6, <2>1
      <3> QED
        BY <1>0, <1>2, <1>5, <1>6, <2>1, <3>1
    <2>2. CASE i # n + 1
      <3>1. i \in 1..n /\ j \in 0..n /\ \A k \in j + 1..i : k \in 1..n
        BY <1>0, <1>6, <2>2
      <3>2. \A k \in j + 1..i : ~Restarted(s, k)
        BY <1>1, <1>6, <3>1
      <3> QED
        BY <1>0, <1>2, <1>6, <3>1, <3>2 DEF Straight, n
    <2> QED
      BY <2>1, <2>2
  <1>7. ASSUME NEW i \in 1..n + 1, NEW j \in 0..n + 1, t[i].upstream = HashAt(t, j),
               \A k \in j + 1..i : ~Restarted(t, k)
        PROVE j = i - 1
    <2>1. CASE i # n + 1
      <3>1. i \in 1..n /\ t[i] = s[i]
        BY <1>0, <2>1
      <3>2. j # n + 1
        BY <1>2, <1>7, <3>1 DEF n
      <3>3. j \in 0..n /\ \A k \in j + 1..i : k \in 1..n
        BY <1>0, <3>1, <3>2
      <3>4. \A k \in j + 1..i : ~Restarted(s, k)
        BY <1>1, <1>7, <3>3
      <3> QED
        BY <1>2, <1>7, <3>1, <3>3, <3>4 DEF NamesPrevious, n
    <2>2. CASE i = n + 1
      <3>1. w.upstream = HashAt(t, j)
        BY <1>0, <1>7, <2>2
      <3>2. w.upstream = (IF b.mode.auto THEN HashAt(s, n) ELSE b.upstream) /\ n \in 0..n
        BY <1>0, <1>3 DEF WrapperFor
      <3>3. j # n + 1
        BY <1>2, <3>1, <3>2 DEF n
      <3>4. j \in 0..n
        BY <1>0, <3>3
      <3>5. CASE b.mode.auto
        <4>1. HashAt(s, j) = HashAt(s, n)
          BY <1>2, <3>1, <3>2, <3>4, <3>5
        <4>2. j = n
          BY <3>2, <3>4, <4>1 DEF n
        <4> QED
          BY <1>0, <2>2, <4>2
      <3>6. CASE ~b.mode.auto
        <4>1. b.upstream = HashAt(s, j)
          BY <1>2, <3>1, <3>2, <3>4, <3>6
        <4>2. b.round <= RoundAt(s, j) + 1
          BY <3>4, <4>1 DEF n
        <4>3. w.round = b.round
          BY <3>6 DEF WrapperFor
        <4>4. w.round = RoundAt(s, j) + n + 1 - j
          BY <1>5, <1>7, <2>2, <3>4
        <4>5. RoundAt(s, j) \in Int
          BY <1>0, <3>4
        <4>6. n <= j
          BY <1>0, <3>4, <4>2, <4>3, <4>4, <4>5
        <4> QED
          BY <1>0, <2>2, <3>4, <4>6
      <3> QED
        BY <3>5, <3>6
    <2> QED
      BY <2>1, <2>2
  <1>8. NamesPrevious(t)
    BY <1>0, <1>7 DEF NamesPrevious
  <1>9. Straight(t)
    BY <1>0, <1>6 DEF Straight
  <1> QED
    BY <1>8, <1>9 DEF t

\* What is named after a step was named before it, or is the last of the rounds begun,
\* which a derive.py or an append has just read.
LEMMA UpstreamMoves ==
  ASSUME TypeInv, ChainInv, [Next]_vars, NEW u \in Upstreams'
  PROVE u \in Upstreams \/ u = HashAt(Begun(file), Len(Begun(file)))
  <1>0. /\ pc \in [Process -> Pc] /\ block \in [Process -> Block] /\ out \in Wrapper
        /\ Begun(file) \in Seq(Wrapper)
    BY BegunType DEF TypeInv, TypeOK
  <1>1. ASSUME NEW p \in Process, pc[p] = "opened" PROVE out.upstream \in Upstreams
    BY <1>1 DEF Upstreams
  <1>2. ASSUME NEW p \in Process, pc[p] = "waiting" PROVE block[p].upstream \in Upstreams
    BY <1>2 DEF Upstreams
  <1>3. Readable(file) => LastHash(Rounds(file)) = HashAt(Begun(file), Len(Begun(file)))
    <2>1. Begun(file) = <<>> <=> Len(Begun(file)) = 0
      BY <1>0
    <2> QED
      BY <2>1, ReadsBegun DEF LastHash, HashAt
  <1>4. ASSUME NEW i \in 1..Len(Begun(file')), u = Begun(file')[i].upstream PROVE u \in Upstreams
    <2>1. CASE Begins(Begun(file'), Begun(file))
      <3>1. i \in 1..Len(Begun(file)) /\ Begun(file')[i] = Begun(file)[i]
        BY <1>0, <2>1 DEF Begins
      <3> QED
        BY <1>4, <3>1 DEF Upstreams
    <2>2. CASE (\E p \in Process : pc[p] = "opened" /\ pc'[p] = "part") /\ Begun(file') = Append(Begun(file), out)
      <3>1. (i \in 1..Len(Begun(file)) /\ Begun(file')[i] = Begun(file)[i]) \/ Begun(file')[i] = out
        BY <1>0, <1>4, <2>2
      <3>2. CASE Begun(file')[i] = out
        BY <1>1, <1>4, <2>2, <3>2
      <3>3. CASE i \in 1..Len(Begun(file)) /\ Begun(file')[i] = Begun(file)[i]
        BY <1>4, <3>3 DEF Upstreams
      <3> QED
        BY <3>1, <3>2, <3>3
    <2> QED
      BY <2>1, <2>2, BegunMoves
  <1>5. ASSUME NEW p \in Process, pc'[p] = "waiting", u = block'[p].upstream
        PROVE u \in Upstreams \/ u = HashAt(Begun(file), Len(Begun(file)))
    <2>1. CASE pc[p] = "waiting"
      BY <1>2, <1>5, <2>1, WaitsStill
    <2>2. CASE pc[p] # "waiting"
      <3>1. PICK m \in Modes, t \in Task : Derive(p, m, t)
        BY <1>5, <2>2, Arrives
      <3>2. Readable(file) /\ block'[p].upstream = LastHash(Rounds(file))
        BY <1>0, <3>1 DEF Derive
      <3> QED
        BY <1>3, <1>5, <3>2
    <2> QED
      BY <2>1, <2>2
  <1>6. ASSUME NEW p \in Process, pc'[p] = "opened", u = out'.upstream
        PROVE u \in Upstreams \/ u = HashAt(Begun(file), Len(Begun(file)))
    <2>1. CASE pc[p] = "opened"
      BY <1>1, <1>6, <2>1, HeldStill DEF Critical
    <2>2. CASE pc[p] # "opened"
      <3>1. AppendBegin(p)
        BY <1>6, <2>2, Arrives
      <3>2. pc[p] = "waiting" /\ Readable(file) /\ out' = WrapperFor(block[p], Rounds(file))
        BY <3>1 DEF AppendBegin, Refused
      <3>3. out'.upstream = (IF block[p].mode.auto THEN LastHash(Rounds(file)) ELSE block[p].upstream)
        BY <3>2 DEF WrapperFor
      <3> QED
        BY <1>2, <1>3, <1>6, <3>2, <3>3
    <2> QED
      BY <2>1, <2>2
  <1> QED
    BY <1>4, <1>5, <1>6 DEF Upstreams

\* No step makes a round name another of the ledger than the one just before it.
LEMMA UpStep ==
  TypeInv /\ ChainInv /\ ClaimInv /\ TailInv /\ UpInv /\ [Next]_vars => UpInv'
  <1> SUFFICES ASSUME NobodyAhead, TypeInv, ChainInv, ClaimInv, TailInv, UpInv, [Next]_vars
               PROVE UpInv'
    BY DEF UpInv
  <1> DEFINE s == Begun(file)
             t == Begun(file')
  <1>0. /\ s \in Seq(Wrapper) /\ t \in Seq(Wrapper) /\ out \in Wrapper /\ pc \in [Process -> Pc]
        /\ block \in [Process -> Block] /\ started \in Nat
        /\ \A p \in Process : block[p] \in Block
        /\ Len(s) \in Nat /\ Len(s) \in 0..Len(s)
    BY TypeStep, BegunType DEF TypeInv, TypeOK
  <1>1. /\ NamesPrevious(s) /\ Straight(s)
        /\ \A p \in Process : pc[p] = "opened" => NamesPrevious(Append(s, out)) /\ Straight(Append(s, out))
        /\ \A p \in Process : pc[p] = "waiting" =>
             \A j \in 0..Len(s) : block[p].upstream = HashAt(s, j) => block[p].round <= RoundAt(s, j) + 1
        /\ \A u \in Upstreams : u \in 0..started /\ \A q \in Process : pc[q] \in Unopened => Claimed(q) # u
    BY DEF UpInv
  <1>2. /\ \A i, j \in 0..Len(s) : HashAt(s, i) = HashAt(s, j) => i = j
        /\ \A j \in 0..Len(s) :
             /\ HashAt(s, j) \in 0..started
             /\ \A q \in Process : pc[q] \in Unopened => Claimed(q) # HashAt(s, j)
    BY BegunApart
  <1>3. \/ Begins(t, s)
        \/ (\E p \in Process : pc[p] = "opened" /\ pc'[p] = "part") /\ t = Append(s, out)
    BY BegunMoves
  <1>l. Readable(file) => /\ Rounds(file) = s
                          /\ LastHash(Rounds(file)) = HashAt(s, Len(s))
                          /\ LastRound(Rounds(file)) = RoundAt(s, Len(s))
    <2>1. s = <<>> <=> Len(s) = 0
      BY <1>0
    <2> QED
      BY <2>1, ReadsBegun DEF LastHash, LastRound, HashAt, RoundAt
  <1>s. file' = file => t = s
    OBVIOUS
  <1>u. /\ \A i \in 1..Len(s) : s[i].upstream \in Upstreams
        /\ \A p \in Process : pc[p] = "waiting" => block[p].upstream \in Upstreams
    BY DEF Upstreams
  <1> HIDE DEF s, t
  <1>4. NamesPrevious(t) /\ Straight(t)
    <2>1. CASE Begins(t, s)
      BY <1>0, <1>1, <2>1, BeginsKeeps
    <2>2. CASE (\E p \in Process : pc[p] = "opened" /\ pc'[p] = "part") /\ t = Append(s, out)
      BY <1>1, <2>2
    <2> QED
      BY <1>3, <2>1, <2>2
  <1>5. ASSUME NEW p \in Process, pc'[p] = "opened"
        PROVE NamesPrevious(Append(t, out')) /\ Straight(Append(t, out'))
    <2>1. CASE pc[p] = "opened"
      <3>1. out' = out /\ file' = file
        BY <1>5, <2>1, HeldStill DEF Critical
      <3> QED
        BY <1>1, <1>s, <2>1, <3>1
    <2>2. CASE pc[p] # "opened"
      <3>1. AppendBegin(p)
        BY <1>5, <2>2, Arrives
      <3> DEFINE b == block[p]
      <3>2. /\ pc[p] = "waiting" /\ file' = file /\ b \in Block
            /\ Readable(file) /\ out' = WrapperFor(b, Rounds(file))
        BY <1>0, <3>1 DEF AppendBegin, Refused
      <3>3. t = s /\ out' = WrapperFor(b, s) /\ pc[p] \in Unopened /\ Claimed(p) = b.id
        BY <1>l, <1>s, <3>2 DEF Unopened, Claimed
      <3>4. out' \in Wrapper
        BY <1>0, <3>2, <3>3, WrapperForType
      <3>5. \A j \in 0..Len(s) : b.upstream = HashAt(s, j) => b.round <= RoundAt(s, j) + 1
        BY <1>1, <3>2
      <3>6. /\ \A j \in 0..Len(s) : HashAt(s, j) # b.id
            /\ \A i \in 1..Len(s) : s[i].upstream # b.id
            /\ b.upstream # b.id
        BY <1>1, <1>2, <1>u, <3>2, <3>3
      <3> HIDE DEF b
      <3>7. NamesPrevious(Append(s, out')) /\ Straight(Append(s, out'))
        BY <1>0, <1>1, <1>2, <3>2, <3>3, <3>4, <3>5, <3>6, UpAppend
      <3> QED
        BY <3>3, <3>7
    <2> QED
      BY <2>1, <2>2
  <1>6. ASSUME NEW p \in Process, pc'[p] = "waiting", NEW j \in 0..Len(t),
               block'[p].upstream = HashAt(t, j)
        PROVE block'[p].round <= RoundAt(t, j) + 1
    <2>1. CASE pc[p] = "waiting"
      <3>1. block'[p] = block[p]
        BY <1>6, <2>1, WaitsStill
      <3>2. CASE Begins(t, s)
        <4>1. j \in 0..Len(s) /\ HashAt(t, j) = HashAt(s, j) /\ RoundAt(t, j) = RoundAt(s, j)
          BY <1>0, <3>2, BeginsKeeps
        <4> QED
          BY <1>1, <1>6, <2>1, <3>1, <4>1
      <3>3. CASE (\E q \in Process : pc[q] = "opened" /\ pc'[q] = "part") /\ t = Append(s, out)
        <4>1. PICK q \in Process : pc[q] = "opened"
          BY <3>3
        <4>2. block[p].upstream # out.hash
          BY <1>1, <1>u, <2>1, <4>1 DEF Unopened, Claimed
        <4>3. /\ Len(t) = Len(s) + 1 /\ t[Len(s) + 1] = out
              /\ \A k \in 1..Len(s) : t[k] = s[k]
          BY <1>0, <3>3
        <4>4. j # Len(s) + 1
          BY <1>0, <1>6, <3>1, <4>2, <4>3 DEF HashAt
        <4>5. j \in 0..Len(s) /\ (j # 0 => j \in 1..Len(s))
          BY <1>0, <4>3, <4>4
        <4>6. HashAt(t, j) = HashAt(s, j) /\ RoundAt(t, j) = RoundAt(s, j)
          BY <4>3, <4>5 DEF HashAt, RoundAt
        <4> QED
          BY <1>1, <1>6, <2>1, <3>1, <4>5, <4>6
      <3> QED
        BY <1>3, <3>2, <3>3
    <2>2. CASE pc[p] # "waiting"
      <3>1. PICK m \in Modes, u \in Task : Derive(p, m, u)
        BY <1>6, <2>2, Arrives
      <3>2. /\ Readable(file) /\ file' = file
            /\ block'[p].round = LastRound(Rounds(file)) + 1 + m.jump
            /\ block'[p].upstream = LastHash(Rounds(file))
        BY <1>0, <3>1 DEF Derive
      <3>3. t = s /\ j \in 0..Len(s)
        BY <1>s, <3>2
      <3>4. j = Len(s)
        BY <1>0, <1>2, <1>6, <1>l, <3>2, <3>3
      <3>5. m.jump \in Int /\ m.jump <= 0
        BY ModesAssumption DEF NobodyAhead, Mode
      <3>6. RoundAt(s, Len(s)) \in Int
        <4>1. Len(s) # 0 => s[Len(s)] \in Wrapper
          BY <1>0
        <4> QED
          BY <4>1 DEF RoundAt, Wrapper
      <3> QED
        BY <1>l, <3>2, <3>3, <3>4, <3>5, <3>6
    <2> QED
      BY <2>1, <2>2
  <1>7. ASSUME NEW u \in Upstreams'
        PROVE u \in 0..started' /\ \A q \in Process : pc'[q] \in Unopened => Claimed(q)' # u
    <2>1. u \in Upstreams \/ u = HashAt(s, Len(s))
      BY UpstreamMoves DEF s
    <2>2. u \in 0..started /\ \A q \in Process : pc[q] \in Unopened => Claimed(q) # u
      <3>1. CASE u \in Upstreams
        BY <1>1, <3>1
      <3>2. CASE u = HashAt(s, Len(s))
        BY <1>0, <1>2, <3>2
      <3> QED
        BY <2>1, <3>1, <3>2
    <2>3. started' >= started /\ started' \in Nat
      <3>1. started' \in {started, started + 1}
        BY DEF Next, Step, Request, Derive, AppendRefuse, AppendBegin, WritePart, WriteRound,
           WriteNewline, Fsync, StageCurrent, ReplaceCurrent, Finish, RepairBegin, SaveFragment,
           StageRounds, ReplaceRounds, FinishRepair, Verify, VerifyUnreadable, VerifyRounds,
           VerifyCurrent, Kill, WriteError, PowerLoss, vars
      <3> QED
        BY <1>0, <3>1
    <2>4. ASSUME NEW q \in Process, pc'[q] \in Unopened PROVE Claimed(q)' # u
      <3>1. CASE pc[q] \in Unopened /\ Claimed(q)' = Claimed(q)
        BY <2>2, <3>1
      <3>2. CASE Claimed(q)' = started + 1
        BY <1>0, <2>2, <3>2
      <3> QED
        BY <2>4, <3>1, <3>2, UnopenedMoves
    <2> QED
      BY <1>0, <2>2, <2>3, <2>4
  <1> QED
    BY <1>4, <1>5, <1>6, <1>7 DEF UpInv, s, t

\* derive.py without the lock and append with it, whatever fails: where no caller numbers
\* its block ahead of derive.py (one that does makes a stale block pass the numbering
\* check), a round names of the rounds in the ledger none but the one just before it,
\* or the ledger restarts between the two.
THEOREM UpstreamCorrect == Spec => []UpstreamLinked
  <1>1. Init => TailInv /\ UpInv
    <2> SUFFICES ASSUME Init PROVE TailInv /\ UpInv
      OBVIOUS
    <2>1. /\ Begun(file) = <<>> /\ Len(Begun(file)) = 0 /\ Within(file) = {} /\ file.tail = <<>>
          /\ \A p \in Process : pc[p] = "idle"
      BY DEF Init, EmptyFile, Begun, Within
    <2>2. TailInv
      BY <2>1 DEF TailInv, Unopened
    <2>3. Upstreams = {}
      BY <2>1 DEF Upstreams
    <2> QED
      BY <2>1, <2>2, <2>3 DEF UpInv, NamesPrevious, Straight
  <1>2. TypeInv /\ UpInv => UpstreamLinked
    <2> SUFFICES ASSUME TypeInv, UpInv, NobodyAhead PROVE NamesPrevious(file.lines)
      BY DEF UpstreamLinked
    <2>1. file \in File /\ file.lines \in Seq(Wrapper) /\ Begun(file) \in Seq(Wrapper)
      BY BegunType DEF TypeInv, TypeOK, File
    <2>2. Begins(file.lines, Begun(file)) /\ NamesPrevious(Begun(file))
      BY <2>1, LinesBegin DEF UpInv
    <2> QED
      BY <2>1, <2>2, BeginsKeeps
  <1> QED
    BY TypeInit, ChainInit, PubInit, ClaimInit, TypeStep, ChainStep, PubStep, ClaimStep, TailStep,
       UpStep, <1>1, <1>2, PTL DEF Spec

-----------------------------------------------------------------------------
(* A heartbeat is a behaviour of the ledger.                               *)

\* The task a derive without arguments hands on is a task.
LEMMA InheritedTask ==
  ASSUME TypeOK
  PROVE  (IF Rounds(file) = <<>> THEN FirstTask ELSE Rounds(file)[Len(Rounds(file))].task) \in Task
  <1>1. Rounds(file) \in Seq(Wrapper)
    BY RoundsType DEF TypeOK
  <1>2. Rounds(file) # <<>> => Rounds(file)[Len(Rounds(file))] \in Wrapper
    BY <1>1
  <1> QED
    BY <1>2, TaskAssumption DEF Wrapper

\* Every step of a heartbeat is a step of the ledger, or leaves it alone.
LEMMA LedgerStep == TypeOK /\ [HeartbeatNext]_hvars => [Next]_vars
  <1> SUFFICES ASSUME TypeOK, [HeartbeatNext]_hvars PROVE [Next]_vars
    OBVIOUS
  <1>1. CASE UNCHANGED hvars
    BY <1>1 DEF hvars
  <1>2. ASSUME NEW p \in Process, Begin(p) PROVE [Next]_vars
    BY <1>2 DEF Begin
  <1>3. ASSUME NEW p \in Process, TickStep(p) PROVE [Next]_vars
    <2>1. CASE CheckChain(p)
      BY <2>1 DEF CheckChain, Next, Verify
    <2>2. CASE TickDerives(p)
      BY <2>2, InheritedTask, AutoRoundAssumption DEF TickDerives, Next, Request
    <2>3. CASE CheckOthers(p) \/ DerivesNothing(p)
      BY <2>3 DEF CheckOthers, DerivesNothing
    <2>4. CASE ChainChecked(p) \/ TickAppends(p) \/ TickRecorded(p) \/ TickRefused(p) \/ CommandSteps(p)
      <3>1. Step(p)
        BY <2>4 DEF ChainChecked, TickAppends, TickRecorded, TickRefused, CommandSteps, Step
      <3> QED
        BY <3>1 DEF Next
    <2> QED
      BY <1>3, <2>1, <2>2, <2>3, <2>4 DEF TickStep
  <1>4. ASSUME NEW p \in Process, CommandBegins(p) PROVE [Next]_vars
    BY <1>4 DEF CommandBegins, Next
  <1>5. ASSUME NEW p \in Process, KillCommand(p) \/ KillTick(p) PROVE [Next]_vars
    <2>1. CASE Kill(p)
      BY <2>1 DEF Next
    <2>2. CASE DiesApart
      BY <2>2 DEF DiesApart
    <2> QED
      BY <1>5, <2>1, <2>2 DEF KillCommand, KillTick, DiesAtWork
  <1>6. ASSUME NEW p \in Process, CommandError(p) PROVE [Next]_vars
    BY <1>6 DEF CommandError, Next
  <1>7. CASE PowerFails
    BY <1>7 DEF PowerFails, Next
  <1> QED
    BY <1>1, <1>2, <1>3, <1>4, <1>5, <1>6, <1>7 DEF HeartbeatNext

\* For every set of processes, every mode and every bound: a heartbeat is a
\* behaviour of the ledger.
THEOREM OnLedger == HeartbeatSpec => Spec
  <1>1. TypeInv => TypeOK
    BY DEF TypeInv
  <1>2. HeartbeatInit => Init
    BY DEF HeartbeatInit
  <1>3. TypeInv /\ [HeartbeatNext]_hvars => [Next]_vars /\ TypeInv'
    BY <1>1, LedgerStep, TypeStep
  <1> QED
    BY <1>2, <1>3, TypeInit, PTL DEF HeartbeatSpec, Spec

\* Whatever ticks, commands and faults meet: the chain holds, a round that anybody was
\* told of stays, STATE_CURRENT.json and events.log follow the ledger, verify raises no
\* false alarm, what is durable is not rewritten, what is cut is saved, an append that
\* succeeds heals, and the ledger is a log.
THEOREM LedgerUnderHeartbeat ==
  HeartbeatSpec =>
    /\ [](ChainIntact /\ PublishedSurvives /\ CurrentNotBehindAcked /\ EventsInOrder /\ QuietVerifies)
    /\ DurableAppendOnly /\ CutIsSaved /\ AppendHeals /\ VerdictHolds /\ Logged
  <1>1. HeartbeatSpec => [](ChainIntact /\ PublishedSurvives)
    BY OnLedger, ChainCorrect, PublishedCorrect, PTL
  <1>2. HeartbeatSpec => [](CurrentNotBehindAcked /\ EventsInOrder /\ QuietVerifies)
    BY OnLedger, CurrentCorrect, EventsCorrect, QuietCorrect, PTL
  <1>3. HeartbeatSpec => DurableAppendOnly /\ CutIsSaved /\ AppendHeals /\ VerdictHolds /\ Logged
    BY OnLedger, DurableCorrect, CutCorrect, HealsCorrect, VerdictCorrect, LogCorrect, PTL
  <1> QED
    BY <1>1, <1>2, <1>3, PTL

-----------------------------------------------------------------------------
(* The ticks.                                                              *)

\* The values tick can take are ticks.
LEMMA TickValues ==
  /\ \A c \in Code : Off(c) \in Tick
  /\ TickTypeOK => Disturbed \in [Process -> Tick]
  BY DEF Off, Tick, Code, Digest, Disturbed, TickTypeOK

\* Init makes ticks.
LEMMA TickTypeInit == HeartbeatInit => TickTypeOK
  BY TickValues DEF HeartbeatInit, TickTypeOK, Code

\* Every step of a heartbeat leaves ticks ticks.
LEMMA TickTypeStep == TypeOK /\ TickTypeOK /\ [HeartbeatNext]_hvars => TickTypeOK'
  <1> SUFFICES ASSUME TypeOK, TickTypeOK, [HeartbeatNext]_hvars PROVE TickTypeOK'
    OBVIOUS
  <1>0. Disturbed \in [Process -> Tick] /\ \A c \in Code : Off(c) \in Tick
    BY TickValues
  <1>1. CASE UNCHANGED hvars
    BY <1>1 DEF hvars, TickTypeOK
  <1>2. ASSUME NEW p \in Process, Begin(p) PROVE TickTypeOK'
    BY <1>0, <1>2 DEF Begin, TickTypeOK, Tick, Code, Off, Digest
  <1>3. ASSUME NEW p \in Process, TickStep(p) PROVE TickTypeOK'
    <2>1. CASE CheckChain(p) \/ ChainChecked(p)
      BY <2>1 DEF CheckChain, ChainChecked, Checked, TickTypeOK, Tick
    <2>2. CASE CheckOthers(p)
      <3>1. PICK passed \in BOOLEAN :
              tick' = [tick EXCEPT ![p].at = "record", ![p].red = @ \/ ~passed]
        BY <2>2 DEF CheckOthers
      <3>2. tick[p] \in Tick /\ (tick[p].red \/ ~passed) \in BOOLEAN
        BY DEF TickTypeOK
      <3>3. [tick[p] EXCEPT !.at = "record", !.red = tick[p].red \/ ~passed] \in Tick
        BY <3>2 DEF Tick
      <3>4. tick' \in [Process -> Tick]
        BY <3>1, <3>3 DEF TickTypeOK
      <3> QED
        BY <2>2, <3>4 DEF CheckOthers, TickTypeOK
    <2>3. CASE TickDerives(p)
      <3>1. started' \in Nat
        BY <2>3 DEF TickDerives, Derive, TypeOK
      <3> QED
        BY <2>3, <3>1, ZenonT(30) DEF TickDerives, TickTypeOK, Tick, Digest
    <2>4. ASSUME NEW c \in Code, Exits(p, c) PROVE tick' \in [Process -> Tick]
      BY <1>0, <2>4 DEF Exits, TickTypeOK, Tick
    <2>5. CASE DerivesNothing(p) \/ TickRefused(p)
      BY <2>4, <2>5 DEF DerivesNothing, TickRefused, Code, TickTypeOK
    <2>6. CASE TickRecorded(p)
      <3>1. clean' \in BOOLEAN /\ deaths' \in Nat
        BY <2>6 DEF TickRecorded, Heals, TickTypeOK
      <3> QED
        BY <2>4, <2>6, <3>1 DEF TickRecorded, Code, TickTypeOK
    <2>7. CASE TickAppends(p) \/ CommandSteps(p)
      BY <2>7 DEF TickAppends, CommandSteps, Heals, TickTypeOK
    <2> QED
      BY <1>3, <2>1, <2>2, <2>3, <2>5, <2>6, <2>7 DEF TickStep
  <1>4. ASSUME NEW p \in Process, CommandBegins(p) PROVE TickTypeOK'
    BY <1>0, <1>4 DEF CommandBegins, TickTypeOK
  <1>5. ASSUME NEW p \in Process, KillCommand(p) \/ KillTick(p) PROVE TickTypeOK'
    <2>1. clean' \in BOOLEAN /\ deaths' \in Nat
      <3>1. clean' = FALSE
        BY <1>5 DEF KillCommand, KillTick
      <3>2. CASE DiesApart
        <4>1. deaths \in Nat /\ deaths' = deaths + 1
          BY <3>2 DEF DiesApart, TickTypeOK
        <4>2. deaths' \in Nat
          BY <4>1
        <4> QED
          BY <3>1, <4>2, Zenon
      <3>3. CASE DiesAtWork(p)
        BY <3>1, <3>3 DEF DiesAtWork, TickTypeOK
      <3> QED
        BY <1>5, <3>2, <3>3 DEF KillCommand, KillTick
    <2>2. CASE KillCommand(p)
      <3>1. CASE tick[p].at \in {"start", "chain"}
        <4>1. tick' = [Disturbed EXCEPT ![p].at = "checks", ![p].chain = FALSE, ![p].red = TRUE]
          BY <2>2, <3>1 DEF KillCommand
        <4>2. [Disturbed[p] EXCEPT !.at = "checks", !.chain = FALSE, !.red = TRUE] \in Tick
          <5>1. Disturbed[p] \in Tick
            BY <1>0
          <5> HIDE DEF Disturbed
          <5> QED
            BY <5>1 DEF Tick
        <4> QED
          BY <1>0, <2>1, <4>1, <4>2 DEF TickTypeOK
      <3>2. CASE tick[p].at \in {"record", "append"}
        BY <1>0, <2>1, <2>2, <3>2 DEF KillCommand, TickTypeOK, Code
      <3>3. CASE tick[p].at \in {"off", "checks"}
        BY <1>0, <2>1, <2>2, <3>3 DEF KillCommand, TickTypeOK
      <3>4. tick[p].at \in {"off", "start", "chain", "checks", "record", "append"}
        BY DEF TickTypeOK, Tick
      <3> QED
        BY <3>1, <3>2, <3>3, <3>4
    <2>3. CASE KillTick(p)
      BY <1>0, <2>1, <2>3 DEF KillTick, TickTypeOK, Code
    <2> QED
      BY <1>5, <2>2, <2>3
  <1>6. ASSUME NEW p \in Process, CommandError(p) PROVE TickTypeOK'
    BY <1>0, <1>6 DEF CommandError, TickTypeOK, Code
  <1>7. CASE PowerFails
    BY <1>0, <1>7 DEF PowerFails, TickTypeOK, Code
  <1> QED
    BY <1>1, <1>2, <1>3, <1>4, <1>5, <1>6, <1>7 DEF HeartbeatNext

\* For every set of processes, every mode and every bound: ticks keep their
\* types, and exit with 0, 1 or 3.
THEOREM TickTypeCorrect == HeartbeatSpec => []TickTypeOK
  <1>1. TypeInv => TypeOK
    BY DEF TypeInv
  <1> QED
    BY <1>1, OnLedger, TypeInit, TypeStep, TickTypeInit, TickTypeStep, PTL DEF HeartbeatSpec, Spec

-----------------------------------------------------------------------------
(* The exit code.                                                          *)

\* The part of the lock an append is in.
Appending == {"opened", "part", "whole", "ended", "durable", "staged", "current"}

\* What the append of a tick is about: the round the tick derived, first as a
\* block that waits for the lock, then as what the holder of the lock writes.
IdInv ==
  \A p \in Process : tick[p].at = "append" =>
    /\ tick[p].id # 0
    /\ \/ pc[p] = "waiting" /\ block[p].id = tick[p].id
       \/ pc[p] \in Appending /\ out.hash = tick[p].id

\* A step of another process, or none, leaves what p appends alone.
LEMMA OthersApart ==
  ASSUME TypeInv, [Next]_vars, NEW p \in Process, pc'[p] = pc[p],
         pc[p] \in Appending \cup {"waiting"}
  PROVE  /\ pc[p] = "waiting" => block'[p] = block[p]
         /\ pc[p] \in Appending => out' = out
  <1>0. /\ pc \in [Process -> Pc] /\ block \in [Process -> Block] /\ LockInv
        /\ pc[p] \in Appending => lock = p
    BY DEF TypeInv, TypeOK, LockInv, Appending, Critical
  <1>1. CASE UNCHANGED vars
    BY <1>1 DEF vars
  <1>2. ASSUME NEW q \in Process, NEW m \in Modes, NEW t \in Task, Derive(q, m, t)
        PROVE  block'[p] = block[p] /\ out' = out
    BY <1>0, <1>2 DEF Derive, Goto, Appending
  <1>3. ASSUME NEW q \in Process, RepairBegin(q) \/ Verify(q)
        PROVE  block' = block /\ out' = out
    BY <1>3 DEF RepairBegin, Verify, VerifyUnreadable, VerifyRounds
  <1>4. ASSUME NEW q \in Process, AppendRefuse(q)
        PROVE  (pc[p] = "waiting" => block'[p] = block[p]) /\ out' = out
    BY <1>0, <1>4 DEF AppendRefuse, Goto
  <1>5. ASSUME NEW q \in Process, AppendBegin(q)
        PROVE  /\ pc[p] = "waiting" => block'[p] = block[p]
               /\ pc[p] \notin Appending
    BY <1>0, <1>5, ProcessAssumption DEF AppendBegin, Goto
  <1>6. ASSUME NEW q \in Process,
               \/ WritePart(q) \/ WriteRound(q) \/ WriteNewline(q) \/ Fsync(q)
               \/ StageCurrent(q) \/ ReplaceCurrent(q)
               \/ SaveFragment(q) \/ StageRounds(q) \/ ReplaceRounds(q) \/ FinishRepair(q)
               \/ VerifyCurrent(q)
        PROVE  block' = block /\ out' = out
    BY <1>6 DEF WritePart, WriteRound, WriteNewline, Fsync, StageCurrent, ReplaceCurrent,
                SaveFragment, StageRounds, ReplaceRounds, FinishRepair, VerifyCurrent
  <1>7. ASSUME NEW q \in Process, Finish(q)
        PROVE  block' = block /\ pc[p] \notin Appending
    BY <1>0, <1>7 DEF Finish, Goto, LockInv, Critical, Appending
  <1>8. ASSUME NEW q \in Process, Kill(q)
        PROVE  /\ pc[p] = "waiting" => block'[p] = block[p]
               /\ pc[p] \in Appending => out' = out
    BY <1>0, <1>8 DEF Kill, Goto, Appending
  <1>9. ASSUME NEW q \in Process, WriteError(q)
        PROVE  block' = block /\ pc[p] \notin Appending
    BY <1>0, <1>9 DEF WriteError, Goto, LockInv, Critical, Appending
  <1>10. CASE PowerLoss
    BY <1>10 DEF PowerLoss, Appending
  <1> QED
    BY <1>1, <1>2, <1>3, <1>4, <1>5, <1>6, <1>7, <1>8, <1>9, <1>10
       DEF Next, Request, Step

\* A command moves no process but its own.
LEMMA OwnPc ==
  ASSUME pc \in [Process -> Pc], NEW q \in Process, NEW p \in Process \ {q},
         Request(q) \/ RepairBegin(q) \/ Verify(q) \/ Step(q) \/ Kill(q) \/ WriteError(q)
  PROVE  pc'[p] = pc[p]
  <1>1. CASE Request(q) \/ RepairBegin(q) \/ Verify(q)
    BY <1>1 DEF Request, Derive, RepairBegin, Verify, VerifyUnreadable, VerifyRounds, Goto
  <1>2. CASE Step(q)
    BY <1>2 DEF Step, AppendRefuse, AppendBegin, WritePart, WriteRound, WriteNewline, Fsync,
                StageCurrent, ReplaceCurrent, Finish, SaveFragment, StageRounds, ReplaceRounds,
                FinishRepair, VerifyCurrent, Goto
  <1>3. CASE Kill(q) \/ WriteError(q)
    BY <1>3 DEF Kill, WriteError, Goto
  <1> QED
    BY <1>1, <1>2, <1>3

\* A step of a tick changes no tick but its own.
LEMMA OwnTick ==
  ASSUME TickTypeOK, NEW q \in Process, NEW p \in Process \ {q}, TickStep(q)
  PROVE  tick'[p] = tick[p]
  <1>0. tick \in [Process -> Tick]
    BY DEF TickTypeOK
  <1>1. CASE CheckChain(q) \/ ChainChecked(q) \/ CheckOthers(q)
    BY <1>0, <1>1 DEF CheckChain, ChainChecked, Checked, CheckOthers
  <1>2. CASE TickDerives(q) \/ TickAppends(q) \/ CommandSteps(q)
    BY <1>0, <1>2 DEF TickDerives, TickAppends, CommandSteps
  <1>3. CASE DerivesNothing(q) \/ TickRecorded(q) \/ TickRefused(q)
    BY <1>0, <1>3 DEF DerivesNothing, TickRecorded, TickRefused, Exits
  <1> QED
    BY <1>1, <1>2, <1>3 DEF TickStep

\* After a check a tick has not begun its append, and has not ended.
LEMMA CheckedTick ==
  ASSUME TickTypeOK, NEW p \in Process, CheckChain(p) \/ ChainChecked(p) \/ CheckOthers(p)
  PROVE  tick'[p].at \in {"chain", "checks", "record"}
  <1>0. tick \in [Process -> Tick]
    BY DEF TickTypeOK
  <1>1. ASSUME NEW b, Checked(p, b) PROVE tick'[p].at = "checks"
    BY <1>0, <1>1 DEF Checked, Tick
  <1>2. CASE CheckChain(p) \/ ChainChecked(p)
    BY <1>0, <1>1, <1>2 DEF CheckChain, ChainChecked, Tick
  <1>3. CASE CheckOthers(p)
    <2>1. PICK b : tick' = [tick EXCEPT ![p].at = "record", ![p].red = b]
      BY <1>3 DEF CheckOthers
    <2> QED
      BY <1>0, <2>1 DEF Tick
  <1> QED
    BY <1>2, <1>3

\* A fault leaves a tick where it was, ends it without a round, or turns its
\* check red.
LEMMA FaultTick ==
  ASSUME TickTypeOK, NEW q \in Process, NEW p \in Process,
         KillCommand(q) \/ KillTick(q) \/ CommandError(q)
  PROVE  \/ tick'[p] = Disturbed[p] /\ (q = p => tick[p].at # "append")
         \/ q = p /\ tick'[p] \in {Off(3), Off(9)}
         \/ q = p /\ tick'[p].at = "checks"
  <1>0. tick \in [Process -> Tick] /\ Disturbed \in [Process -> Tick]
    BY TickValues DEF TickTypeOK
  <1>1. CASE KillTick(q)
    BY <1>0, <1>1 DEF KillTick
  <1>2. CASE KillCommand(q)
    <2>1. CASE tick[q].at \in {"start", "chain"}
      BY <1>0, <1>2, <2>1 DEF KillCommand, Tick
    <2>2. CASE tick[q].at \in {"record", "append"}
      BY <1>0, <1>2, <2>2 DEF KillCommand
    <2>3. CASE tick[q].at \in {"off", "checks"}
      BY <1>0, <1>2, <2>3 DEF KillCommand
    <2> QED
      BY <1>0, <2>1, <2>2, <2>3 DEF Tick
  <1>3. CASE CommandError(q)
    BY <1>0, <1>3 DEF CommandError
  <1> QED
    BY <1>1, <1>2, <1>3

\* But for the steps in which its own tick derives or appends, a process whose
\* tick is at its append was there before, about the same round.
LEMMA AppendKept ==
  ASSUME TypeOK, TickTypeOK, [HeartbeatNext]_hvars, NEW p \in Process,
         tick'[p].at = "append", ~TickDerives(p), ~TickAppends(p)
  PROVE  tick[p].at = "append" /\ tick'[p].id = tick[p].id /\ pc'[p] = pc[p]
  <1>0. /\ pc \in [Process -> Pc] /\ tick \in [Process -> Tick]
        /\ Disturbed \in [Process -> Tick] /\ tick' \in [Process -> Tick]
        /\ Disturbed[p].at = tick[p].at /\ Disturbed[p].id = tick[p].id
    BY TickValues, TickTypeStep DEF TypeOK, TickTypeOK, Disturbed, Tick
  <1>1. CASE UNCHANGED hvars
    BY <1>1 DEF hvars, vars
  <1>2. ASSUME NEW q \in Process, Begin(q)
        PROVE  tick[p].at = "append" /\ tick'[p].id = tick[p].id /\ pc'[p] = pc[p]
    BY <1>0, <1>2 DEF Begin, vars, Off
  <1>3. ASSUME NEW q \in Process, TickStep(q)
        PROVE  tick[p].at = "append" /\ tick'[p].id = tick[p].id /\ pc'[p] = pc[p]
    <2>1. CASE q = p
      <3>1. CASE CheckChain(p) \/ ChainChecked(p) \/ CheckOthers(p)
        BY <3>1, CheckedTick
      <3>2. CASE DerivesNothing(p) \/ TickRecorded(p) \/ TickRefused(p)
        BY <1>0, <3>2 DEF DerivesNothing, TickRecorded, TickRefused, Exits, Off
      <3>3. CASE CommandSteps(p)
        BY <1>0, <3>3 DEF CommandSteps
      <3> QED
        BY <1>3, <2>1, <3>1, <3>2, <3>3 DEF TickStep
    <2>2. CASE q # p
      <3>1. tick'[p] = tick[p]
        BY <1>3, <2>2, OwnTick
      <3>2. pc'[p] = pc[p]
        <4>1. CASE CheckOthers(q) \/ DerivesNothing(q)
          BY <4>1 DEF CheckOthers, DerivesNothing, vars
        <4>2. CASE Request(q) \/ Verify(q) \/ Step(q)
          BY <1>0, <2>2, <4>2, OwnPc
        <4>3. CASE CheckChain(q) \/ TickDerives(q)
          BY <4>2, <4>3, InheritedTask, AutoRoundAssumption DEF CheckChain, TickDerives, Verify, Request
        <4>4. CASE \/ ChainChecked(q) \/ TickAppends(q) \/ TickRecorded(q) \/ TickRefused(q)
                   \/ CommandSteps(q)
          BY <4>2, <4>4 DEF ChainChecked, TickAppends, TickRecorded, TickRefused, CommandSteps, Step
        <4> QED
          BY <1>3, <4>1, <4>3, <4>4 DEF TickStep
      <3> QED
        BY <1>3, <2>2, <3>1, <3>2
    <2> QED
      BY <2>1, <2>2
  <1>4. ASSUME NEW q \in Process, CommandBegins(q)
        PROVE  tick[p].at = "append" /\ tick'[p].id = tick[p].id /\ pc'[p] = pc[p]
    <2>1. tick'[p].at = tick[p].at /\ tick'[p].id = tick[p].id /\ q # p
      BY <1>0, <1>4 DEF CommandBegins
    <2>2. Request(q) \/ RepairBegin(q)
      BY <1>4 DEF CommandBegins
    <2> QED
      BY <1>0, <2>1, <2>2, OwnPc
  <1>5. ASSUME NEW q \in Process, KillCommand(q) \/ KillTick(q)
        PROVE  tick[p].at = "append" /\ tick'[p].id = tick[p].id /\ pc'[p] = pc[p]
    <2>1. q # p /\ tick'[p] = Disturbed[p]
      BY <1>0, <1>5, FaultTick DEF Off
    <2>2. Kill(q) \/ UNCHANGED vars
      BY <1>5 DEF KillCommand, KillTick, DiesAtWork, DiesApart
    <2>3. pc'[p] = pc[p]
      BY <1>0, <2>1, <2>2, OwnPc DEF vars
    <2> QED
      BY <1>0, <2>1, <2>3
  <1>6. ASSUME NEW q \in Process, CommandError(q)
        PROVE  tick[p].at = "append" /\ tick'[p].id = tick[p].id /\ pc'[p] = pc[p]
    <2>1. q # p /\ tick'[p] = Disturbed[p]
      BY <1>0, <1>6, FaultTick DEF Off
    <2>2. pc'[p] = pc[p]
      BY <1>0, <1>6, <2>1, OwnPc DEF CommandError
    <2> QED
      BY <1>0, <2>1, <2>2
  <1>7. CASE PowerFails
    BY <1>7 DEF PowerFails, Off
  <1> QED
    BY <1>1, <1>2, <1>3, <1>4, <1>5, <1>6, <1>7 DEF HeartbeatNext

\* The append of a tick stays about the round the tick derived.
LEMMA IdStep ==
  TypeInv /\ TickTypeOK /\ IdInv /\ [HeartbeatNext]_hvars => IdInv'
  <1> SUFFICES ASSUME TypeInv, TickTypeOK, IdInv, [HeartbeatNext]_hvars,
                      NEW p \in Process, tick'[p].at = "append"
               PROVE  /\ tick'[p].id # 0
                      /\ \/ pc'[p] = "waiting" /\ block'[p].id = tick'[p].id
                         \/ pc'[p] \in Appending /\ out'.hash = tick'[p].id
    BY DEF IdInv
  <1>0. /\ TypeOK /\ pc \in [Process -> Pc] /\ block \in [Process -> Block]
        /\ tick \in [Process -> Tick] /\ [Next]_vars
    BY LedgerStep DEF TypeInv, TypeOK, TickTypeOK
  <1>1. CASE TickDerives(p)
    <2>2. started' = started + 1 /\ started \in Nat /\ pc'[p] = "waiting" /\ block'[p].id = started + 1
      BY <1>0, <1>1 DEF TickDerives, Derive, Goto, TypeOK
    <2>3. tick'[p].id = started'
      BY <1>0, <1>1 DEF TickDerives
    <2> QED
      BY <2>2, <2>3
  <1>2. CASE TickAppends(p)
    <2>1. Step(p) /\ pc'[p] # "idle" /\ tick' = tick /\ tick[p].at = "append"
      BY <1>2 DEF TickAppends
    <2>2. CASE pc[p] = "waiting"
      <3>1. AppendBegin(p)
        BY <1>0, <2>1, <2>2 DEF Step, AppendRefuse, WritePart, WriteRound, WriteNewline, Fsync,
           StageCurrent, ReplaceCurrent, Finish, SaveFragment, StageRounds, ReplaceRounds,
           FinishRepair, VerifyCurrent, Goto
      <3>2. pc'[p] = "opened" /\ out'.hash = block[p].id
        BY <1>0, <3>1 DEF AppendBegin, Goto, WrapperFor
      <3> QED
        BY <2>1, <2>2, <3>2 DEF IdInv, Appending
    <2>3. CASE pc[p] \in Appending
      <3>1. \/ WritePart(p) \/ WriteRound(p) \/ WriteNewline(p) \/ Fsync(p)
            \/ StageCurrent(p) \/ ReplaceCurrent(p)
        BY <1>0, <2>1, <2>3 DEF Step, AppendRefuse, AppendBegin, Finish, SaveFragment, StageRounds,
           ReplaceRounds, FinishRepair, VerifyCurrent, Goto, Appending
      <3>2. pc'[p] \in Appending /\ out' = out
        BY <1>0, <3>1 DEF WritePart, WriteRound, WriteNewline, Fsync, StageCurrent, ReplaceCurrent,
           Goto, Appending
      <3> QED
        BY <2>1, <2>3, <3>2 DEF IdInv, Appending
    <2> QED
      BY <2>1, <2>2, <2>3 DEF IdInv
  <1>3. CASE ~TickDerives(p) /\ ~TickAppends(p)
    <2>1. tick[p].at = "append" /\ tick'[p].id = tick[p].id /\ pc'[p] = pc[p]
      BY <1>0, <1>3, AppendKept
    <2>2. pc[p] \in Appending \cup {"waiting"}
      BY <2>1 DEF IdInv
    <2> QED
      BY <1>0, <2>1, <2>2, OthersApart DEF IdInv, Appending
  <1> QED
    BY <1>1, <1>2, <1>3

\* For every set of processes, every mode and every bound: a tick that exits 0
\* or 1 has left its round in the ledger.
THEOREM RecordedCorrect == HeartbeatSpec => ExitMeansRecorded
  <1>1. HeartbeatInit => IdInv
    BY DEF HeartbeatInit, IdInv, Off
  <1>2. ASSUME TypeInv, TickTypeOK, IdInv, PublishedSurvives', [HeartbeatNext]_hvars,
               NEW p \in Process, tick[p].at # "off", tick'[p].at = "off", tick'[p].code \in {0, 1}
        PROVE  /\ tick[p].id \in acked'
               /\ tick[p].id \in Hashes(file'.lines) \cup TailHashes(file')
    <2>0. TypeOK /\ tick \in [Process -> Tick] /\ pc \in [Process -> Pc]
      BY <1>2 DEF TypeInv, TypeOK, TickTypeOK
    <2>1. TickRecorded(p)
      <3>0. Disturbed[p].at = tick[p].at /\ Off(3).code = 3 /\ Off(9).code = 9
        BY <2>0 DEF Disturbed, Tick, Off
      <3>1. tick'[p] # Disturbed[p] /\ tick'[p] # tick[p] /\ tick'[p] \notin {Off(3), Off(9)}
        BY <1>2, <3>0
      <3>2. ~UNCHANGED hvars
        BY <3>1 DEF hvars
      <3>3. ASSUME NEW q \in Process, Begin(q) PROVE FALSE
        BY <1>2, <2>0, <3>1, <3>3, TickValues DEF Begin
      <3>4. ASSUME NEW q \in Process, CommandBegins(q) PROVE FALSE
        BY <3>1, <3>4 DEF CommandBegins
      <3>5. ASSUME NEW q \in Process, KillCommand(q) \/ KillTick(q) \/ CommandError(q) PROVE FALSE
        BY <1>2, <3>1, <3>5, FaultTick
      <3>6. ~PowerFails
        BY <3>1 DEF PowerFails
      <3>7. ASSUME NEW q \in Process, TickStep(q) PROVE TickRecorded(p)
        <4>1. CASE q # p
          BY <3>1, <3>7, <4>1, OwnTick, <1>2
        <4>2. CASE TickStep(p)
          <5>1. ~CheckChain(p) /\ ~ChainChecked(p) /\ ~CheckOthers(p)
            BY <1>2, CheckedTick
          <5>2. ~TickDerives(p) /\ ~TickAppends(p) /\ ~CommandSteps(p)
            <6>1. ~TickAppends(p) /\ ~CommandSteps(p)
              BY <3>1 DEF TickAppends, CommandSteps
            <6>2. TickDerives(p) => tick'[p].at = "append"
              BY <2>0 DEF TickDerives
            <6> QED
              BY <1>2, <6>1, <6>2
          <5>3. ~DerivesNothing(p) /\ ~TickRefused(p)
            BY <1>2, <2>0, <3>0 DEF DerivesNothing, TickRefused, Exits, Off
          <5> QED
            BY <4>2, <5>1, <5>2, <5>3 DEF TickStep
        <4> QED
          BY <3>7, <4>1, <4>2
      <3> QED
        BY <1>2, <3>2, <3>3, <3>4, <3>5, <3>6, <3>7 DEF HeartbeatNext
    <2>2. pc[p] = "current" /\ tick[p].at = "append" /\ acked' = acked \cup {out.hash}
      BY <2>1 DEF TickRecorded, Finish
    <2>3. tick[p].id # 0 /\ out.hash = tick[p].id
      BY <1>2, <2>2 DEF IdInv
    <2>4. tick[p].id \in Published'
      BY <2>2, <2>3 DEF Published
    <2> QED
      BY <1>2, <2>2, <2>3, <2>4 DEF PublishedSurvives
  <1>3. TypeInv /\ TickTypeOK /\ IdInv /\ PublishedSurvives' /\ [HeartbeatNext]_hvars =>
          [\A p \in Process :
             tick[p].at # "off" /\ tick'[p].at = "off" /\ tick'[p].code \in {0, 1} =>
               /\ tick[p].id \in acked'
               /\ tick[p].id \in Hashes(file'.lines) \cup TailHashes(file')]_hvars
    BY <1>2
  <1>4. HeartbeatSpec => [](TypeInv /\ TickTypeOK /\ PublishedSurvives)
    BY OnLedger, TypeInit, TypeStep, TickTypeCorrect, PublishedCorrect, PTL DEF Spec
  <1> QED
    BY <1>1, <1>3, <1>4, IdStep, PTL DEF HeartbeatSpec, ExitMeansRecorded

-----------------------------------------------------------------------------
(* A tick nobody disturbs.                                                 *)

\* A history that is clean has left nothing to repair.
CleanInv == clean => Quiet

\* A tick that has met no other command and no fault: every other process is idle and
\* has no tick, and its own is where the tick is.
AloneAt(p) ==
  /\ \A q \in Process \ {p} : pc[q] = "idle" /\ tick[q].at = "off"
  /\ tick[p].at \in {"off", "start", "checks", "record"} => pc[p] = "idle"
  /\ tick[p].at = "chain" => pc[p] = "verify"
  /\ tick[p].at = "append" /\ pc[p] = "waiting" => block[p].mode = AutoRound

AloneInv == \A p \in Process : tick[p].alone => AloneAt(p)

\* What it has found, and the verify it may be in, in a clean history of one agent.
Green(p) ==
  /\ tick[p].at # "off" => tick[p].chain
  /\ tick[p].code # 3
  /\ tick[p].at = "chain" => seen[p].sound /\ seen[p].last = LastHash(file.lines)

GreenInv == OneAgent => \A p \in Process : tick[p].alone /\ clean => Green(p)

\* The append that ends leaves nothing to repair, if its line is not buried.
LEMMA FinishQuiet ==
  ASSUME TypeInv, ClaimInv, AfterInv, NEW p \in Process, Finish(p), ~file'.buried
  PROVE Quiet'
  <1>0. pc \in [Process -> Pc] /\ pc[p] = "current" /\ p # NoOne
    BY ProcessAssumption DEF TypeInv, TypeOK, Finish
  <1>1. file' = file /\ cur' = cur /\ pc' = [pc EXCEPT ![p] = "idle"]
    BY DEF Finish, Goto
  <1>2. lock = p /\ \A q \in Process \ {p} : pc[q] \notin Critical
    BY <1>0 DEF TypeInv, LockInv, Critical
  <1>3. \A q \in Process : pc'[q] \notin Critical
    BY <1>0, <1>1, <1>2 DEF Critical
  <1>4. file.tail = <<>> /\ cur = out.hash
    BY <1>0, <1>1 DEF AfterInv, Written
  <1>5. cur = LastHash(file.lines)
    BY <1>0, <1>1, <1>4 DEF ClaimInv, Written, LastHash
  <1> QED
    BY <1>1, <1>3, <1>4, <1>5 DEF Quiet, Critical

\* What is no fault is counted as none.
LEMMA CountsNoFault ==
  ASSUME NEW p \in Process, Request(p) \/ RepairBegin(p) \/ Verify(p) \/ Step(p)
  PROVE faults' = faults
  BY DEF Step, Request, Derive, AppendRefuse, AppendBegin, WritePart, WriteRound, WriteNewline,
     Fsync, StageCurrent, ReplaceCurrent, Finish, RepairBegin, SaveFragment, StageRounds,
     ReplaceRounds, FinishRepair, Verify, VerifyUnreadable, VerifyRounds, VerifyCurrent

\* After a step with which a clean history stays clean, or becomes clean, there is
\* nothing to repair.
LEMMA CleanStep ==
  TypeInv /\ ClaimInv /\ AfterInv /\ CleanInv /\ [HeartbeatNext]_hvars => CleanInv'
  <1> SUFFICES ASSUME TypeInv, ClaimInv, AfterInv, CleanInv, [HeartbeatNext]_hvars, clean'
               PROVE Quiet'
    BY DEF CleanInv
  <1>0. TypeOK /\ [Next]_vars
    BY LedgerStep DEF TypeInv
  <1>1. clean /\ faults' = faults => Quiet'
    BY <1>0, QuietStep DEF CleanInv
  <1>2. CASE UNCHANGED hvars
    BY <1>1, <1>2 DEF hvars, vars
  <1>3. ASSUME NEW p \in Process, Begin(p) PROVE Quiet'
    BY <1>1, <1>3 DEF Begin, vars
  <1>4. ASSUME NEW p \in Process, Heals, Step(p) PROVE Quiet'
    <2>1. faults' = faults
      BY <1>4, CountsNoFault
    <2>2. CASE ~clean
      <3>1. acked' # acked /\ ~file'.buried
        BY <1>4, <2>2 DEF Heals
      <3>2. Finish(p)
        BY <1>4, <3>1 DEF Step, AppendRefuse, AppendBegin, WritePart, WriteRound, WriteNewline,
           Fsync, StageCurrent, ReplaceCurrent, SaveFragment, StageRounds, ReplaceRounds,
           FinishRepair, VerifyCurrent
      <3> QED
        BY <3>1, <3>2, FinishQuiet
    <2> QED
      BY <1>1, <2>1, <2>2
  <1>5. ASSUME NEW p \in Process, TickStep(p) PROVE Quiet'
    <2>1. CASE CheckChain(p)
      <3>1. Verify(p) /\ clean' = clean
        BY <2>1 DEF CheckChain, Verify
      <3> QED
        BY <1>1, <3>1, CountsNoFault
    <2>2. CASE CheckOthers(p) \/ DerivesNothing(p)
      BY <1>1, <2>2 DEF CheckOthers, DerivesNothing, vars
    <2>3. CASE TickDerives(p)
      <3>1. Request(p) /\ clean' = clean
        BY <1>0, <2>3, InheritedTask, AutoRoundAssumption DEF TickDerives, Request
      <3> QED
        BY <1>1, <3>1, CountsNoFault
    <2>4. CASE ChainChecked(p) \/ TickAppends(p) \/ TickRefused(p)
      <3>1. Step(p) /\ clean' = clean
        BY <2>4 DEF ChainChecked, TickAppends, TickRefused, Step
      <3> QED
        BY <1>1, <3>1, CountsNoFault
    <2>5. CASE TickRecorded(p) \/ CommandSteps(p)
      BY <1>4, <2>5 DEF TickRecorded, CommandSteps, Step
    <2> QED
      BY <1>5, <2>1, <2>2, <2>3, <2>4, <2>5 DEF TickStep
  <1>6. ASSUME NEW p \in Process, CommandBegins(p) PROVE Quiet'
    <2>1. (Request(p) \/ RepairBegin(p)) /\ clean' = clean
      BY <1>6 DEF CommandBegins
    <2> QED
      BY <1>1, <2>1, CountsNoFault
  <1>7. ASSUME NEW p \in Process, KillCommand(p) \/ KillTick(p) \/ CommandError(p) PROVE Quiet'
    BY <1>7 DEF KillCommand, KillTick, CommandError
  <1>8. CASE PowerFails
    BY <1>8 DEF PowerFails
  <1> QED
    BY <1>2, <1>3, <1>5, <1>6, <1>7, <1>8 DEF HeartbeatNext

\* A tick is alone because it has begun when nothing else was under way, or because it
\* was alone and what has happened is a step of its own.
LEMMA AloneMoves ==
  ASSUME TypeOK, TickTypeOK, AloneInv, [HeartbeatNext]_hvars, NEW p \in Process, tick'[p].alone
  PROVE \/ UNCHANGED hvars
        \/ Begin(p)
        \/ tick[p].alone /\ TickStep(p) /\ ~CommandSteps(p)
  <1>0. tick \in [Process -> Tick] /\ Disturbed \in [Process -> Tick] /\ pc \in [Process -> Pc]
    BY TickValues DEF TickTypeOK, TypeOK
  <1>1. ~Disturbed[p].alone /\ ~Off(3).alone /\ ~Off(9).alone
    BY <1>0 DEF Disturbed, Tick, Off
  <1>2. ASSUME NEW q \in Process, Begin(q) PROVE Begin(p)
    BY <1>0, <1>1, <1>2 DEF Begin
  <1>3. ASSUME NEW q \in Process, CommandBegins(q) PROVE FALSE
    BY <1>1, <1>3 DEF CommandBegins
  <1>4. ASSUME NEW q \in Process, KillCommand(q) \/ KillTick(q) \/ CommandError(q) PROVE FALSE
    <2>1. KillTick(q) \/ CommandError(q) => ~tick'[p].alone
      BY <1>0, <1>1 DEF KillTick, CommandError
    <2>2. CASE KillCommand(q)
      <3>1. CASE tick[q].at \in {"start", "chain"}
        <4>1. tick' = [Disturbed EXCEPT ![q].at = "checks", ![q].chain = FALSE, ![q].red = TRUE]
          BY <2>2, <3>1 DEF KillCommand
        <4>2. tick'[p].alone = Disturbed[p].alone
          <5> HIDE DEF Disturbed
          <5> QED
            BY <1>0, <4>1, ZenonT(30) DEF Tick
        <4> QED
          BY <1>1, <4>2
      <3>2. CASE tick[q].at \in {"record", "append"}
        BY <1>0, <1>1, <2>2, <3>2 DEF KillCommand
      <3>3. CASE tick[q].at \in {"off", "checks"}
        BY <1>0, <1>1, <2>2, <3>3 DEF KillCommand
      <3> QED
        BY <1>0, <3>1, <3>2, <3>3 DEF Tick
    <2> QED
      BY <1>4, <2>1, <2>2
  <1>5. ~PowerFails
    BY <1>1 DEF PowerFails
  <1>6. ASSUME NEW q \in Process, TickStep(q) PROVE tick[p].alone /\ TickStep(p) /\ ~CommandSteps(p)
    <2>1. tick[p].alone
      <3>1. CASE q # p
        BY <1>6, <3>1, OwnTick
      <3>2. CASE CheckChain(p) \/ ChainChecked(p) \/ CheckOthers(p) \/ TickDerives(p)
        <4>1. ASSUME NEW b \in BOOLEAN, Checked(p, b) PROVE tick'[p].alone = tick[p].alone
          <5>1. tick'[p] = [tick[p] EXCEPT !.at = "checks", !.chain = b, !.red = ~b]
            BY <1>0, <4>1 DEF Checked
          <5>2. tick[p] \in Tick
            BY <1>0
          <5> QED
            BY <5>1, <5>2 DEF Tick
        <4>2. CASE CheckChain(p) \/ ChainChecked(p)
          BY <1>0, <4>1, <4>2 DEF CheckChain, ChainChecked, Tick
        <4>3. CASE CheckOthers(p)
          <5>1. PICK b : tick' = [tick EXCEPT ![p].at = "record", ![p].red = b]
            BY <4>3 DEF CheckOthers
          <5> QED
            BY <1>0, <5>1 DEF Tick
        <4>4. CASE TickDerives(p)
          BY <1>0, <4>4 DEF TickDerives, Tick
        <4> QED
          BY <3>2, <4>2, <4>3, <4>4
      <3>3. CASE DerivesNothing(p) \/ TickRecorded(p) \/ TickRefused(p)
        BY <1>0, <3>3 DEF DerivesNothing, TickRecorded, TickRefused, Exits, Off
      <3>4. CASE TickAppends(p) \/ CommandSteps(p)
        BY <3>4 DEF TickAppends, CommandSteps
      <3> QED
        BY <1>6, <3>1, <3>2, <3>3, <3>4 DEF TickStep
    <2>2. \A r \in Process : tick[r].at = "off" => ~CommandSteps(r)
      <3>1. ASSUME NEW r \in Process, tick[r].at = "off", CommandSteps(r) PROVE FALSE
        <4>1. pc[r] = "idle"
          BY <2>1, <3>1 DEF AloneInv, AloneAt
        <4> QED
          BY <3>1, <4>1 DEF CommandSteps, Step, AppendRefuse, AppendBegin, WritePart, WriteRound,
             WriteNewline, Fsync, StageCurrent, ReplaceCurrent, Finish, SaveFragment, StageRounds,
             ReplaceRounds, FinishRepair, VerifyCurrent
      <3> QED
        BY <3>1
    <2>3. q = p
      <3>1. tick[q].at # "off"
        BY <1>6, <2>2 DEF TickStep, CheckChain, ChainChecked, CheckOthers, TickDerives,
           DerivesNothing, TickAppends, TickRecorded, TickRefused
      <3> QED
        BY <2>1, <3>1 DEF AloneInv, AloneAt
    <2> QED
      BY <1>6, <2>1, <2>2, <2>3 DEF CommandSteps
  <1> QED
    BY <1>2, <1>3, <1>4, <1>5, <1>6 DEF HeartbeatNext
\* What a step of a tick alone does to the process it runs.
LEMMA AloneProcess ==
  ASSUME TypeOK, TickTypeOK, NEW p \in Process, AloneAt(p), TickStep(p), ~CommandSteps(p)
  PROVE /\ tick'[p].at \in {"off", "start", "checks", "record"} => pc'[p] = "idle"
        /\ tick'[p].at = "chain" => pc'[p] = "verify"
        /\ tick'[p].at = "append" /\ pc'[p] = "waiting" => block'[p].mode = AutoRound
  <1>0. /\ tick \in [Process -> Tick] /\ pc \in [Process -> Pc] /\ block \in [Process -> Block]
    BY DEF TickTypeOK, TypeOK
  <1>c. ASSUME NEW b \in BOOLEAN, Checked(p, b) PROVE tick'[p].at = "checks"
    <2>1. tick'[p] = [tick[p] EXCEPT !.at = "checks", !.chain = b, !.red = ~b]
      BY <1>0, <1>c DEF Checked
    <2>2. tick[p] \in Tick
      BY <1>0
    <2> QED
      BY <2>1, <2>2 DEF Tick
  <1>1. CASE CheckChain(p)
    <2>1. CASE VerifyUnreadable(p) /\ Checked(p, FALSE)
      BY <1>c, <2>1 DEF VerifyUnreadable
    <2>2. CASE VerifyRounds(p) /\ tick' = [tick EXCEPT ![p].at = "chain"]
      BY <1>0, <2>2 DEF VerifyRounds, Goto, Tick
    <2> QED
      BY <1>1, <2>1, <2>2 DEF CheckChain
  <1>2. CASE ChainChecked(p)
    BY <1>0, <1>c, <1>2 DEF ChainChecked, VerifyCurrent, Goto
  <1>3. CASE CheckOthers(p)
    <2>1. PICK b : tick' = [tick EXCEPT ![p].at = "record", ![p].red = b]
      BY <1>3 DEF CheckOthers
    <2>2. tick'[p].at = "record" /\ pc' = pc /\ tick[p].at = "checks"
      BY <1>0, <1>3, <2>1 DEF CheckOthers, Tick, vars
    <2> QED
      BY <2>2 DEF AloneAt
  <1>4. CASE TickDerives(p)
    <2>1. tick'[p].at = "append" /\ block'[p].mode = AutoRound
      BY <1>0, <1>4 DEF TickDerives, Derive, Tick
    <2> QED
      BY <2>1
  <1>5. CASE DerivesNothing(p)
    <2>1. tick'[p].at = "off" /\ pc' = pc /\ tick[p].at = "record"
      BY <1>0, <1>5 DEF DerivesNothing, Exits, Off, vars
    <2> QED
      BY <2>1 DEF AloneAt
  <1>6. CASE TickAppends(p)
    <2>1. tick'[p].at = "append" /\ pc'[p] # "waiting"
      BY <1>0, <1>6 DEF TickAppends, Step, AppendRefuse, AppendBegin, WritePart, WriteRound,
         WriteNewline, Fsync, StageCurrent, ReplaceCurrent, Finish, SaveFragment, StageRounds,
         ReplaceRounds, FinishRepair, VerifyCurrent, Goto
    <2> QED
      BY <2>1
  <1>7. CASE TickRecorded(p) \/ TickRefused(p)
    <2>1. tick'[p].at = "off" /\ pc'[p] = "idle"
      BY <1>0, <1>7 DEF TickRecorded, TickRefused, Exits, Off, Finish, AppendRefuse, Goto
    <2> QED
      BY <2>1
  <1> QED
    BY <1>1, <1>2, <1>3, <1>4, <1>5, <1>6, <1>7 DEF TickStep

\* What a step of a tick leaves alone.
LEMMA OthersRest ==
  ASSUME TypeOK, TickTypeOK, NEW p \in Process, NEW q \in Process \ {p}, TickStep(p)
  PROVE tick'[q] = tick[q] /\ pc'[q] = pc[q]
  <1>1. CASE CheckOthers(p) \/ DerivesNothing(p)
    BY <1>1, OwnTick DEF CheckOthers, DerivesNothing, vars
  <1>2. CASE CheckChain(p)
    BY <1>2, OwnTick, OwnPc DEF CheckChain, Verify, TypeOK
  <1>3. CASE TickDerives(p)
    <2>1. Request(p)
      BY <1>3, InheritedTask, AutoRoundAssumption DEF TickDerives, Request
    <2> QED
      BY <2>1, OwnTick, OwnPc DEF TypeOK
  <1>4. CASE \/ ChainChecked(p) \/ TickAppends(p) \/ TickRecorded(p) \/ TickRefused(p)
             \/ CommandSteps(p)
    <2>1. Step(p)
      BY <1>4 DEF ChainChecked, TickAppends, TickRecorded, TickRefused, CommandSteps, Step
    <2> QED
      BY <2>1, OwnTick, OwnPc DEF TypeOK
  <1> QED
    BY <1>1, <1>2, <1>3, <1>4 DEF TickStep

\* A tick that is alone finds nothing else under way.
LEMMA AloneStep == TypeOK /\ TickTypeOK /\ AloneInv /\ [HeartbeatNext]_hvars => AloneInv'
  <1> SUFFICES ASSUME TypeOK, TickTypeOK, AloneInv, [HeartbeatNext]_hvars,
                      NEW p \in Process, tick'[p].alone
               PROVE  AloneAt(p)'
    BY DEF AloneInv
  <1>0. tick \in [Process -> Tick] /\ Disturbed \in [Process -> Tick]
    BY TickValues DEF TickTypeOK
  <1>1. CASE UNCHANGED hvars
    BY <1>1 DEF hvars, vars, AloneInv, AloneAt
  <1>2. CASE Begin(p)
    <2>1. tick'[p].at = "start" /\ \A q \in Process \ {p} : tick'[q].at = tick[q].at
      <3>1. \A q \in Process : Disturbed[q].at = tick[q].at
        BY <1>0 DEF Disturbed, Tick
      <3>2. tick'[p].at = "start" /\ \A q \in Process \ {p} : tick'[q] = Disturbed[q]
        <4> HIDE DEF Disturbed
        <4> QED
          BY <1>0, <1>2 DEF Begin, Off
      <3> QED
        BY <3>1, <3>2
    <2>2. \A q \in Process \ {p} : pc[q] = "idle" /\ tick[q].at = "off"
      BY <1>0, <1>2 DEF Begin, Off
    <2>3. pc' = pc /\ pc[p] = "idle"
      BY <1>2 DEF Begin, vars
    <2> QED
      BY <2>1, <2>2, <2>3 DEF AloneAt
  <1>3. CASE tick[p].alone /\ TickStep(p) /\ ~CommandSteps(p)
    <2>1. AloneAt(p)
      BY <1>3 DEF AloneInv
    <2>2. \A q \in Process \ {p} : pc'[q] = "idle" /\ tick'[q].at = "off"
      BY <1>3, <2>1, OthersRest DEF AloneAt
    <2> QED
      BY <1>3, <2>1, <2>2, AloneProcess DEF AloneAt
  <1> QED
    BY <1>1, <1>2, <1>3, AloneMoves

\* Nobody appends while a tick alone is not at its append: the ledger is as it was left.
LEMMA AloneQuiet ==
  ASSUME ChainInv, NameInv, CleanInv, clean, OneAgent, NEW p \in Process, AloneAt(p),
         pc[p] \notin Critical
  PROVE /\ Rounds(file) = file.lines /\ Readable(file) /\ ChainSound(file.lines)
        /\ CurrentMatches(LastHash(file.lines), cur)
  <1>1. \A q \in Process : pc[q] \notin Critical
    BY DEF AloneAt, Critical
  <1> QED
    BY <1>1, QuietPasses DEF CleanInv

\* The append of a tick that is alone is not refused: its block is renumbered, and of
\* the agent of the rounds before it.
LEMMA AloneAppends ==
  ASSUME TypeOK, ChainInv, NameInv, CleanInv, clean, OneAgent, NEW p \in Process, AloneAt(p),
         tick[p].at = "append"
  PROVE ~AppendRefuse(p)
  <1> SUFFICES ASSUME AppendRefuse(p) PROVE FALSE
    OBVIOUS
  <1>1. pc[p] = "waiting" /\ Refused(block[p])
    BY DEF AppendRefuse
  <1>2. Rounds(file) = file.lines /\ Readable(file)
    BY <1>1, AloneQuiet DEF Critical
  <1>3. block[p].mode.auto /\ block[p].name = Agent[p]
    BY <1>1 DEF AloneAt, AutoRound, NameInv
  <1>4. file.lines # <<>> => file.lines[Len(file.lines)].name = Agent[p]
    <2> SUFFICES ASSUME file.lines # <<>> PROVE file.lines[Len(file.lines)].name = Agent[p]
      OBVIOUS
    <2>1. file.lines \in Seq(Wrapper)
      BY DEF TypeOK, File
    <2>2. Len(file.lines) \in 1..Len(file.lines)
      BY <2>1
    <2>3. file.lines[Len(file.lines)] \in Within(file)
      BY <2>2 DEF Within
    <2> QED
      BY <2>3 DEF NameInv, Named, OneAgent
  <1>5. Follows(block[p], Rounds(file))
    BY <1>2, <1>3, <1>4 DEF Follows
  <1> QED
    BY <1>1, <1>2, <1>5 DEF Refused

\* What a step of a tick alone finds in a clean history is green.
LEMMA GreenProcess ==
  ASSUME TypeOK, TickTypeOK, ChainInv, NameInv, CleanInv, clean, OneAgent, NEW p \in Process,
         AloneAt(p), Green(p), TickStep(p), ~CommandSteps(p)
  PROVE Green(p)'
  <1>0. tick \in [Process -> Tick] /\ tick[p] \in Tick /\ seen \in [Process -> [sound : BOOLEAN, last : Digest]]
    BY DEF TickTypeOK, TypeOK
  <1>q. pc[p] \notin Critical =>
          /\ Rounds(file) = file.lines /\ Readable(file) /\ ChainSound(file.lines)
          /\ CurrentMatches(LastHash(file.lines), cur)
    BY AloneQuiet
  <1>1. CASE CheckChain(p)
    <2>1. Readable(file) /\ tick[p].at = "start"
      BY <1>1, <1>q DEF CheckChain, AloneAt, Critical
    <2>2. VerifyRounds(p) /\ tick' = [tick EXCEPT ![p].at = "chain"]
      BY <1>1, <2>1 DEF CheckChain, VerifyUnreadable
    <2>3. tick'[p] = [tick[p] EXCEPT !.at = "chain"]
      BY <1>0, <2>2
    <2>4. file' = file /\ seen'[p].sound /\ seen'[p].last = LastHash(file.lines)
      BY <1>0, <1>q, <2>2 DEF VerifyRounds, Critical
    <2> QED
      BY <1>0, <2>1, <2>3, <2>4 DEF Green, Tick
  <1>2. CASE ChainChecked(p)
    <2>1. tick[p].at = "chain" /\ pc[p] = "verify"
      BY <1>2 DEF ChainChecked, VerifyCurrent
    <2>2. verdict' = "intact"
      BY <1>2, <1>q, <2>1 DEF ChainChecked, VerifyCurrent, Green, Critical
    <2>3. Checked(p, TRUE)
      BY <1>2, <2>2 DEF ChainChecked
    <2>4. tick'[p] = [tick[p] EXCEPT !.at = "checks", !.chain = TRUE, !.red = FALSE]
      BY <1>0, <2>3 DEF Checked
    <2> QED
      BY <1>0, <2>4 DEF Green, Tick
  <1>3. CASE CheckOthers(p)
    <2>1. PICK b : tick' = [tick EXCEPT ![p].at = "record", ![p].red = b]
      BY <1>3 DEF CheckOthers
    <2>2. tick'[p] = [tick[p] EXCEPT !.at = "record", !.red = b]
      BY <1>0, <2>1
    <2>3. tick[p].at = "checks"
      BY <1>3 DEF CheckOthers
    <2> QED
      BY <1>0, <2>2, <2>3 DEF Green, Tick
  <1>4. CASE TickDerives(p)
    <2>1. tick'[p] = [tick[p] EXCEPT !.at = "append", !.id = started'] /\ tick[p].at = "record"
      BY <1>0, <1>4 DEF TickDerives
    <2> QED
      BY <1>0, <2>1 DEF Green, Tick
  <1>5. ~DerivesNothing(p)
    BY <1>q DEF DerivesNothing, AloneAt, Critical
  <1>6. CASE TickAppends(p)
    BY <1>6 DEF TickAppends, Green
  <1>7. CASE TickRecorded(p)
    <2>1. tick'[p].at = "off" /\ tick'[p].code \in {0, 1}
      BY <1>0, <1>7 DEF TickRecorded, Exits, Off
    <2> QED
      BY <2>1 DEF Green
  <1>8. ~TickRefused(p)
    BY AloneAppends DEF TickRefused
  <1> QED
    BY <1>1, <1>2, <1>3, <1>4, <1>5, <1>6, <1>7, <1>8 DEF TickStep

\* A tick that is alone in a clean history stays green: its history turns clean only
\* with the append that ends it.
LEMMA GreenStep ==
  TypeOK /\ TickTypeOK /\ ChainInv /\ NameInv /\ CleanInv /\ AloneInv /\ GreenInv
    /\ [HeartbeatNext]_hvars => GreenInv'
  <1> SUFFICES ASSUME TypeOK, TickTypeOK, ChainInv, NameInv, CleanInv, AloneInv, GreenInv,
                      [HeartbeatNext]_hvars, OneAgent, NEW p \in Process, tick'[p].alone, clean'
               PROVE  Green(p)'
    BY DEF GreenInv, OneAgent
  <1>0. tick \in [Process -> Tick] /\ Disturbed \in [Process -> Tick]
    BY TickValues DEF TickTypeOK
  <1>1. CASE UNCHANGED hvars
    BY <1>1 DEF hvars, vars, GreenInv, Green
  <1>2. CASE Begin(p)
    <2>1. tick'[p].at = "start" /\ tick'[p].chain /\ tick'[p].code = 9
      BY <1>0, <1>2 DEF Begin, Off
    <2> QED
      BY <2>1 DEF Green
  <1>3. CASE tick[p].alone /\ TickStep(p) /\ ~CommandSteps(p)
    <2>1. AloneAt(p)
      BY <1>3 DEF AloneInv
    <2>2. CASE clean
      BY <1>3, <2>1, <2>2, GreenProcess DEF GreenInv
    <2>3. CASE ~clean
      <3>1. TickRecorded(p)
        BY <1>3, <2>3 DEF TickStep, CheckChain, ChainChecked, CheckOthers, TickDerives,
           DerivesNothing, TickAppends, TickRefused
      <3>2. tick'[p].at = "off" /\ tick'[p].code \in {0, 1}
        BY <1>0, <3>1 DEF TickRecorded, Exits, Off
      <3> QED
        BY <3>2 DEF Green
    <2> QED
      BY <2>2, <2>3
  <1> QED
    BY <1>1, <1>2, <1>3, AloneMoves

\* What the ticks alone are proved green from.
HeartbeatInv ==
  /\ TypeInv /\ ChainInv /\ PubInv /\ ClaimInv /\ AfterInv /\ NameInv
  /\ TickTypeOK /\ CleanInv /\ AloneInv /\ GreenInv

\* It holds of every heartbeat.
LEMMA HeartbeatInvCorrect == HeartbeatSpec => []HeartbeatInv
  <1>1. HeartbeatInit => HeartbeatInv
    <2> SUFFICES ASSUME HeartbeatInit PROVE HeartbeatInv
      OBVIOUS
    <2>1. Init
      BY DEF HeartbeatInit
    <2>2. TypeInv /\ ChainInv /\ PubInv /\ ClaimInv /\ NameInv /\ TickTypeOK
      BY <2>1, TypeInit, ChainInit, PubInit, ClaimInit, NameInit, TickTypeInit
    <2>3. AfterInv
      BY <2>1 DEF Init, AfterInv, Written
    <2>4. CleanInv
      BY <2>1 DEF Init, CleanInv, Quiet, EmptyFile, LastHash
    <2>5. AloneInv /\ GreenInv
      BY DEF HeartbeatInit, AloneInv, GreenInv, Off
    <2> QED
      BY <2>2, <2>3, <2>4, <2>5 DEF HeartbeatInv
  <1>2. HeartbeatInv /\ [HeartbeatNext]_hvars => HeartbeatInv'
    <2> SUFFICES ASSUME HeartbeatInv, [HeartbeatNext]_hvars PROVE HeartbeatInv'
      OBVIOUS
    <2>1. TypeOK /\ [Next]_vars
      BY LedgerStep DEF HeartbeatInv, TypeInv
    <2>2. TypeInv' /\ ChainInv' /\ PubInv' /\ ClaimInv' /\ AfterInv' /\ NameInv'
      BY <2>1, TypeStep, ChainStep, PubStep, ClaimStep, AfterStep, NameStep DEF HeartbeatInv
    <2>3. TickTypeOK' /\ CleanInv' /\ AloneInv' /\ GreenInv'
      BY <2>1, TickTypeStep, CleanStep, AloneStep, GreenStep DEF HeartbeatInv
    <2> QED
      BY <2>2, <2>3 DEF HeartbeatInv
  <1> QED
    BY <1>1, <1>2, PTL DEF HeartbeatSpec

\* tick.sh's chain check raises no false alarm: for every set of processes that run
\* under one HEARTBEAT_AGENT, a tick that meets no other command and no fault, in a
\* history where the last fault was followed by an append that succeeded, finds the
\* chain intact.
THEOREM GreenCorrect == HeartbeatSpec => []AloneIsGreen
  <1>1. HeartbeatInv => AloneIsGreen
    BY DEF HeartbeatInv, GreenInv, Green, AloneIsGreen
  <1> QED
    BY <1>1, HeartbeatInvCorrect, PTL

\* tick.sh's append: that tick is recorded, its derive finds the ledger readable and
\* its append is not refused.
THEOREM AloneCorrect == HeartbeatSpec => []AloneIsRecorded
  <1>1. HeartbeatInv => AloneIsRecorded
    BY DEF HeartbeatInv, GreenInv, Green, AloneIsRecorded
  <1> QED
    BY <1>1, HeartbeatInvCorrect, PTL
=============================================================================
