------------------------------- MODULE Ledger -------------------------------
(***************************************************************************)
(* The hash-chained ledger of ledger/ledger.py and ledger/derive.py: the   *)
(* processes that derive a round and append it, repair a torn file or      *)
(* verify the chain, on one rounds.jsonl, STATE_CURRENT.json and           *)
(* events.log, with the crashes those three files can meet.                *)
(*                                                                         *)
(* A sha256 digest is the number of the request whose round it is: two     *)
(* rounds never collide and a digest tells nothing else.  0 stands for the *)
(* genesis digest (64 zeros), a null upstream and an absent file.          *)
(***************************************************************************)
EXTENDS Integers, Sequences, FiniteSets

CONSTANTS
  Process,       \* the processes that run derive.py and ledger.py
  NoOne,         \* holder of the lock nobody holds
  Name,          \* entity names
  Agent,         \* the HEARTBEAT_AGENT each process runs under
  Task,          \* values of the task object
  FirstTask,     \* the task derive.py gives the first round
  Modes,         \* the ways append is called: [auto, reason, jump]
  EntityWindow,  \* rounds over which verify compares entity.name (20)
  Faults,        \* the faults that may happen: "kill", "power", "error"
  MaxRequests,   \* bound: append requests
  MaxFaults      \* bound: faults

\* auto is --auto-round, reason is --allow-discontinuity, and jump is what a
\* caller who edits the derived block adds to its round.
Mode == [auto : BOOLEAN, reason : BOOLEAN, jump : Int]

ASSUME ProcessAssumption == Process # {} /\ NoOne \notin Process
ASSUME AgentAssumption == Agent \in [Process -> Name]
ASSUME TaskAssumption == FirstTask \in Task
ASSUME ModesAssumption == Modes \subseteq Mode
ASSUME WindowAssumption == EntityWindow \in Nat \ {0}
ASSUME BoundAssumption == MaxRequests \in Nat /\ MaxFaults \in Nat

VARIABLES
  file,      \* rounds.jsonl: its lines, what follows the last newline, ...
  synced,    \* how much of it (Marks) a loss of power surely leaves
  cur,       \* the digest in STATE_CURRENT.json, 0 before it exists
  events,    \* events.log: the digest of each round line, 0 for a REPAIR line
  torn,      \* the fragments saved under ledger/torn
  temps,     \* .tmp-* files in the ledger directory
  lock,      \* who holds the flock on rounds.jsonl.lock
  pc,        \* where each process is
  block,     \* the SIC-JS block each process has derived, and its mode
  out,       \* the wrapper the lock holder is appending
  seen,      \* what a verify has read of rounds.jsonl
  verdict,   \* what the last verify to end printed
  started,   \* number of append requests made
  acked,     \* digests whose append reported success
  faults     \* number of faults so far

vars == <<file, synced, cur, events, torn, temps, lock, pc, block, out, seen,
          verdict, started, acked, faults>>

-----------------------------------------------------------------------------
(* Rounds and the file that holds them.                                    *)

Digest == Nat

\* One round's line.  disc is the presence of "discontinuity"; own tells a
\* task its caller set from one inherited.
Wrapper == [seq : Nat, round : Int, name : Name, task : Task, own : BOOLEAN,
            upstream : Digest, prev : Digest, hash : Digest, disc : BOOLEAN]

\* What derive.py prints and how the caller will have it appended.
Block == [round : Int, name : Name, task : Task, own : BOOLEAN,
          upstream : Digest, id : Digest, mode : Mode]

\* Bytes after the last newline come as pieces, one per append that left
\* them: the start of a round's line, or all of it but its newline.
Piece == [of : Wrapper, whole : BOOLEAN]

\* buried is a newline after two pieces: a complete line that is not JSON.
File == [lines : Seq(Wrapper), tail : Seq(Piece), buried : BOOLEAN]

EmptyFile == [lines |-> <<>>, tail |-> <<>>, buried |-> FALSE]

\* The only unterminated bytes that json.loads accepts are one whole round.
Bare(f) == Len(f.tail) = 1 /\ f.tail[1].whole
Torn(f) == f.tail # <<>> /\ ~Bare(f) /\ ~f.buried

\* The rounds read_rounds returns, when it neither raises TornTail (Torn)
\* nor exits with "ledger corrupt" (buried).
Rounds(f) == IF Bare(f) THEN Append(f.lines, f.tail[1].of) ELSE f.lines
Readable(f) == ~Torn(f) /\ ~f.buried

LastHash(s) == IF s = <<>> THEN 0 ELSE s[Len(s)].hash
LastSeq(s) == IF s = <<>> THEN 0 ELSE s[Len(s)].seq
LastRound(s) == IF s = <<>> THEN 0 ELSE s[Len(s)].round
Hashes(s) == {s[i].hash : i \in 1..Len(s)}
TailHashes(f) == {f.tail[i].of.hash : i \in 1..Len(f.tail)}

\* A crash may cut the file inside a line, before its newline or after it.
PieceMarks(q) == IF q.whole THEN 2 ELSE 1
TailMarks(t) == (IF Len(t) > 0 THEN PieceMarks(t[1]) ELSE 0)
                + (IF Len(t) > 1 THEN PieceMarks(t[2]) ELSE 0)
Marks(f) == 3 * Len(f.lines) + TailMarks(f.tail) + (IF f.buried THEN 1 ELSE 0)

PieceCuts(t) ==
  {SubSeq(t, 1, k) : k \in 0..Len(t)}
  \cup {Append(SubSeq(t, 1, k - 1), [of |-> t[k].of, whole |-> FALSE]) : k \in 1..Len(t)}

-----------------------------------------------------------------------------
(* What verify computes.                                                   *)

\* Checks 1 and 3 to 5 of SPEC_LEDGER over the rounds it read.  Check 2, that
\* the digest recomputes, is what taking the digest as a number assumes.
ChainSound(s) ==
  /\ \A i \in 1..Len(s) :
        /\ s[i].prev = (IF i = 1 THEN 0 ELSE s[i - 1].hash)
        /\ s[i].seq = i
        /\ i > 1 => s[i].round = s[i - 1].round + 1 \/ s[i].disc
  /\ \A i, j \in 1..Len(s) :
        i > Len(s) - EntityWindow /\ j > Len(s) - EntityWindow => s[i].name = s[j].name

\* Checks 6 and 7: a torn or buried line fails, and so does a STATE_CURRENT.json
\* of another round than the last one read.
CurrentMatches(last, c) == last # 0 /\ c # 0 => c = last

VerifyPasses(f, c) ==
  /\ Readable(f)
  /\ ChainSound(Rounds(f))
  /\ CurrentMatches(LastHash(Rounds(f)), c)

-----------------------------------------------------------------------------
(* Initial state: an empty HEARTBEAT_HOME.                                 *)

NoWrapper == [seq |-> 0, round |-> 0, name |-> Agent[CHOOSE p \in Process : TRUE],
              task |-> FirstTask, own |-> FALSE, upstream |-> 0, prev |-> 0,
              hash |-> 0, disc |-> FALSE]

NoBlock(p) == [round |-> 0, name |-> Agent[p], task |-> FirstTask, own |-> FALSE,
               upstream |-> 0, id |-> 0,
               mode |-> [auto |-> FALSE, reason |-> FALSE, jump |-> 0]]

NothingSeen == [sound |-> TRUE, last |-> 0]

Init ==
  /\ file = EmptyFile
  /\ synced = 0
  /\ cur = 0
  /\ events = <<>>
  /\ torn = {}
  /\ temps = 0
  /\ lock = NoOne
  /\ pc = [p \in Process |-> "idle"]
  /\ block = [p \in Process |-> NoBlock(p)]
  /\ out = NoWrapper
  /\ seen = [p \in Process |-> NothingSeen]
  /\ verdict = "none"
  /\ started = 0
  /\ acked = {}
  /\ faults = 0

Goto(p, l) == pc' = [pc EXCEPT ![p] = l]

-----------------------------------------------------------------------------
(* derive.py, which reads without the lock.                                *)

Derive(p, m, t) ==
  LET rounds == Rounds(file) IN
  /\ pc[p] = "idle"
  /\ started < MaxRequests
  /\ Readable(file)
  /\ LET inherited == IF rounds = <<>> THEN FirstTask ELSE rounds[Len(rounds)].task IN
     block' = [block EXCEPT ![p] =
       [round |-> LastRound(rounds) + 1 + m.jump, name |-> Agent[p],
        task |-> t, own |-> t # inherited, upstream |-> LastHash(rounds),
        id |-> started + 1, mode |-> m]]
  /\ started' = started + 1
  /\ Goto(p, "waiting")
  /\ UNCHANGED <<file, synced, cur, events, torn, temps, lock, out, seen,
                 verdict, acked, faults>>

-----------------------------------------------------------------------------
(* ledger.py append: everything from the read to the event line is done    *)
(* holding the lock.                                                       *)

\* Mutant: the numbering check is forgotten.
FollowsAnyRound(b, rounds) == rounds # <<>> => b.name = rounds[Len(rounds)].name

Follows(b, rounds) ==
  rounds # <<>> =>
    /\ b.mode.auto \/ b.round = LastRound(rounds) + 1
    /\ b.name = rounds[Len(rounds)].name

Refused(b) ==
  \/ ~Readable(file)
  \/ ~Follows(b, Rounds(file)) /\ ~b.mode.reason

\* Mutant: --auto-round numbers the round and leaves upstream as derived.
WrapperForRoundOnly(b, rounds) ==
  [seq |-> LastSeq(rounds) + 1, round |-> IF b.mode.auto THEN LastRound(rounds) + 1 ELSE b.round,
   name |-> b.name, task |-> b.task, own |-> b.own, upstream |-> b.upstream,
   prev |-> LastHash(rounds), hash |-> b.id, disc |-> ~Follows(b, rounds)]

\* Mutant: prev_hash comes from STATE_CURRENT.json.
WrapperForCurrent(b, rounds) ==
  [seq |-> LastSeq(rounds) + 1, round |-> IF b.mode.auto THEN LastRound(rounds) + 1 ELSE b.round,
   name |-> b.name, task |-> b.task, own |-> b.own,
   upstream |-> IF b.mode.auto THEN LastHash(rounds) ELSE b.upstream,
   prev |-> cur, hash |-> b.id, disc |-> ~Follows(b, rounds)]

WrapperFor(b, rounds) ==
  [seq      |-> LastSeq(rounds) + 1,
   round    |-> IF b.mode.auto THEN LastRound(rounds) + 1 ELSE b.round,
   name     |-> b.name,
   task     |-> b.task,
   own      |-> b.own,
   upstream |-> IF b.mode.auto THEN LastHash(rounds) ELSE b.upstream,
   prev     |-> LastHash(rounds),
   hash     |-> b.id,
   disc     |-> ~Follows(b, rounds)]

AppendRefuse(p) ==
  /\ pc[p] = "waiting"
  /\ lock = NoOne
  /\ Refused(block[p])
  /\ Goto(p, "idle")
  /\ block' = [block EXCEPT ![p] = NoBlock(p)]
  /\ UNCHANGED <<file, synced, cur, events, torn, temps, lock, out, seen,
                 verdict, started, acked, faults>>

AppendBegin(p) ==
  /\ pc[p] = "waiting"
  /\ lock = NoOne
  /\ ~Refused(block[p])
  /\ lock' = p
  /\ out' = WrapperFor(block[p], Rounds(file))
  /\ Goto(p, "opened")
  /\ block' = [block EXCEPT ![p] = NoBlock(p)]
  /\ UNCHANGED <<file, synced, cur, events, torn, temps, seen, verdict,
                 started, acked, faults>>

\* The line reaches the file in three parts: some of it, the rest of the
\* round, the newline.
WritePart(p) ==
  /\ pc[p] = "opened"
  /\ file' = [file EXCEPT !.tail = Append(@, [of |-> out, whole |-> FALSE])]
  /\ Goto(p, "part")
  /\ UNCHANGED <<synced, cur, events, torn, temps, lock, block, out, seen,
                 verdict, started, acked, faults>>

WriteRound(p) ==
  /\ pc[p] = "part"
  /\ file' = [file EXCEPT !.tail = Append(SubSeq(@, 1, Len(@) - 1), [of |-> out, whole |-> TRUE])]
  /\ Goto(p, "whole")
  /\ UNCHANGED <<synced, cur, events, torn, temps, lock, block, out, seen,
                 verdict, started, acked, faults>>

\* A round that began where another one lacked its newline is buried with it.
WriteNewline(p) ==
  /\ pc[p] = "whole"
  /\ file' = IF Bare(file)
             THEN [lines |-> Append(file.lines, out), tail |-> <<>>, buried |-> FALSE]
             ELSE [file EXCEPT !.buried = TRUE]
  /\ Goto(p, "ended")
  /\ UNCHANGED <<synced, cur, events, torn, temps, lock, block, out, seen,
                 verdict, started, acked, faults>>

\* Mutant: no fsync.
FsyncSkipped(p) ==
  /\ pc[p] = "ended"
  /\ Goto(p, "durable")
  /\ UNCHANGED <<file, synced, cur, events, torn, temps, lock, block, out, seen,
                 verdict, started, acked, faults>>

\* fsync of the file, then of its directory.
Fsync(p) ==
  /\ pc[p] = "ended"
  /\ synced' = Marks(file)
  /\ Goto(p, "durable")
  /\ UNCHANGED <<file, cur, events, torn, temps, lock, block, out, seen,
                 verdict, started, acked, faults>>

\* Mutant: STATE_CURRENT.json is written in place.
StageNothing(p) ==
  /\ pc[p] = "durable"
  /\ Goto(p, "staged")
  /\ UNCHANGED <<file, synced, cur, events, torn, temps, lock, block, out, seen,
                 verdict, started, acked, faults>>

\* atomic_write of STATE_CURRENT.json: the temporary file, then the rename.
StageCurrent(p) ==
  /\ pc[p] = "durable"
  /\ temps' = temps + 1
  /\ Goto(p, "staged")
  /\ UNCHANGED <<file, synced, cur, events, torn, lock, block, out, seen,
                 verdict, started, acked, faults>>

\* Mutant: an existing STATE_CURRENT.json is kept.
ReplaceOnce(p) ==
  /\ pc[p] = "staged"
  /\ temps' = temps - 1
  /\ cur' = IF cur = 0 THEN out.hash ELSE cur
  /\ Goto(p, "current")
  /\ UNCHANGED <<file, synced, events, torn, lock, block, out, seen, verdict,
                 started, acked, faults>>

ReplaceCurrent(p) ==
  /\ pc[p] = "staged"
  /\ temps' = temps - 1
  /\ cur' = out.hash
  /\ Goto(p, "current")
  /\ UNCHANGED <<file, synced, events, torn, lock, block, out, seen, verdict,
                 started, acked, faults>>

\* Mutant: success is reported before STATE_CURRENT.json is replaced.
FinishEarly(p) ==
  /\ pc[p] \in {"durable", "current"}
  /\ events' = Append(events, out.hash)
  /\ lock' = NoOne
  /\ acked' = acked \cup {out.hash}
  /\ out' = NoWrapper
  /\ Goto(p, "idle")
  /\ UNCHANGED <<file, synced, cur, torn, temps, block, seen, verdict, started, faults>>

\* Mutant: the newest event goes first.
FinishNewestFirst(p) ==
  /\ pc[p] = "current"
  /\ events' = <<out.hash>> \o events
  /\ lock' = NoOne
  /\ acked' = acked \cup {out.hash}
  /\ out' = NoWrapper
  /\ Goto(p, "idle")
  /\ UNCHANGED <<file, synced, cur, torn, temps, block, seen, verdict, started, faults>>

\* The line of events.log, the unlock, and exit 0 with the anchor line.
Finish(p) ==
  /\ pc[p] = "current"
  /\ events' = Append(events, out.hash)
  /\ lock' = NoOne
  /\ acked' = acked \cup {out.hash}
  /\ out' = NoWrapper
  /\ Goto(p, "idle")
  /\ UNCHANGED <<file, synced, cur, torn, temps, block, seen, verdict,
                 started, faults>>

-----------------------------------------------------------------------------
(* ledger.py repair --torn-tail, under the same lock.                      *)

RepairBegin(p) ==
  /\ pc[p] = "idle"
  /\ lock = NoOne
  /\ Torn(file)
  /\ lock' = p
  /\ Goto(p, "repair")
  /\ UNCHANGED <<file, synced, cur, events, torn, temps, block, out, seen,
                 verdict, started, acked, faults>>

\* Mutant: a fragment is saved only where no file of its name exists.
SaveIfNew(p) ==
  /\ pc[p] = "repair"
  /\ torn' \in {torn \cup {file.tail}} \cup {torn : t \in torn}
  /\ Goto(p, "saved")
  /\ UNCHANGED <<file, synced, cur, events, temps, lock, block, out, seen,
                 verdict, started, acked, faults>>

\* The fragment's file is named by the second: it may fall on an earlier one.
SaveFragment(p) ==
  /\ pc[p] = "repair"
  /\ torn' \in {torn \cup {file.tail}} \cup {(torn \ {t}) \cup {file.tail} : t \in torn}
  /\ Goto(p, "saved")
  /\ UNCHANGED <<file, synced, cur, events, temps, lock, block, out, seen,
                 verdict, started, acked, faults>>

StageRounds(p) ==
  /\ pc[p] = "saved"
  /\ temps' = temps + 1
  /\ Goto(p, "cut")
  /\ UNCHANGED <<file, synced, cur, events, torn, lock, block, out, seen,
                 verdict, started, acked, faults>>

\* Mutant: the cut falls before the last whole line.
ReplaceOneLess(p) ==
  /\ pc[p] = "cut"
  /\ temps' = temps - 1
  /\ file' = [file EXCEPT !.tail = <<>>,
                          !.lines = SubSeq(@, 1, IF Len(@) > 0 THEN Len(@) - 1 ELSE 0)]
  /\ synced' = Marks(file')
  /\ Goto(p, "repaired")
  /\ UNCHANGED <<cur, events, torn, lock, block, out, seen, verdict, started,
                 acked, faults>>

ReplaceRounds(p) ==
  /\ pc[p] = "cut"
  /\ temps' = temps - 1
  /\ file' = [file EXCEPT !.tail = <<>>]
  /\ synced' = 3 * Len(file.lines)
  /\ Goto(p, "repaired")
  /\ UNCHANGED <<cur, events, torn, lock, block, out, seen, verdict, started,
                 acked, faults>>

FinishRepair(p) ==
  /\ pc[p] = "repaired"
  /\ events' = Append(events, 0)
  /\ lock' = NoOne
  /\ Goto(p, "idle")
  /\ UNCHANGED <<file, synced, cur, torn, temps, block, out, seen, verdict,
                 started, acked, faults>>

-----------------------------------------------------------------------------
(* ledger.py verify, which takes no lock: it reads rounds.jsonl, and later *)
(* STATE_CURRENT.json.                                                     *)

VerifyUnreadable(p) ==
  /\ pc[p] = "idle"
  /\ ~Readable(file)
  /\ verdict' = "BROKEN"
  /\ UNCHANGED <<file, synced, cur, events, torn, temps, lock, pc, block, out,
                 seen, started, acked, faults>>

VerifyRounds(p) ==
  /\ pc[p] = "idle"
  /\ Readable(file)
  /\ seen' = [seen EXCEPT ![p] = [sound |-> ChainSound(Rounds(file)),
                                  last  |-> LastHash(Rounds(file))]]
  /\ verdict' = "none"
  /\ Goto(p, "verify")
  /\ UNCHANGED <<file, synced, cur, events, torn, temps, lock, block, out,
                 started, acked, faults>>

\* Mutant: STATE_CURRENT.json is not compared.
VerifyChainOnly(p) ==
  /\ pc[p] = "verify"
  /\ verdict' = IF seen[p].sound THEN "intact" ELSE "BROKEN"
  /\ seen' = [seen EXCEPT ![p] = NothingSeen]
  /\ Goto(p, "idle")
  /\ UNCHANGED <<file, synced, cur, events, torn, temps, lock, block, out,
                 started, acked, faults>>

VerifyCurrent(p) ==
  /\ pc[p] = "verify"
  /\ verdict' = IF seen[p].sound /\ CurrentMatches(seen[p].last, cur)
                THEN "intact" ELSE "BROKEN"
  /\ seen' = [seen EXCEPT ![p] = NothingSeen]
  /\ Goto(p, "idle")
  /\ UNCHANGED <<file, synced, cur, events, torn, temps, lock, block, out,
                 started, acked, faults>>

-----------------------------------------------------------------------------
(* Faults.                                                                 *)

Fault(f) ==
  /\ f \in Faults
  /\ faults < MaxFaults
  /\ faults' = faults + 1

\* Mutant: the lock is a file that a dead process leaves behind.
KillKeepsLock(p) ==
  /\ Fault("kill")
  /\ pc[p] # "idle"
  /\ Goto(p, "idle")
  /\ block' = [block EXCEPT ![p] = NoBlock(p)]
  /\ seen' = [seen EXCEPT ![p] = NothingSeen]
  /\ UNCHANGED <<file, synced, cur, events, torn, temps, lock, out, verdict, started, acked>>

\* A process dies, or an uncaught error outside atomic_write ends it: the
\* files stay as they are and the kernel gives the lock back.
Kill(p) ==
  /\ Fault("kill")
  /\ pc[p] # "idle"
  /\ lock' = IF lock = p THEN NoOne ELSE lock
  /\ out' = IF lock = p THEN NoWrapper ELSE out
  /\ Goto(p, "idle")
  /\ block' = [block EXCEPT ![p] = NoBlock(p)]
  /\ seen' = [seen EXCEPT ![p] = NothingSeen]
  /\ UNCHANGED <<file, synced, cur, events, torn, temps, verdict, started, acked>>

\* An exception inside atomic_write: the temporary file is unlinked.
WriteError(p) ==
  /\ Fault("error")
  /\ pc[p] \in {"staged", "cut"}
  /\ temps' = temps - 1
  /\ lock' = NoOne
  /\ out' = NoWrapper
  /\ Goto(p, "idle")
  /\ UNCHANGED <<file, synced, cur, events, torn, block, seen, verdict, started, acked>>

\* rounds.jsonl keeps what it had up to some mark past those synced: it may
\* end before the newline of line k, or in what follows the last line.
CutFile ==
  /\ \/ UNCHANGED file
     \/ \E k \in 1..Len(file.lines) :
          \E t \in PieceCuts(<<[of |-> file.lines[k], whole |-> TRUE]>>) :
             file' = [lines |-> SubSeq(file.lines, 1, k - 1), tail |-> t, buried |-> FALSE]
     \/ \E t \in PieceCuts(file.tail) : file' = [file EXCEPT !.tail = t, !.buried = FALSE]
  /\ Marks(file') >= synced
  /\ synced' = Marks(file')

\* The machine loses power: every process is gone, rounds.jsonl keeps some
\* cut at or after what was synced, events.log and ledger/torn, which are
\* never fsynced, any part of what they held.
PowerLoss ==
  /\ Fault("power")
  /\ CutFile
  /\ \E k \in 0..Len(events) : events' = SubSeq(events, 1, k)
  /\ torn' \in SUBSET torn
  /\ lock' = NoOne
  /\ out' = NoWrapper
  /\ pc' = [p \in Process |-> "idle"]
  /\ block' = [p \in Process |-> NoBlock(p)]
  /\ seen' = [p \in Process |-> NothingSeen]
  /\ verdict' = "none"
  /\ UNCHANGED <<cur, temps, started, acked>>

-----------------------------------------------------------------------------

Request(p) == \E m \in Modes, t \in Task : Derive(p, m, t)
Verify(p) == VerifyUnreadable(p) \/ VerifyRounds(p)

\* The steps a process takes once it has begun.
Step(p) ==
  \/ AppendRefuse(p) \/ AppendBegin(p)
  \/ WritePart(p) \/ WriteRound(p) \/ WriteNewline(p) \/ Fsync(p)
  \/ StageCurrent(p) \/ ReplaceCurrent(p) \/ Finish(p)
  \/ SaveFragment(p) \/ StageRounds(p) \/ ReplaceRounds(p) \/ FinishRepair(p)
  \/ VerifyCurrent(p)

Next ==
  \/ \E p \in Process :
        Request(p) \/ RepairBegin(p) \/ Verify(p) \/ Step(p) \/ Kill(p) \/ WriteError(p)
  \/ PowerLoss

Spec == Init /\ [][Next]_vars

-----------------------------------------------------------------------------
(* What the ledger promises.                                               *)

Idle == {"idle"}
Critical == {"opened", "part", "whole", "ended", "durable", "staged", "current",
             "repair", "saved", "cut", "repaired"}
Pc == Idle \cup {"waiting", "verify"} \cup Critical

\* Type invariant: the variables range over what the three files, the lock
\* and the processes of ledger.py can hold.
TypeOK ==
  /\ file \in File
  /\ synced \in Nat
  /\ cur \in Digest
  /\ events \in Seq(Digest)
  /\ torn \in SUBSET Seq(Piece)
  /\ temps \in Nat
  /\ lock \in Process \cup {NoOne}
  /\ pc \in [Process -> Pc]
  /\ block \in [Process -> Block]
  /\ out \in Wrapper
  /\ seen \in [Process -> [sound : BOOLEAN, last : Digest]]
  /\ verdict \in {"none", "intact", "BROKEN"}
  /\ started \in Nat
  /\ acked \in SUBSET Digest
  /\ faults \in Nat

Linked(s) ==
  \A i \in 1..Len(s) :
    /\ s[i].seq = i
    /\ s[i].prev = (IF i = 1 THEN 0 ELSE s[i - 1].hash)
    /\ i > 1 => s[i].round = s[i - 1].round + 1 \/ s[i].disc

\* The chain holds whatever interleaves and whatever dies: in the rounds that
\* read_rounds would return each seq is its line number, each prev_hash the
\* hash before it, and a round that does not follow its predecessor says so.
ChainIntact == Linked(Rounds(file))

Position(d) == CHOOSE i \in 1..Len(file.lines) : file.lines[i].hash = d

\* The digests somebody was told of: by exit 0, STATE_CURRENT.json, events.log.
Published == (acked \cup {events[i] : i \in 1..Len(events)} \cup {cur}) \ {0}

\* A round anybody was told of is still a line of rounds.jsonl, or in the line
\* a glued append has buried: no crash and no repair takes it away.
PublishedSurvives ==
  \A d \in Published : d \in Hashes(file.lines) \/ (file.buried /\ d \in TailHashes(file))

\* STATE_CURRENT.json may lag the ledger, but never a round whose append
\* reported success: what follows it in the ledger was never acknowledged.
CurrentNotBehindAcked ==
  ~file.buried =>
    \A d \in acked : cur \in Hashes(file.lines) /\ Position(d) <= Position(cur)

\* events.log tells the rounds it tells in the order of the ledger, each once.
EventsInOrder ==
  \A i, j \in 1..Len(events) :
    i < j /\ events[i] # 0 /\ events[j] # 0
      /\ events[i] \in Hashes(file.lines) /\ events[j] \in Hashes(file.lines)
      => Position(events[i]) < Position(events[j])

OneAgent == \A p, q \in Process : Agent[p] = Agent[q]

\* As long as nothing has failed, verify passes whenever no append is under
\* way, whoever appended, in whatever order, with whatever flags.
QuietVerifies ==
  faults = 0 /\ lock = NoOne /\ OneAgent => VerifyPasses(file, cur)

\* No caller numbers the round of its block ahead of what derive.py gave it.
NobodyAhead == \A m \in Modes : m.jump <= 0

\* The digest and the number of the j-th round, or of the null upstream before them.
HashAt(s, j) == IF j = 0 THEN 0 ELSE s[j].hash
RoundAt(s, j) == IF j = 0 THEN 0 ELSE s[j].round

\* The k-th round says it does not follow, or is a first one not numbered 1.
Restarted(s, k) == s[k].disc \/ (k = 1 /\ s[1].round # 1)

NamesPrevious(s) ==
  \A i \in 1..Len(s), j \in 0..Len(s) :
    s[i].upstream = HashAt(s, j) => j = i - 1 \/ \E k \in j + 1..i : Restarted(s, k)

\* Whatever failed: a relation.upstream that names nothing, or a round of the ledger,
\* names what comes just before its own round, unless the ledger restarts between the
\* two. A stale derive is refused, or relinked by --auto-round. A round that a repair
\* or a loss of power took away after its derive is named still, and is not here.
UpstreamLinked == NobodyAhead => NamesPrevious(file.lines)

\* What an fsync covered is never rewritten: not by an append, not by a
\* repair, not by a power loss.
DurableAppendOnly ==
  [][\A i \in 1..Len(file.lines) :
       3 * i <= synced => i <= Len(file'.lines) /\ file'.lines[i] = file.lines[i]]_vars

\* The repair cuts nothing from rounds.jsonl it has not put under ledger/torn.
CutIsSaved ==
  [][\A p \in Process : pc[p] = "cut" /\ pc'[p] = "repaired" =>
       file.tail # <<>> /\ file'.lines = file.lines /\ file.tail \in torn']_vars

\* An append that succeeds leaves a ledger that verifies, whatever crashes had
\* left before it, unless its line was buried.
AppendHeals ==
  [][acked' # acked /\ ~file'.buried /\ OneAgent => VerifyPasses(file', cur')]_vars

\* verify reads its two files at two moments.  Where the last round at the
\* second is still the one it read, an append under way or not, it says what
\* the two files are now.
VerdictHolds ==
  [][\A p \in Process :
       pc[p] = "verify" /\ pc'[p] = "idle" /\ faults' = faults
         /\ Readable(file) /\ seen[p].last = LastHash(Rounds(file))
       => (verdict' = "intact" <=> VerifyPasses(file, cur))]_vars

\* With its tears, its temporary files and its two readers left out, the ledger is
\* a log (Log): every append adds one round never there before at the end, or
\* spoils the log, and every crash takes back an unacknowledged end at most.
L == INSTANCE Log WITH log <- [i \in 1..Len(file.lines) |-> file.lines[i].hash],
                       spoilt <- file.buried
Logged == L!Spec

-----------------------------------------------------------------------------
(* What the documents say that the program does not do.                    *)

\* ledger.py:154 "never append onto a torn file": no append turns what a crash
\* left into a complete line that is not JSON.
NeverBuried == ~file.buried

\* SPEC_LEDGER.md:132 "task.* inherited from the previous round": a task its
\* caller did not set is the task of the round before.
TaskInherited ==
  \A i \in 2..Len(file.lines) :
    ~file.lines[i].own => file.lines[i].task = file.lines[i - 1].task
=============================================================================
