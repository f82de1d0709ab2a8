------------------------------ MODULE Heartbeat ------------------------------
(***************************************************************************)
(* heartbeat/tick.sh on the ledger: ticks that verify the chain, run the   *)
(* other checks, derive a round and append it, and exit with what they     *)
(* found; beside them commands the agent or the operator runs, on the same *)
(* processes, and the faults of module Ledger.                             *)
(*                                                                         *)
(* What health.py, zombie.py, the inbox and legislate.py answer is any     *)
(* answer: Pending and Laws say what two of them are worth.                *)
(***************************************************************************)
EXTENDS Ledger

CONSTANT MaxOthers  \* bound: only the first requests may be those of no tick

\* The way a tick calls append.
AutoRound == [auto |-> TRUE, reason |-> FALSE, jump |-> 0]

ASSUME OthersAssumption == MaxOthers \in Nat
ASSUME AutoRoundAssumption == AutoRound \in Modes

VARIABLES
  tick,  \* the tick.sh each process runs: where it is, what it has found
  clean, \* no fault since the last append that succeeded
  deaths \* number of deaths of processes that do not touch the ledger

hvars == <<vars, tick, clean, deaths>>

\* A tick's code is what it exited with; 9 stands for none: it runs, or died.
Code == {0, 1, 3, 9}

\* chain is whether its verify passed, and alone that it has met no other
\* command and no fault.
Tick == [at : {"off", "start", "chain", "checks", "record", "append"},
         chain : BOOLEAN, red : BOOLEAN, alone : BOOLEAN, id : Digest, code : Code]

Off(c) == [at |-> "off", chain |-> TRUE, red |-> FALSE, alone |-> FALSE, id |-> 0, code |-> c]

HeartbeatInit ==
  /\ Init
  /\ tick = [p \in Process |-> Off(9)]
  /\ clean = TRUE
  /\ deaths = 0

\* A command that begins, and a fault, end the solitude of the ticks under way.
Disturbed == [q \in Process |-> [tick[q] EXCEPT !.alone = FALSE]]

\* The bound on requests leaves room for those of the ticks under way.
Room ==
  started + Cardinality({q \in Process : tick[q].at \in {"start", "chain", "checks", "record"}})
    < MaxRequests

-----------------------------------------------------------------------------
(* tick.sh                                                                 *)

Begin(p) ==
  /\ tick[p].at = "off" /\ pc[p] = "idle"
  /\ Room
  /\ tick' = [Disturbed EXCEPT ![p] =
       [Off(9) EXCEPT !.at = "start",
                      !.alone = \A q \in Process \ {p} : pc[q] = "idle" /\ tick[q].at = "off"]]
  /\ UNCHANGED <<vars, clean, deaths>>

\* run_check chain: the tick goes on whether verify passes or not.
Checked(p, passed) ==
  tick' = [tick EXCEPT ![p].at = "checks", ![p].chain = passed, ![p].red = ~passed]

CheckChain(p) ==
  /\ tick[p].at = "start"
  /\ \/ VerifyUnreadable(p) /\ Checked(p, FALSE)
     \/ VerifyRounds(p) /\ tick' = [tick EXCEPT ![p].at = "chain"]
  /\ UNCHANGED <<clean, deaths>>

ChainChecked(p) ==
  /\ tick[p].at = "chain"
  /\ VerifyCurrent(p)
  /\ Checked(p, verdict' = "intact")
  /\ UNCHANGED <<clean, deaths>>

\* run_check services, run_check zombies; the inbox and the debts are noted.
CheckOthers(p) ==
  /\ tick[p].at = "checks"
  /\ \E passed \in BOOLEAN :
       tick' = [tick EXCEPT ![p].at = "record", ![p].red = @ \/ ~passed]
  /\ UNCHANGED <<vars, clean, deaths>>

\* derive.py | ledger.py append - --auto-round: derive hands a block on, ...
TickDerives(p) ==
  /\ tick[p].at = "record"
  /\ Derive(p, AutoRound, IF Rounds(file) = <<>> THEN FirstTask
                     ELSE Rounds(file)[Len(Rounds(file))].task)
  /\ tick' = [tick EXCEPT ![p].at = "append", ![p].id = started']
  /\ UNCHANGED <<clean, deaths>>

Exits(p, c) == tick' = [tick EXCEPT ![p] = [Off(c) EXCEPT !.alone = tick[p].alone]]

\* Mutant: the exit code is that of append, which has read no JSON.
DerivesNothingPlain(p) ==
  /\ tick[p].at = "record"
  /\ ~Readable(file)
  /\ Exits(p, 2)
  /\ UNCHANGED <<vars, clean, deaths>>

\* Mutant: derive needs a previous round.
DerivesNoFirst(p) ==
  /\ tick[p].at = "record"
  /\ ~Readable(file) \/ Rounds(file) = <<>>
  /\ Exits(p, 3)
  /\ UNCHANGED <<vars, clean, deaths>>

\* ... or finds the ledger unreadable: append then gets no JSON and fails.
DerivesNothing(p) ==
  /\ tick[p].at = "record"
  /\ ~Readable(file)
  /\ Exits(p, 3)
  /\ UNCHANGED <<vars, clean, deaths>>

\* An append that succeeds makes the history clean, unless its line is buried.
Heals ==
  /\ clean' = (clean \/ (acked' # acked /\ ~file'.buried))
  /\ UNCHANGED deaths

TickAppends(p) ==
  /\ tick[p].at = "append"
  /\ Step(p)
  /\ pc'[p] # "idle"
  /\ UNCHANGED <<tick, clean, deaths>>

TickRecorded(p) ==
  /\ tick[p].at = "append"
  /\ Finish(p)
  /\ Exits(p, IF tick[p].red THEN 1 ELSE 0)
  /\ Heals

\* Mutant: without "|| exit 3".
RefusalIgnored(p) ==
  /\ tick[p].at = "append"
  /\ AppendRefuse(p)
  /\ Exits(p, IF tick[p].red THEN 1 ELSE 0)
  /\ UNCHANGED <<clean, deaths>>

TickRefused(p) ==
  /\ tick[p].at = "append"
  /\ AppendRefuse(p)
  /\ Exits(p, 3)
  /\ UNCHANGED <<clean, deaths>>

-----------------------------------------------------------------------------
(* Other commands on the same ledger, and the children of a dead tick.sh.  *)

CommandBegins(p) ==
  /\ tick[p].at = "off"
  /\ (started < MaxOthers /\ Room /\ Request(p)) \/ RepairBegin(p)
  /\ tick' = Disturbed
  /\ UNCHANGED <<clean, deaths>>

CommandSteps(p) ==
  /\ tick[p].at = "off"
  /\ Step(p)
  /\ UNCHANGED tick
  /\ Heals

-----------------------------------------------------------------------------
(* Faults.                                                                 *)

\* The death of a process that does not touch the ledger is none of its faults.
DiesApart ==
  /\ "kill" \in Faults
  /\ deaths + faults < MaxFaults
  /\ deaths' = deaths + 1
  /\ UNCHANGED vars

\* The process p or a part of it dies that is at work on the ledger.
DiesAtWork(p) == Kill(p) /\ UNCHANGED deaths

\* The command that runs dies: its tick, if it has one, sees it fail.
KillCommand(p) ==
  /\ DiesAtWork(p) \/ (tick[p].at \in {"start", "record"} /\ DiesApart)
  /\ clean' = FALSE
  /\ tick' = CASE tick[p].at \in {"start", "chain"} ->
                    [Disturbed EXCEPT ![p].at = "checks", ![p].chain = FALSE, ![p].red = TRUE]
               [] tick[p].at \in {"record", "append"} ->
                    [Disturbed EXCEPT ![p] = Off(3)]
               [] OTHER -> Disturbed

\* tick.sh dies, and the command it was running does or does not die with it.
KillTick(p) ==
  /\ tick[p].at # "off"
  /\ DiesAtWork(p) \/ DiesApart
  /\ clean' = FALSE
  /\ tick' = [Disturbed EXCEPT ![p] = Off(9)]

\* atomic_write fails, and so does the append or the repair it is in.
CommandError(p) ==
  /\ WriteError(p)
  /\ clean' = FALSE
  /\ UNCHANGED deaths
  /\ tick' = IF tick[p].at = "append"
             THEN [Disturbed EXCEPT ![p] = Off(3)] ELSE Disturbed

PowerFails ==
  /\ PowerLoss
  /\ clean' = FALSE
  /\ UNCHANGED deaths
  /\ tick' = [p \in Process |-> Off(9)]

-----------------------------------------------------------------------------

TickStep(p) ==
  \/ CheckChain(p) \/ ChainChecked(p) \/ CheckOthers(p)
  \/ TickDerives(p) \/ DerivesNothing(p)
  \/ TickAppends(p) \/ TickRecorded(p) \/ TickRefused(p)
  \/ CommandSteps(p)

HeartbeatNext ==
  \/ \E p \in Process :
        \/ Begin(p) \/ TickStep(p) \/ CommandBegins(p)
        \/ KillCommand(p) \/ KillTick(p) \/ CommandError(p)
  \/ PowerFails

\* The operating system runs every process that can run; whether another tick
\* or command begins is the scheduler's and the operator's affair.
HeartbeatSpec == HeartbeatInit /\ [][HeartbeatNext]_hvars
                 /\ \A p \in Process : WF_hvars(TickStep(p))

-----------------------------------------------------------------------------
(* What a heartbeat promises.                                              *)

\* Type invariant: where a tick is, what it has found and what it can exit
\* with (tick.sh exits 0, 1 or 3).
TickTypeOK ==
  /\ tick \in [Process -> Tick]
  /\ clean \in BOOLEAN
  /\ deaths \in Nat

\* tick.sh:5-7: a tick that does not say "could not record the tick" has left a
\* round in the ledger, whatever ran beside it and whatever died.
ExitMeansRecorded ==
  [][\A p \in Process :
       tick[p].at # "off" /\ tick'[p].at = "off" /\ tick'[p].code \in {0, 1} =>
         /\ tick[p].id \in acked'
         /\ tick[p].id \in Hashes(file'.lines) \cup TailHashes(file')]_hvars

\* No false alarm: a tick that meets no other command and no fault, in a history
\* where the last fault has been followed by an append that succeeded, finds the
\* chain intact ...
AloneIsGreen ==
  OneAgent => \A p \in Process : tick[p].at # "off" /\ tick[p].alone /\ clean => tick[p].chain

\* ... and is recorded.
AloneIsRecorded ==
  OneAgent => \A p \in Process : tick[p].alone /\ clean => tick[p].code # 3

Free(p) == tick[p].at = "off" /\ pc[p] = "idle"

\* A tick ends, and so does every command, whether a tick runs it, outlives its
\* tick or never had one: no torn ledger, dead child or dead holder of the lock
\* makes it hang.
EverythingEnds == \A p \in Process : ~Free(p) ~> Free(p)
=============================================================================
