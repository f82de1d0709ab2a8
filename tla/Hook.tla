-------------------------------- MODULE Hook --------------------------------
(***************************************************************************)
(* The contract of the gates, gates/_hook.py: a tool call is judged, the   *)
(* verdict is said on stderr, recorded in gate_decisions.jsonl and turned  *)
(* into an exit code, whatever fails on the way.                           *)
(*                                                                         *)
(* What the judging is belongs to each gate. The harness, which refuses a  *)
(* tool call for exit code 2 only and may kill a gate that takes too long, *)
(* is the environment.                                                     *)
(***************************************************************************)
EXTENDS Naturals, FiniteSets

CONSTANTS
  Call,    \* the tool calls
  MaxFull  \* bound: lines that meet a full disk

VARIABLES
  call,    \* what the gate has come to in each call
  log,     \* the lines of gate_decisions.jsonl that can be read
  ragged,  \* the file ends inside a line
  full     \* number of lines that met a full disk

hookVars == <<call, log, ragged, full>>

Verdict == {"allowed", "blocked", "warned", "error"}
ALLOW == 0
BLOCK == 2

\* "mute" is a call let pass without a line: allow() without a gate's name.
\* Exit code 9 is the gate killed.
HookTypeOK ==
  /\ call \in [Call -> [at : {"idle", "judge", "say", "record", "exit", "done"},
                        verdict : Verdict \cup {"none", "mute"},
                        code : {ALLOW, 1, BLOCK, 9}]]
  /\ log \subseteq Call \X Verdict
  /\ ragged \in BOOLEAN
  /\ full \in 0..MaxFull

HookInit ==
  /\ call = [c \in Call |-> [at |-> "idle", verdict |-> "none", code |-> ALLOW]]
  /\ log = {}
  /\ ragged = FALSE
  /\ full = 0

At(c, l) == call[c].at = l

\* block and warn speak first, allow does not.
FirstStep(v) ==
  CASE v \in {"blocked", "warned"} -> "say"
    [] v = "mute" -> "exit"
    [] OTHER -> "record"

\* The gate has come to verdict v.
Give(c, v) ==
  /\ call' = [call EXCEPT ![c].verdict = v, ![c].at = FirstStep(v)]
  /\ UNCHANGED <<log, ragged, full>>

Say(c) ==
  /\ At(c, "say")
  /\ call' = [call EXCEPT ![c].at = "record"]
  /\ UNCHANGED <<log, ragged, full>>

\* Mutant: guarded lets the exception out.
SayFailsUnguarded(c) ==
  /\ At(c, "say")
  /\ call' = [call EXCEPT ![c].verdict = "error", ![c].at = "exit"]
  /\ UNCHANGED <<log, ragged, full>>

\* stderr is closed: the exception ends in guarded, which allows.
SayFails(c) ==
  /\ At(c, "say")
  /\ Give(c, "error")

\* A line after half a line cannot be read.
Record(c) ==
  /\ At(c, "record")
  /\ call' = [call EXCEPT ![c].at = "exit"]
  /\ log' = IF ragged THEN log ELSE log \cup {<<c, call[c].verdict>>}
  /\ ragged' = FALSE
  /\ UNCHANGED full

\* OSError, none or half of the line written: "pass".
RecordFails(c) ==
  /\ At(c, "record") /\ full < MaxFull
  /\ call' = [call EXCEPT ![c].at = "exit"]
  /\ full' = full + 1
  /\ ragged' \in {ragged, TRUE}
  /\ UNCHANGED log

\* After an error guarded writes to stderr once more, and may fail there.
Code(v) ==
  CASE v = "blocked" -> {BLOCK}
    [] v = "error" -> {ALLOW, 1}
    [] OTHER -> {ALLOW}

\* Of the verdict only the exit code is left, and whether a line was due.
Left(v) == IF v = "mute" THEN "mute" ELSE "none"

Exit(c) ==
  /\ At(c, "exit")
  /\ \E n \in Code(call[c].verdict) :
       call' = [call EXCEPT ![c] = [at |-> "done", verdict |-> Left(@.verdict), code |-> n]]
  /\ UNCHANGED <<log, ragged, full>>

\* The harness's time-out.
KillGate(c) ==
  /\ ~At(c, "idle") /\ ~At(c, "done")
  /\ call' = [call EXCEPT ![c] = [at |-> "done", verdict |-> "none", code |-> 9]]
  /\ UNCHANGED <<log, ragged, full>>

HookStep(c) ==
  Say(c) \/ SayFails(c) \/ Record(c) \/ RecordFails(c) \/ Exit(c) \/ KillGate(c)

-----------------------------------------------------------------------------

Ended(c) == At(c, "done") /\ call[c].code # 9
Refused(c) == At(c, "done") /\ call[c].code = BLOCK
Lines(c) == {v \in Verdict : <<c, v>> \in log}

\* _hook.py:8 "Every verdict [...] is appended [...] so the audit trail is complete": no call
\* has two lines; the line of a call whose gate exited says "blocked" exactly when the
\* harness was given exit code 2, whatever failed on the way; and each full disk costs
\* the trail two lines at most, its own and the next. A gate that is killed has refused
\* nothing, whatever its line says, and one killed before its line leaves none.
AuditTrue ==
  /\ \A c \in Call : \A v, w \in Lines(c) : v = w
  /\ \A c \in Call : Ended(c) /\ Lines(c) # {} => (Lines(c) = {"blocked"} <=> Refused(c))
  /\ Cardinality({c \in Call : Ended(c) /\ call[c].verdict # "mute" /\ Lines(c) = {}})
       <= 2 * full
=============================================================================
