------------------------------ MODULE Watchers ------------------------------
(***************************************************************************)
(* The watcher registry: the gate of gates/monitor_dedup.py, which admits  *)
(* or blocks the mount of a watcher, the register and stop lines of        *)
(* watchers.jsonl, and the life of heartbeat/run_loop.sh, which writes     *)
(* both about itself, under the signals it can get.                        *)
(*                                                                         *)
(* The harness that starts a watcher after the gate has allowed it, and    *)
(* the agent who registers and stops the watchers that do not do so        *)
(* themselves, are the environment.                                        *)
(***************************************************************************)
EXTENDS Naturals, FiniteSets

CONSTANTS
  Id,            \* task ids: a new one for every watcher started
  NoCommand,     \* the command of an id not yet used
  Command,       \* the commands that are mounted
  RegisteredAs,  \* the command each of them is registered under
  LoopScript     \* those that run run_loop.sh: they register themselves

ASSUME CommandAssumption ==
  /\ NoCommand \notin Command
  /\ LoopScript \subseteq Command
  /\ DOMAIN RegisteredAs = Command

VARIABLES
  life,    \* where each watcher is in its life
  cmd,     \* what it was mounted with
  entry,   \* what the latest line of watchers.jsonl about it says
  abrupt,  \* the watchers that died and left no line "stopped"
  slips    \* what has happened that the registry does not see:
           \*   "overlap"      a mount while another is under way
           \*   "ungated"      a mount in spite of an equivalent active entry
           \*   "TERM"         a loop was sent SIGTERM
           \*   "unregistered" a register line was not written
           \*   "renamed"      a watcher registered another command than its own
           \*   "coexist"      a live watcher's entry was marked stopped

vars == <<life, cmd, entry, abrupt, slips>>

-----------------------------------------------------------------------------
(* The gate.                                                               *)

\* A command is what the gate sees of it: norm is norm(), the text with its
\* blanks, quotes, dates and case levelled; tokens the set of its words; loop,
\* sleep and topic are fingerprint().

Equivalent(old, new) ==
  \/ old.norm = new.norm
  \/ old.tokens # {} /\ old.tokens = new.tokens
  \/ /\ new.loop /\ new.topic # ""
     /\ old.loop = new.loop /\ old.sleep = new.sleep /\ old.topic = new.topic

\* Mutant: the loop's shape is not compared.
BlockedByText(c) ==
  \E i \in Id :
    LET old == RegisteredAs[cmd[i]] IN
    /\ entry[i] = "active"
    /\ old.norm = c.norm \/ (old.tokens # {} /\ old.tokens = c.tokens)

Blocked(c) == \E i \in Id : entry[i] = "active" /\ Equivalent(RegisteredAs[cmd[i]], c)

UnderWay(i) == life[i] \in {"admitted", "started"}

Init ==
  /\ life = [i \in Id |-> "none"]
  /\ cmd = [i \in Id |-> NoCommand]
  /\ entry = [i \in Id |-> "none"]
  /\ abrupt = {}
  /\ slips = {}

\* The agent asks for a watcher.  The gate admits it if it finds no equivalent
\* active entry, and also if it fails: guarded allows on whatever main raises (a
\* closed stderr in block, a registry line that is no object, a file that is not
\* UTF-8), main on a payload it cannot parse, the harness when the gate was killed;
\* and a loop started by hand passes no gate.
Mount(i, c) ==
  /\ life[i] = "none"
  /\ life' = [life EXCEPT ![i] = "admitted"]
  /\ cmd' = [cmd EXCEPT ![i] = c]
  /\ slips' = slips \cup {s \in {"overlap"} : \E j \in Id : UnderWay(j)}
                   \cup {s \in {"ungated"} : Blocked(c)}
  /\ UNCHANGED <<entry, abrupt>>

\* The harness runs it.
Start(i) ==
  /\ life[i] = "admitted"
  /\ life' = [life EXCEPT ![i] = "started"]
  /\ UNCHANGED <<cmd, entry, abrupt, slips>>

\* Mutant: a status the gate does not know.
RegisterRunning(i) ==
  /\ life[i] = "started"
  /\ entry' = [entry EXCEPT ![i] = "running"]
  /\ life' = [life EXCEPT ![i] = IF cmd[i] \in LoopScript THEN "untrapped" ELSE "running"]
  /\ slips' = IF RegisteredAs[cmd[i]] = cmd[i] THEN slips ELSE slips \cup {"renamed"}
  /\ UNCHANGED <<cmd, abrupt>>

\* The line "active", from the loop's own register or the agent's.
Register(i) ==
  /\ life[i] = "started"
  /\ entry' = [entry EXCEPT ![i] = "active"]
  /\ life' = [life EXCEPT ![i] = IF cmd[i] \in LoopScript THEN "untrapped" ELSE "running"]
  /\ slips' = IF RegisteredAs[cmd[i]] = cmd[i] THEN slips ELSE slips \cup {"renamed"}
  /\ UNCHANGED <<cmd, abrupt>>

\* "|| true": whatever register met, the loop goes on.  A line written behind half
\* a line is no line of its own either.
RegisterFails(i) ==
  /\ life[i] = "started"
  /\ life' = [life EXCEPT ![i] = IF cmd[i] \in LoopScript THEN "untrapped" ELSE "running"]
  /\ slips' = slips \cup {"unregistered"}
  /\ UNCHANGED <<cmd, entry, abrupt>>

\* mktemp and trap come after it.
SetTrap(i) ==
  /\ life[i] = "untrapped"
  /\ life' = [life EXCEPT ![i] = "trapped"]
  /\ UNCHANGED <<cmd, entry, abrupt, slips>>

-----------------------------------------------------------------------------
(* Signals.                                                                *)

Alive(i) == life[i] \in {"started", "untrapped", "running", "trapped"}

\* Mutant: no trap on EXIT.
HangUpUncaught(i) ==
  /\ life[i] = "trapped"
  /\ life' = [life EXCEPT ![i] = "dead"]
  /\ UNCHANGED <<cmd, entry, abrupt, slips>>

\* The session ends: the shell runs its EXIT trap, the line "stopped", and dies.
HangUp(i) ==
  /\ life[i] = "trapped"
  /\ entry' = [entry EXCEPT ![i] = "stopped"]
  /\ life' = [life EXCEPT ![i] = "dead"]
  /\ UNCHANGED <<cmd, abrupt, slips>>

\* "|| true" again: the stop of the EXIT trap writes no line (a full disk, no
\* python3), or one behind half a line, and the shell dies all the same.
HangUpFails(i) ==
  /\ life[i] = "trapped"
  /\ life' = [life EXCEPT ![i] = "dead"]
  /\ abrupt' = abrupt \cup {i}
  /\ UNCHANGED <<cmd, entry, slips>>

\* SIGTERM or SIGINT: cleanup runs and returns, and the shell goes back to its
\* loop.  If its stop fails, nothing has changed.
Terminate(i) ==
  /\ life[i] = "trapped"
  /\ entry' = [entry EXCEPT ![i] = "stopped"]
  /\ slips' = slips \cup {"TERM"}
  /\ UNCHANGED <<life, cmd, abrupt>>

\* SIGKILL, or any signal where no trap is set.
Kill(i) ==
  /\ Alive(i)
  /\ life' = [life EXCEPT ![i] = "dead"]
  /\ abrupt' = abrupt \cup {i}
  /\ UNCHANGED <<cmd, entry, slips>>

\* monitor_dedup.py stop <id>, of a watcher found dead, or of one that lives on.
Stop(i) ==
  /\ entry[i] = "active"
  /\ entry' = [entry EXCEPT ![i] = "stopped"]
  /\ slips' = IF life[i] = "dead" THEN slips ELSE slips \cup {"coexist"}
  /\ UNCHANGED <<life, cmd, abrupt>>

Next ==
  \E i \in Id :
    \/ \E c \in Command : Mount(i, c)
    \/ Start(i) \/ Register(i) \/ RegisterFails(i) \/ SetTrap(i)
    \/ HangUp(i) \/ HangUpFails(i) \/ Terminate(i) \/ Kill(i) \/ Stop(i)

Spec == Init /\ [][Next]_vars

-----------------------------------------------------------------------------
(* What the registry promises.                                             *)

\* Type invariant: the lives of watchers and the statuses of watchers.jsonl.
TypeOK ==
  /\ life \in [Id -> {"none", "admitted", "started", "untrapped", "running", "trapped", "dead"}]
  /\ cmd \in [Id -> Command \cup {NoCommand}]
  /\ entry \in [Id -> {"none", "active", "stopped"}]
  /\ abrupt \subseteq Id
  /\ slips \subseteq {"overlap", "ungated", "TERM", "unregistered", "renamed", "coexist"}

\* monitor_dedup.py:2 "no duplicate watchers": unless a mount overlapped another or
\* passed the gate by its failure, or one of the four things has happened that make
\* a live watcher's entry missing, wrong or stopped, no two equivalent watchers are
\* alive, through any sequence of mounts, hang-ups, kills and stops.
OneWatcher ==
  slips = {} =>
    \A i, j \in Id : i # j /\ Alive(i) /\ Alive(j) => ~Equivalent(cmd[i], cmd[j])

\* The gate blocks a mount, and admits one, for a reason: an active entry is that
\* of a live watcher, or of one that was killed or whose stop line failed, never of
\* one that wrote it, and a watcher that is registered "stopped on exit"
\* (run_loop.sh:3) has exited, unless a loop got SIGTERM or somebody stopped the
\* entry of a live one.
EntryIsTrue ==
  \A i \in Id :
    /\ entry[i] = "active" => Alive(i) \/ i \in abrupt
    /\ entry[i] = "stopped" /\ Alive(i) => slips \cap {"TERM", "coexist"} # {}
=============================================================================
