# SIC-SIT-Heartbeat: TLA+ models, checks and proofs

SIC-SIT-Heartbeat keeps an autonomous agent accountable: every unit of work is
a round in an append-only, hash-chained ledger, written by a heartbeat; gates
decide on tool calls before they run; deletions go through a trash that can be
undone; incidents become laws. This directory specifies what those programs do
to the files they share, in which order, and what holds of those files whatever
interleaves and whatever dies.

## 1. The system

All state is in files under `HEARTBEAT_HOME` (`src/ledger/paths.py`). No program
stays running except the heartbeat loop; every other one is a short process
that reads some files, writes some files and exits. They interact through those
files only, so the hard behaviour is: two processes interleaved, a process that
dies between two writes, a machine that loses what was not fsynced, and values
read before a lock and used under it.

| component | source | state | operations | hard behaviour | what makes it correct |
|---|---|---|---|---|---|
| Ledger | `ledger/ledger.py` | `rounds.jsonl`, `STATE_CURRENT.json`, `events.log`, `torn/`, the flock | `append` (plain, `--auto-round`, `--allow-discontinuity`), `repair --torn-tail`, `verify` (`tail`, `current` only print) | concurrent writers, crash at any byte, verify without the lock | the chain stays linked and numbered; nothing reported is lost; what is durable is never rewritten; verify says what is true |
| Derive | `ledger/derive.py` | none | reads the last round, prints the next block | reads without the lock | what became stale is renumbered or refused |
| Anchor | `ledger/anchor.py` | text files and their `.bak` | `emit`, `check`, `fix`, `coverage` | `fix` rewrites in place | `fix` leaves no drifted anchor |
| Gate contract | `gates/_hook.py` | `gate_decisions.jsonl` | `read_payload`, `block`, `warn`, `allow`, `guarded` | every step of a verdict can fail | the audit line is the verdict, an error allows |
| File governance | `gates/file_governance.py` | none | classifies one command or write | none (regular expressions) | - |
| Monitor dedup | `gates/monitor_dedup.py` | `watchers.jsonl` | the gate, `register`, `stop` | check and registration are apart | no two equivalent active watchers |
| Preregistration | `gates/prereg_gate.py`, `prereg_seal.py` | `prereg.json`, `.sha256` sidecars, exemptions | `new`, `sidecar`, `verify`, the gate | exists-then-write; files change under the gate | a seal is never overwritten; a verdict is earned |
| Decision cards, dispatch rung | `gates/decision_card.py`, `dispatch_rung.py` | none | check one text | none | - |
| Heartbeat tick | `heartbeat/tick.sh` | none of its own | verify, health, zombie check, derive and append | composition of the above; two ticks at once | a tick is recorded or exits 3 |
| Heartbeat loop | `heartbeat/run_loop.sh` | its line in `watchers.jsonl`, `last_tick.log` | register, tick for ever, mark stopped | signals, kill | registered active exactly while it runs |
| Health | `heartbeat/health.py` | none | reads the service manager and the hook list | the hooks hold absolute paths | a hook whose script is gone is noticed |
| Pending items | `heartbeat/zombie.py` | `pending.jsonl` | `open`, `close`, `check` | append-only lines out of order, a torn line | an item is open until closed |
| Tombstone | `rollback/tombstone.py` | `trash/<entry>/` payload, `tombstone.json` | `trash`, `restore`, `verify`, `list` | crash between move and record, check-then-move | nothing is destroyed; what is trashed comes back as it was |
| Forget check | `rollback/forget_check.py` | `forget_baselines.json` | `baseline`, `check` | read-modify-write of one file, a store that changes while it is measured | what is accepted is forgotten |
| Laws | `laws/legislate.py` | `laws/law-*.json` | `new`, `list`, `debts`, `validate` | next id and write are apart | every law keeps its id |
| Installer | `install/install.sh` | the hook list of `settings.json`, its backups | install, `--check`, `--uninstall` | read-modify-write of a file the user edits, deaths, clones that move | idempotent; the user's settings survive |

Components that only classify one text or print a status (file governance,
decision cards, dispatch rung, most of health, the schema and the example laws)
have no order and no state to get wrong; `PROJECT.json` lists them with the reason.

## 2. Modules

| module | models | composed of | proofs |
|---|---|---|---|
| `Ledger` | `ledger.py` and `derive.py` | `INSTANCE Log` | `LedgerProofs` |
| `Log` | what `ledger.py` promises of its rounds, each command one step | - | - |
| `Heartbeat` | `tick.sh`, beside commands of the agent and the operator | `EXTENDS Ledger` | `LedgerProofs` |
| `Tombstone` | `tombstone.py` | - | `TombstoneProofs` |
| `Watchers` | `monitor_dedup.py` and the life of `run_loop.sh` | - | `WatchersProofs` |
| `Pending` | `zombie.py` | `INSTANCE Tracker` | `PendingProofs` |
| `Tracker` | what `zombie.py` promises, each command one step on a table | - | - |
| `Laws` | `legislate.py` | - | `LawsProofs` |
| `Hook` | `_hook.py`: from a verdict to its exit code and audit line | - | `PreregProofs` |
| `Prereg` | `prereg_seal.py`, `prereg_gate.py` and the verdicts of the other gates | `EXTENDS Hook` | `PreregProofs` |
| `Forget` | `forget_check.py` | - | `ForgetProofs` |
| `Installer` | `install.sh`, and the tool calls that run what it installs | - | `InstallerProofs` |

`MCLedger`, `MCHeartbeat`, ... give the constants their small values, one
`.cfg` per question.

### Ledger

Every process is somewhere in a command; `pc` says before which system call.
`Derive` is `derive.py`, which reads without the lock and hands a block on;
`AppendRefuse` and `AppendBegin` take the flock, read the file and decide
(refuse, renumber under `--auto-round`, restart under `--allow-discontinuity`);
`WriteRound` and `WriteNewline` are the write, which may stop part-way
(`WritePart`), `Fsync` the fsync, `StageCurrent` and `ReplaceCurrent` the
temporary file and the rename of `STATE_CURRENT.json`, `Finish` the line in
`events.log` and the release. The repair has its own steps under the same lock
(`SaveFragment`, `StageRounds`, `ReplaceRounds`, `FinishRepair`); `verify` has
two (`VerifyRounds`, `VerifyCurrent`), because it reads `rounds.jsonl` and `STATE_CURRENT.json` at
two moments and without the lock.

The file is a sequence of whole lines, then what follows the last newline: a
sequence of pieces, because a torn end can be added to. A piece is the start of
a round's line or all of it but the newline; `read_rounds` accepts the latter.
`buried` says that a newline was later written behind glued pieces. `Kill`
stops a process before any step (and in the middle of a write), `WriteError`
makes `atomic_write` raise, `PowerLoss` cuts the file anywhere behind what an
fsync covered, and `events.log` and `torn/`, which are never fsynced, anywhere.

Abstractions. A digest is the number of the request whose round it is, so
distinct rounds have distinct digests and a digest can be anybody's `prev`.
A rename is durable when it is made, and the fsync of a directory is taken
with that of its file. Left out: `validate_state`'s refusals and the governance
flag, which change neither order nor numbering; Unicode normalisation; the
semantic fields of a block other than the task; `tail` and `current`, which
only print.

`Log` is the abstract specification: a sequence of rounds that grows at its end
by rounds it has never held, the set of those whose append has reported success,
and whether it is spoilt (a line cannot be read). `Ledger` implements it with
`log <- the digests of file.lines` and `spoilt <- file.buried`: the processes,
the flock, the torn ends, the temporary files, `STATE_CURRENT.json` and
`events.log` are the detail that is left out. A fault may take back an end of the
log only while nobody was told of it.

### Heartbeat

A tick is a record per process on top of `Ledger`: the step of `tick.sh` it is
at, whether `verify` passed, `red`, and what it exited with. The actions are
those of `Ledger`, guarded by the tick's place: `CheckChain`/`ChainChecked` are
`verify`, `TickDerives` and `TickAppends`/`TickRecorded`/`TickRefused` the
pipeline of line 32-37, `DerivesNothing` the pipeline when `derive.py` fails and
`append` reads no JSON. There is no `pipefail`: the pipeline's code is that of
`append`. `CommandBegins` and `CommandSteps` are appends and repairs that no
tick runs, and also the children that outlive a killed `tick.sh`. `KillCommand`
kills a child (its tick sees it fail and goes on), `KillTick` the tick with or
without its child. What health, zombie, the inbox and the debts answer is any
answer. `clean` and `alone` are history variables for the properties;
`deaths` and `MaxOthers` are bounds.

### Tombstone

`disk` maps paths and trash entries to trees, `stone` maps entries to
`tombstone.json` with the states none, directory made, file opened (truncated),
whole. A content is the number of the edit that wrote it; a manifest is the set
of contents; 0 is a file copied in part. `shutil.move` is one step on one file
system and copy-then-remove for paths in `Elsewhere`; it replaces a file and
goes inside a directory, as the library does. A copy reads each file once
(`Copies`): what was there when it began is in it, unless the file was
rewritten; what has been written since is in it, in part or not at all, and goes
with the source. The user edits paths and payloads at any time.

Abstractions: hashing a tree is one step; there is no loss of power; on an
`Elsewhere` path commands run one at a time and the user leaves alone the
target of a copy that is coming back. `verify` and `list` only print; the
refusal of symlinks and of a `--why` with a newline are left out, and so is
`TOMBSTONE.md`, a rendering nothing reads.

### Watchers

One record of life per watcher (admitted by the gate, started, registered, trap
set, dead), what its latest line in `watchers.jsonl` says, the watchers that died
without a line "stopped" (`abrupt`), and what the registry cannot see (`slips`):
overlapping mounts; mounts past an equivalent active entry, because the gate
failed (`guarded` allows on anything `main` raises, `main` on a payload it cannot
parse, the harness when the gate was killed) or because a loop was started by hand;
SIGTERM to a loop, whose trap marks it stopped and goes on; a register line that
was not written; a registration under another text than was mounted (`run_loop.sh`
does that); a live watcher marked stopped by hand. The loop's own `register` and
`stop` both end in `|| true`, so each may write nothing (`RegisterFails`,
`HangUpFails`). A command is what `norm()`, its words and `fingerprint()` make of
it; `MCWatchers` gives the values these functions return for four concrete
commands, among them `run_loop.sh` mounted in two ways. `Mount` is the gate at the
moment it reads the registry; the watcher starts and registers later, and that gap
is the interleaving.

### Pending and Tracker

`pending.jsonl` is a sequence of lines and an end without newline. An open or a
close is one write; a full disk cuts it, which leaves an end the next line is
glued to (`Junk`); a loss of power takes any end of what was not written back.
A check reads in one step and judges against the date in another. `Tracker` is
the abstract specification: a table on which open and close are single steps,
whose promise ends when the file is spoilt. `Pending` implements it with
`open <- Standing(File)` (the replay of lines 24-33), a `PROPERTY` of the run
and a theorem. Abstraction: the date is read in the step that writes the line.

### Laws

`new` picks a number (`Pick`), truncates its file (`Open`) and writes it
(`Write`), with other processes, deaths, the agent's edits of enforcers and the
removal of broken files in between; `Debts` is the listing over the laws and
the examples. A file opened by one process and written by two is broken.
Abstractions: no loss of power; the refusal of an empty text, which comes
before anything is written, is left out. `shared` remembers the numbers two
processes picked at the same time: `new` does not exclude that, and the
properties are about every other number.

### Hook and Prereg

`Hook` follows a tool call from the verdict its gate comes to: said on stderr
(`Say`), recorded (`Record`), turned into an exit code (`Exit`). stderr may be
closed, which `guarded` turns into an error, which allows (`SayFails`); the disk
may be full, which leaves no line or half of one, to which the next is glued
(`RecordFails`); the harness may kill the gate (`KillGate`). Exit code 1 stands for a last
write to stderr that raises, 9 for a gate that was killed.

`Prereg` adds the one gate that judges by files which other processes write:
`new` as read, check, open, write; `sidecar` as read, open, write; the gate as
one step per file it reads, the sidecar before its document. The files a call
names are taken in any order, as `set(...)` gives them. `Judged` are the calls that
gate judges; the others are those of file governance and dispatch rung, whose
verdicts are any verdict.
`told`, `raced` and `seen` are history variables for the properties. A text is
the number of the edit that wrote it, and its digest the same number.
Abstractions: one `prereg.json` and one document; only the document has a
sidecar and a marker; the user removes a seal only when it is broken.

### Forget

A store is its pages with live rows, its free pages and whether there are
orphans; `baseline` is load, measure, truncate, write; `check` is one step per
measure, since the store may change between any two, and a comparison with the
table read at the end. `still` remembers that neither the store nor its baseline has
changed since a check began, `lossy` that two baselines were at work at once
(one of them is then lost, which the property excepts). Without `--orphan-sql`
no orphans are counted and `check` prints "no orphans" all the same; the model
always gives it.

### Installer

`settings.json` is the number of our hooks for each clone, and the user's version of all
the rest. install looks for the file (`Begin`) and, when there is none, truncates
and fills it (`Create`, `Fill`), whatever has come there since; then, as uninstall
from the start, it is backup, read, truncate and write. Two that write over each other
may leave a tail of the longer text (`Over`). `Mentions` says for each path in
which commands its text occurs: uninstall removes by substring. An entry of
ours the user has added a hook to (`mixed`) goes as a whole, with the user's
hook, which then is only in the backup. After the user has copied a backup
back, which hooks are in the file is left open. The user's own versions leave out
any of our hooks, and what is left out is installed no longer. Two commands at once
lose one of the two changes, and one that makes the file wipes what another has
written, so `installed` then promises nothing; `slips` names the ways the backups
of the latest version fail: it was written between a command's look for the file and
its making it or between its backup and its write, or two backups since had one
name. A tool call runs every hook in the file.

## 3. Runs

| run | asks | distinct states |
|---|---|---|
| `ledger` | does the ledger stay linked, complete, append-only, healable, is it a log, and is verify right? | 581,083 |
| `heartbeat` | does a tick record what it says, is a quiet heartbeat green, does everything end? | 443,308 |
| `tombstone` | can content be lost; does restore bring back what was trashed? | 1,729,603 |
| `watchers` | can two equivalent watchers live; are the entries true? | 105,867 |
| `pending` | does the file implement the tracker; can a check overlook an item? | 1,615,674 |
| `laws` | does a law keep its number; is every debt listed? | 35,085 |
| `prereg` | is a seal kept, a verdict earned, the audit trail true? | 597,417 |
| `forget` | is what check accepts forgotten? | 1,216,755 |
| `installer` | do the user's settings survive; are the hooks of a clone there once? | 4,902,647 |
| `ledger_buried`, `ledger_task`, `installer_outage` | do the documents' sentences hold? They do not: see section 6 | - |

Deadlock is checked in `ledger`: a state where nobody can move would be a
stuck lock, and the model always allows another verify. The other runs
that pass say `CHECK_DEADLOCK FALSE`: their bounded requests, edits, lines, laws or ids end.

### The properties

- `ChainIntact`: what `read_rounds` returns has consecutive `seq`, each
  `prev_hash` the digest before it, and consecutive numbers unless a
  discontinuity is recorded.
- `PublishedSurvives`: a round that was reported, or that `STATE_CURRENT.json`
  or `events.log` names, is in `rounds.jsonl` after any crash.
- `DurableAppendOnly`, `CutIsSaved`: an fsynced line is never touched; a repair
  cuts only what it has just saved.
- `QuietVerifies`, `AppendHeals`, `VerdictHolds`: no false alarm without a
  fault; the next append that succeeds mends what a crash left; what verify
  prints is what the files are when nobody holds the lock.
- `UpstreamLinked`: where a round's upstream names a round of the ledger, or
  nothing, it names what comes just before, unless the ledger restarts between
  the two, whatever was derived when and whatever faults came between. Not
  covered, and possible: a restart in between (section 6), a caller that numbers
  ahead (`NobodyAhead`), and the name of a round that a repair or a loss of power took
  away after the derive. Of that round nobody was told (`PublishedSurvives`).
- `EventsInOrder`, `CurrentNotBehindAcked`: what the unsynced log and the late
  rename may and may not do.
- `ExitMeansRecorded`: a tick that exits 0 or 1 has left its own round.
- `AloneIsGreen`, `AloneIsRecorded`: a tick that meets nobody, after an append
  has healed the last fault, finds the chain intact and is recorded.
- `EverythingEnds`: no torn file, dead child or dead lock holder makes a tick or
  a command hang.
- `NothingDestroyed`, `Undoable`, `RestoreFaithful`, `RestoredIsGone`: trash
  and restore lose nothing but what comes to a path between restore's last look at it
  and its move, or while it is copied to another file system and removed, and a
  reported trash can be undone to exactly what it was.
- `OneWatcher`, `EntryIsTrue`: no two equivalent watchers live except after the six
  things `slips` names; an active entry is of a watcher that lives, was killed, or
  whose stop line failed, a stopped one of a dead one unless a loop got SIGTERM or
  somebody stopped the entry of a live watcher.
- `Logged`: the ledger implements `Log`.
- `SealKept`: a digest `new` has reported stays in `prereg.json` through
  tampering, deaths and later runs, unless two runs were past the check at once.
- `VerdictEarned`: while files change under the gate, it blocks only when no
  named file was sealed, undisputed by a sidecar, all the time, and allows only for
  a file that was sealed at some moment of the judging. A call that passes because
  the gate met an error is not judged and not covered.
- `AuditTrue`: no call has two lines of the trail, that of a call whose gate exited
  says `blocked` exactly when the call was refused, and a full disk costs two lines
  at most. A gate killed after its line `blocked` has refused nothing all the same.
- `AcceptedIsForgotten`: a store at rest that is accepted has no free pages, no
  orphans and is no larger than its last reported baseline.
- `SettingsKept`, `InstalledOnce`: the user's last settings are in the file or
  a backup, but for those written under a running command and two backups in one
  second; the gate of a clone that was installed, while no other command held the
  settings or was making them, runs once per call until an edit or an uninstall
  takes it out.
- `Tracked`, `NothingOverlooked`; `LawKept`, `DebtsVisible`: an item is open until closed, a green
  check has missed none, a law keeps its number, a debt is listed until settled;
  but for what the properties themselves except (a loss of power, a shared number).

### Bounds, and why they are enough

- Ledger: two processes, because every race is between the lock holder and one
  other; three requests, so that a round can have a predecessor and a stale
  derive a round in between; two faults, so that a crash can meet what the
  previous one left. `EntityWindow` is 2 instead of 20. `Modes` has the four
  ways to call `append`; `Restart` edits the round number back.
- Heartbeat: four requests, so that a fault after the first append, a red tick
  that heals and a green one after it fit; one fault; only the first request
  may be of no tick (`MaxOthers` = 1): later ones differ only in the number.
- Tombstone: two processes, a path on each file system, three entries (an entry
  is never used twice), three edits, one kill; smaller instances refute.
- Watchers: three watchers, so that one can be stopped between two others;
  commands that are equivalent by shape but not by words, and the script under
  the text it registers and under another.
- Prereg: two sealers, so that two runs of `new` overlap; one full disk and three
  calls, so that the two lines it may cost are fewer than the calls; one of them is
  an experiment (`Judged`); three edits, so that a text can be sealed, changed and
  changed again. The calls meet in the audit file only, and the other two touch no
  file the user or a sealer touches: `OthersEarly` (an `ACTION_CONSTRAINT`) has them
  over when the user first writes, with the outcome that leaves nothing behind; every
  other outcome is explored before. The theorems have no such bound.
- Forget: two processes, two stores, so that a baseline of one can undo the other's; one
  page of rows (a page more is a growth), one death.
- Installer: two processes, two clones whose paths begin alike, two edits, two
  seconds, one death.
- Pending: two items, three days, three lines, two faults, one checker.
- Laws: two processes, four laws, two kills, one example with the number of a
  real law.

`SYMMETRY` is used only in runs without liveness properties and only on values
the constants treat alike. TLC evaluates every `ASSUME`. A mutant of the model
is stated next to the definition it changes, with the comment `Mutant:`; for
each property of each passing run TLC finds it violated under one of them.

### Fairness

Only `HeartbeatSpec` states fairness: weak fairness of `TickStep(p)`, a step
of the command or tick that process `p` runs. The operating system runs every
process that can run, and the kernel releases the flock of a process that
exits or dies. Nothing is assumed about when a tick or command begins. A
process that waits for the lock is served because the others' requests are
finite; on a real machine the same follows from ticks that come minutes apart,
since flock itself promises no order. The safety runs need no fairness.

## 4. Proofs

TLAPS proves, for every number of processes, requests, faults, items, days,
watchers, gates, stores, paths, laws and clones, under the `ASSUME`s of the
modules (which TLC evaluates), every invariant and every action property the
passing runs check:

| module | theorem | with the invariant | why it is needed |
|---|---|---|---|
| `LedgerProofs`, the ledger | `TypeCorrect` | `TypeInv` | the lock holder, and nobody else, is in the locked part; a rename to come has its temporary file |
| | `ChainCorrect` | `ChainInv` | the wrapper to be written must still extend the file when it is written, and the pieces after the last newline must extend it too: a newline alone completes them |
| | `PublishedCorrect` | `PubInv` | what is reported is covered by an fsync; between the write and the report the holder's wrapper is at the end of the file |
| | `DurableCorrect` | `ChainInv`, `TypeInv` | a repair cuts only behind the last newline, a loss of power only behind `synced` |
| | `CutCorrect` | `EvidenceInv` | from saving the fragment to the rename, the end of the file is the one saved, although others run |
| | `LogCorrect` | `ClaimInv` | a digest that is about to be written, or still to be claimed, is in no line yet and in nobody else's hands, so what comes in is new; after the write the holder's round is the last line, so what is acknowledged is the newest |
| | `CurrentCorrect` | `AfterInv`, `CurInv` | an append that is past its write has left no fragment or buried it, with its fsync for good; the bare property is not inductive, because a loss of power can unbury a line and must then find `STATE_CURRENT.json` at the acknowledged rounds |
| | `EventsCorrect` | `EventInv` | a round still to be told of is the last line and in no event yet: the lines before it were told of before |
| | `QuietCorrect` | `QuietInv` | which states no fault has touched: the end of the file and `STATE_CURRENT.json` are behind the last line only while an append is there |
| | `HealsCorrect` | `AfterInv`, `NameInv` | what a successful append leaves, whatever it found |
| | `VerdictCorrect` | `TailInv`, `SeenInv` | what a verify computed of the rounds up to the last it read is what it would compute of them now, wherever that round has moved: from the torn end into a line, or into a burial |
| | `UpstreamCorrect` | `UpInv` | of all the rounds begun, whole or not, since a newline completes them: they are numbered one by one between restarts, and a block that waits for the lock is numbered one past the round it names at most, so the numbering check refuses it when it is stale; no upstream is the name of a round not begun |
| `LedgerProofs`, the heartbeat | `OnLedger` | `TypeInv` | every step of the heartbeat is a step of the ledger, or leaves it alone |
| | `LedgerUnderHeartbeat` | - | so what is proved of the ledger holds under the heartbeat |
| | `TickTypeCorrect` | `TickTypeOK` | - |
| | `RecordedCorrect` | `IdInv` | from derive to exit the tick's number is that of its process's block or wrapper, and a finished append has acknowledged it |
| | `GreenCorrect`, `AloneCorrect` | `CleanInv`, `AloneInv`, `GreenInv` | an append that heals makes the ledger `Quiet` again; while a tick is alone every other process rests, so what its verify has read is still the file |
| `TombstoneProofs` | `TombstoneTypes` | `PlacedInv`, `ReturnInv` | a command at work has a path and an entry; what can be restored has a path |
| | `NothingLost` | `OwnInv`, `FindsInv` | a trash has its entry for itself and a copy its path, so what is removed is in the copy, which has what was there when it began, was overwritten, or is `exposed` |
| | `RestoredCorrect` | `FindsInv`, `FreshInv` | the payload is gone when the tombstone is stamped, and stays gone |
| | `UndoCorrect` | the same, and `RestoredIsGone` | only its trash, its restore and its user change an entry |
| | `RestoreCorrect` | `FindsInv` | what was compared with the manifest is still the payload, and what has come to the path since the check is `exposed` |
| `WatchersProofs` | `TypeCorrect` | - | - |
| | `ActiveCorrect` | `ActiveInv` | a watcher that was killed, or whose stop line failed, stays dead, so an entry stays excused; one that has not registered has no entry |
| | `OneWatcherCorrect` | `DupInv` | without a slip at most one mount is under way, every live watcher past it is active under its own text, and equivalence is symmetric |
| `PendingProofs` | `TypeCorrect` | - | - |
| | `TrackerCorrect` | `TypeOK` | a line added changes the replay as the abstract command changes the table (`StandingAppend`), and a line cut spoils it or adds nothing |
| | `OverlookedCorrect` | `SeenInv` | what an open reported stands in the file, and what a checker owes is in what it has read |
| `LawsProofs` | `LawsTypes` | `Bounded` | the number `next_id` gives is in no file and at most one more than there have been laws (`Fresh`, from the greatest element of a finite set of numbers) |
| | `LawsAreKept` | `LawInv` | a law at work is in no file yet, and nobody else at work has its number unless that is remembered in `shared`; the file of a reported one is whole and nobody is about to write it |
| | `DebtsAreVisible` | `LawInv` | so the file of a reported law says what was reported until its enforcer is written in |
| `PreregProofs` | `TypeCorrect` | `TypeInv` | a line is due only for a verdict |
| | `SealCorrect` | `SealInv` | until a digest is reported a run of `new` is alone past the check with the file it makes; from then on none is there |
| | `VerdictCorrect` | `SideInv`, `VerdictInv` | a text never comes back and a sidecar is opened before it is written, so what the gate holds of the sidecar still tells what the document was: the two reads, at two moments, agree with one |
| | `AuditCorrect` | `AuditInv` | a call has no line before its step, and the lines lost, with one more owed while the file ends inside a line, are two for a full disk |
| `ForgetProofs` | `TypeCorrect` | `TypeInv` | whoever has begun works on a store |
| | `AcceptCorrect` | `AcceptInv` | one baseline at a time holds what is reported of the other stores, and what a check of a store at rest has found is still so |
| `InstallerProofs` | `InstallerTypes` | `Rooted` | a command at work is run by a clone |
| | `InstallerKeepsSettings` | `MadeInv`, `BackupInv` | settings that are there stay there; a command past its backup has backed the latest edit up, and none that looked for the file before that edit is still to make it, unless the edit is a slip |
| | `InstallerOnce` | `HooksInv` | what a command holds between its read and its write has every installed clone's hook once, but those its own uninstall removes; nothing is installed while a command makes the file |

Each proof is the usual one: the invariant holds at first, every action keeps
it (one step per action), it implies the property; TLC checked the invariants
on the instances of section 3 before they were proved.

Assumptions. The `ASSUME`s are about the constants only: which sets are
disjoint, that there is a process, that bounds are natural numbers. One was
made stronger for a proof, `MaxSeconds` of `Installer` is at least 1: a clock
shows some second. `UpstreamLinked` has a hypothesis about them in itself,
`NobodyAhead`: no caller edits the round number of its block upwards. It is needed. A
block numbered one ahead is refused if nothing happened since its derive, but if
another process appended one round in the meantime its number is right and its
`relation.upstream` stale, and the check of the number is the only one there is.
`derive.py` never makes such a block and the run `ledger` has none either (its
`Restart` goes back).

Only model-checked: the liveness `EverythingEnds`. Liveness under fairness,
`ENABLED`, and what a recursive definition computes for every input are out of
reach of the prover; no module here has a `RECURSIVE` operator. The sentences
of section 6 are refuted by TLC, which needs no proof.

## 5. Not modelled

`anchor.py` reads and rewrites text files by regular expressions, in one
sequential pass: the questions about it are about the patterns, which a model of
steps says nothing of. (Read, not run: `fix` never converges on an anchor of 8 to
15 hex digits, which `check` asks to be 16; a second `fix` keeps the first `.bak`.)
Of file governance, decision cards and dispatch rung the verdicts are modelled
(decision cards is a library without one), not the text they match. The
other components listed `not_modelled` in `PROJECT.json` are data or prose.

## 6. Where the documents and the code differ

With a run that shows it (`PROJECT.json`, `findings`):

- `ledger_buried`: an append after a crash that lost only the newline glues
  its line to the last; the ledger is then neither readable nor repairable.
- `ledger_task`: `--auto-round` keeps a task inherited from a round that is no
  longer the previous one.
- `installer_outage`: after a clone has moved, its hooks do not go silently
  off, they refuse every tool call: python3 exits with 2 when its script is gone.

Met while modelling, without a run of their own:

- verify can fail during a healthy append, whose line it sees half written or
  whose `STATE_CURRENT.json` it reads late; for the same reason a tick beside
  an append may be red, or exit 3 because `derive.py` met a half-written line.
- A recorded change of agent keeps verify failing while the window of 20 rounds
  holds both names (`ledger.py:214`, against `docs/SPEC_LEDGER.md:57`).
- `STATE_CURRENT.json` may be more than one round behind, and temporary files
  stay, after several crashes; events may be missing from `events.log`.
- What appears at the original path between `restore`'s check and its move is
  replaced (`tombstone.py:102`, against line 100); the model counts it as `exposed`.
- What a program writes into a tree while `trash` copies it to another file system
  can miss the copy and go with the source; the manifests agree about the rest and
  success is reported (`tombstone.py:66`, against line 4).
- A death after the move, or a manifest that changed during it, leaves a payload in the trash
  without `tombstone.json` (`tombstone.py:66`, against line 4).
- A loop that gets SIGTERM is marked stopped and ticks on (`run_loop.sh:12`,
  against line 3); the slip "TERM".
- `run_loop.sh` registers `run_loop.sh <interval>` however it was mounted, so a
  second loop mounted as `./heartbeat/run_loop.sh 3600` is admitted (against
  `install/INSTALL.md:26`); the slip "renamed". Its stop on exit can fail under
  `|| true`, and its entry then stays active (`run_loop.sh:11`, against line 3).
- The gate of watchers admits a duplicate whenever it fails (`monitor_dedup.py:103`:
  a registry line that is no object, a closed stderr in `block`); "ungated".
- A call allowed without a gate's name leaves no audit line (`_hook.py:63`,
  against line 8), and so does a full disk; one that cuts a line costs two. A gate
  killed between its line and its exit leaves "blocked" of a call that then runs.
- Two runs of `new` can both pass the check of `prereg.json` and the second
  replaces the first's seal (`prereg_seal.py:62`, against line 63); one that
  dies after `open` leaves an empty file, and `new` then refuses for ever.
- With a sidecar being written and a FROZEN marker coming and going, the gate
  can look for the sidecar at one moment and for the marker at another.
- Two concurrent baselines lose one (`forget_check.py:55`); a check beside a
  baseline may meet the emptied table and raise.
- Uninstall removes hooks of clones whose path its own begins, and a user's hook
  that shares an entry (`install.sh:34`, against line 9); two backups in one
  second are one; `--dry-run` creates a missing `settings.json` (line 42).
- install looks for `settings.json` and then truncates it to make it (line 42): what
  the user or another install has written in between is wiped without a backup
  (against line 8). What the user writes between its backup and its write is undone,
  and two commands that write at once may leave a file that is no JSON (line 63).
- A block whose caller numbered it one ahead is accepted with a stale
  `relation.upstream` when another append came in between (`ledger.py:161` checks the
  number only); the hypothesis of `UpstreamLinked`. So is a block derived before a
  restart that numbers the rounds back, and one derived from a round that a repair
  or a loss of power has taken away since, if another has taken its number.
- The fragment a repair has saved under `torn/` is not fsynced: a loss of power after
  the cut may take it too (`ledger.py:239`).
- A loss of power takes items from `pending.jsonl` that were reported open, which
  nothing notices (`zombie.py:40`); two runs of `new` at once can give two laws one
  number, of which one replaces the other (`legislate.py:46`).
- Two repairs within one second save their fragments under one name.
- Two overlapping mounts both pass the gate.
- Opening an overdue pending item again restarts its clock.

## 7. Plan

Done: the modules of section 2 and the proofs of section 4. Next, most
important first:

1. an abstract specification of the tombstone (an item is at its path or in the
   trash), and `Tombstone` shown to implement it where nothing is exposed;
2. `Anchor` as a pure operator on classes of anchors: whether `fix` followed by
   `check` is clean.
