--------------------------- MODULE WatchersProofs ---------------------------
(* Theorems about the watcher registry, for any number of watchers and any *)
(* set of commands.                                                        *)
EXTENDS Watchers, TLAPS

-----------------------------------------------------------------------------
(* Types.                                                                  *)

\* The files and the watchers have their types at the start.
LEMMA TypeInit == Init => TypeOK
  BY DEF Init, TypeOK

\* Every step of the gate, of a watcher and of the agent keeps them.
LEMMA TypeStep == TypeOK /\ [Next]_vars => TypeOK'
  <1> SUFFICES ASSUME TypeOK, [Next]_vars PROVE TypeOK'
    OBVIOUS
  <1> USE DEF TypeOK
  <1>1. CASE UNCHANGED vars
    BY <1>1 DEF vars
  <1>2. ASSUME NEW i \in Id, NEW c \in Command, Mount(i, c) PROVE TypeOK'
    BY <1>2 DEF Mount
  <1>3. ASSUME NEW i \in Id, Start(i) \/ SetTrap(i) PROVE TypeOK'
    BY <1>3 DEF Start, SetTrap
  <1>4. ASSUME NEW i \in Id, Register(i) PROVE TypeOK'
    BY <1>4 DEF Register
  <1>5. ASSUME NEW i \in Id, RegisterFails(i) PROVE TypeOK'
    BY <1>5 DEF RegisterFails
  <1>6. ASSUME NEW i \in Id, HangUp(i) \/ HangUpFails(i) PROVE TypeOK'
    BY <1>6 DEF HangUp, HangUpFails
  <1>7. ASSUME NEW i \in Id, Terminate(i) PROVE TypeOK'
    BY <1>7 DEF Terminate
  <1>8. ASSUME NEW i \in Id, Kill(i) PROVE TypeOK'
    BY <1>8 DEF Kill, Alive
  <1>9. ASSUME NEW i \in Id, Stop(i) PROVE TypeOK'
    BY <1>9 DEF Stop
  <1> QED
    BY <1>1, <1>2, <1>3, <1>4, <1>5, <1>6, <1>7, <1>8, <1>9 DEF Next

\* For any watchers and commands, lives, registry lines and ghosts keep their
\* types.
THEOREM TypeCorrect == Spec => []TypeOK
  BY TypeInit, TypeStep, PTL DEF Spec

-----------------------------------------------------------------------------
(* Entries.                                                                *)

\* A watcher that died without a stop line stays dead, so an active entry stays
\* excused; one that has not registered yet has no entry, so it is not registered
\* stopped.
ActiveInv ==
  /\ EntryIsTrue
  /\ \A i \in abrupt : life[i] = "dead"
  /\ \A i \in Id : life[i] \in {"none", "admitted", "started"} => entry[i] = "none"

\* No watcher is registered at the start.
LEMMA ActiveInit == Init => ActiveInv
  BY DEF Init, ActiveInv, EntryIsTrue

\* A step that ends a life either writes the line "stopped" or counts it as
\* abrupt; only a live watcher's entry becomes active.
LEMMA ActiveStep == TypeOK /\ ActiveInv /\ [Next]_vars => ActiveInv'
  <1> SUFFICES ASSUME TypeOK, ActiveInv, [Next]_vars PROVE ActiveInv'
    OBVIOUS
  <1> USE DEF TypeOK, ActiveInv, EntryIsTrue, Alive
  <1>1. CASE UNCHANGED vars
    BY <1>1 DEF vars
  <1>2. ASSUME NEW i \in Id, NEW c \in Command, Mount(i, c) PROVE ActiveInv'
    BY <1>2 DEF Mount
  <1>3. ASSUME NEW i \in Id, Start(i) \/ SetTrap(i) PROVE ActiveInv'
    BY <1>3 DEF Start, SetTrap
  <1>4. ASSUME NEW i \in Id, Register(i) PROVE ActiveInv'
    BY <1>4 DEF Register
  <1>5. ASSUME NEW i \in Id, RegisterFails(i) PROVE ActiveInv'
    BY <1>5 DEF RegisterFails
  <1>6. ASSUME NEW i \in Id, HangUp(i) \/ HangUpFails(i) PROVE ActiveInv'
    BY <1>6 DEF HangUp, HangUpFails
  <1>7. ASSUME NEW i \in Id, Terminate(i) PROVE ActiveInv'
    BY <1>7 DEF Terminate
  <1>8. ASSUME NEW i \in Id, Kill(i) PROVE ActiveInv'
    BY <1>8 DEF Kill
  <1>9. ASSUME NEW i \in Id, Stop(i) PROVE ActiveInv'
    BY <1>9 DEF Stop
  <1> QED
    BY <1>1, <1>2, <1>3, <1>4, <1>5, <1>6, <1>7, <1>8, <1>9 DEF Next

\* For any watchers and commands: an active entry, which makes the gate block, is a
\* live watcher's or that of one killed or without a stop line, and a stopped one, which
\* makes it admit, is a dead watcher's, unless a loop got SIGTERM or a live one's entry
\* was stopped.
THEOREM ActiveCorrect == Spec => []EntryIsTrue
  <1>1. ActiveInv => EntryIsTrue
    BY DEF ActiveInv
  <1> QED
    BY <1>1, TypeCorrect, ActiveInit, ActiveStep, PTL DEF Spec

-----------------------------------------------------------------------------
(* No duplicates.                                                          *)

Registered(i) == life[i] \in {"untrapped", "running", "trapped"}

\* Unless something has slipped past the registry: at most one mount is under
\* way, every live watcher past it has an active entry, and a watcher is
\* equivalent to no other that is alive.
DupInv ==
  slips = {} =>
    /\ \A i, j \in Id : UnderWay(i) /\ UnderWay(j) => i = j
    /\ \A i \in Id : Registered(i) => entry[i] = "active" /\ RegisteredAs[cmd[i]] = cmd[i]
    /\ \A i \in Id : UnderWay(i) \/ Registered(i) => cmd[i] \in Command
    /\ \A i, j \in Id :
         i # j /\ (UnderWay(i) \/ Registered(i)) /\ (UnderWay(j) \/ Registered(j))
           => ~Equivalent(cmd[i], cmd[j])

\* Whether two commands are equivalent does not depend on which came first.
LEMMA EquivalentSymmetric ==
  ASSUME NEW c, NEW d PROVE Equivalent(c, d) => Equivalent(d, c)
  BY DEF Equivalent

\* No watcher lives at the start.
LEMMA DupInit == Init => DupInv
  BY DEF Init, DupInv, UnderWay, Registered

\* The gate's own step: every other live watcher has an active entry, which is
\* that of its own command, so the command it admits is equivalent to none.
LEMMA DupMount ==
  ASSUME TypeOK, DupInv, NEW i \in Id, NEW c \in Command, Mount(i, c)
  PROVE  DupInv'
  <1> SUFFICES ASSUME slips' = {}
               PROVE DupInv'
    BY DEF DupInv
  <1>1. slips = {} /\ ~Blocked(c) /\ \A j \in Id : ~UnderWay(j)
    <2>1. slips = {} /\ "overlap" \notin slips' /\ "ungated" \notin slips'
      BY DEF Mount
    <2>2. slips' = slips \cup {s \in {"overlap"} : \E j \in Id : UnderWay(j)}
                         \cup {s \in {"ungated"} : Blocked(c)}
      BY DEF Mount
    <2> QED
      BY <2>1, <2>2
  <1>2. \A j \in Id : UnderWay(j)' => j = i
    BY <1>1 DEF Mount, UnderWay, TypeOK
  <1>3. \A j \in Id : Registered(j)' => Registered(j) /\ j # i
    BY DEF Mount, Registered, TypeOK
  <1>4. cmd'[i] = c /\ \A j \in Id \ {i} : cmd'[j] = cmd[j]
    BY DEF Mount, TypeOK
  <1>5. \A j \in Id : Registered(j) => ~Equivalent(cmd[j], c)
    BY <1>1 DEF DupInv, Blocked
  <1>6. \A j \in Id : Registered(j) => ~Equivalent(c, cmd[j])
    BY <1>5, EquivalentSymmetric
  <1>7. entry' = entry
    BY DEF Mount
  <1> QED
    BY <1>1, <1>2, <1>3, <1>4, <1>5, <1>6, <1>7 DEF DupInv

\* Of the other steps none starts a life, and each that ends a registration
\* without ending the life is one of those that slip past the registry.
LEMMA DupStep ==
  ASSUME TypeOK, ActiveInv, DupInv, [Next]_vars
  PROVE  DupInv'
  <1> USE DEF TypeOK, DupInv, UnderWay, Registered
  <1>1. CASE UNCHANGED vars
    BY <1>1 DEF vars
  <1>2. ASSUME NEW i \in Id, NEW c \in Command, Mount(i, c) PROVE DupInv'
    BY <1>2, DupMount
  <1>3. ASSUME NEW i \in Id, Start(i) \/ SetTrap(i) PROVE DupInv'
    BY <1>3 DEF Start, SetTrap
  <1>4. ASSUME NEW i \in Id, Register(i) PROVE DupInv'
    BY <1>4 DEF Register
  <1>5. ASSUME NEW i \in Id, RegisterFails(i) PROVE DupInv'
    BY <1>5 DEF RegisterFails
  <1>6. ASSUME NEW i \in Id, HangUp(i) \/ HangUpFails(i) PROVE DupInv'
    BY <1>6 DEF HangUp, HangUpFails
  <1>7. ASSUME NEW i \in Id, Terminate(i) PROVE DupInv'
    BY <1>7 DEF Terminate
  <1>8. ASSUME NEW i \in Id, Kill(i) PROVE DupInv'
    BY <1>8 DEF Kill
  <1>9. ASSUME NEW i \in Id, Stop(i) PROVE DupInv'
    BY <1>9 DEF Stop
  <1> QED
    BY <1>1, <1>2, <1>3, <1>4, <1>5, <1>6, <1>7, <1>8, <1>9 DEF Next

\* For any watchers and commands: unless a mount overlapped another or passed the gate
\* in spite of an equivalent active entry, a loop was sent SIGTERM, a line was not written, a watcher registered another command
\* than it was mounted with or a live watcher's entry was marked stopped, no two
\* equivalent watchers are alive.
THEOREM OneWatcherCorrect == Spec => []OneWatcher
  <1>1. DupInv => OneWatcher
    BY DEF DupInv, OneWatcher, Alive, UnderWay, Registered
  <1>2. TypeOK /\ ActiveInv /\ DupInv /\ [Next]_vars => DupInv'
    BY DupStep
  <1> QED
    BY <1>1, <1>2, TypeCorrect, ActiveInit, ActiveStep, DupInit, PTL DEF Spec
=============================================================================
