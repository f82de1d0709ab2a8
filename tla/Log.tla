-------------------------------- MODULE Log --------------------------------
(***************************************************************************)
(* What ledger/ledger.py promises of its rounds, were each of its commands *)
(* one step: a log that grows at its end by rounds it has never held, from *)
(* which a fault takes back nothing but an end nobody was told of. What    *)
(* comes into a log while it is spoilt (a line of it cannot be read) is    *)
(* not of the log.                                                         *)
(***************************************************************************)
EXTENDS Sequences, Naturals

VARIABLES
  log,     \* the rounds, oldest first
  acked,   \* those whose append has reported success
  spoilt   \* whether the log cannot be read

vars == <<log, acked, spoilt>>

In(l) == {l[i] : i \in 1..Len(l)}

Init == log = <<>> /\ acked = {} /\ spoilt = FALSE

Add ==
  /\ ~spoilt
  /\ \E r \in In(log') \ In(log) : log' = Append(log, r)
  /\ UNCHANGED <<acked, spoilt>>

\* Success is reported of the newest round; of a spoilt log, of any.
Ack ==
  /\ \/ spoilt /\ acked \subseteq acked'
     \/ log # <<>> /\ acked' = acked \cup {log[Len(log)]}
  /\ UNCHANGED <<log, spoilt>>

Spoil == spoilt' = TRUE /\ UNCHANGED <<log, acked>>

\* It may end what spoilt the log.
Lose ==
  /\ \E k \in 0..Len(log) : log' = SubSeq(log, 1, k)
  /\ acked \subseteq In(log')
  /\ spoilt' = FALSE
  /\ UNCHANGED acked

Next == Add \/ Ack \/ Spoil \/ Lose

Spec == Init /\ [][Next]_vars
=============================================================================
