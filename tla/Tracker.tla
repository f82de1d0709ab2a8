------------------------------ MODULE Tracker ------------------------------
(***************************************************************************)
(* What heartbeat/zombie.py promises of the pending items, were each of    *)
(* its commands one step on a table: an item is open from the open command *)
(* to the close command of its id, and opening it again replaces it. The   *)
(* promise ends when the file is spoilt: it cannot be read any more, or    *)
(* the machine has lost the end of it.                                     *)
(***************************************************************************)
EXTENDS Naturals

CONSTANTS
  Item,  \* the ids of pending items
  Ttl    \* the days an item may stay open

VARIABLES
  open,    \* the items that are open, with the day each was opened
  today,   \* the day
  spoilt   \* whether the promise has ended

vars == <<open, today, spoilt>>

Others(i) == {r \in open : r.id # i}

Init == open = {} /\ today = 0 /\ spoilt = FALSE

Open(i, t) ==
  /\ ~spoilt
  /\ open' = Others(i) \cup {[id |-> i, opened |-> today, ttl |-> t]}
  /\ UNCHANGED <<today, spoilt>>

Close(i) ==
  /\ ~spoilt
  /\ open' = Others(i)
  /\ UNCHANGED <<today, spoilt>>

Midnight == today' = today + 1 /\ UNCHANGED <<open, spoilt>>

Spoil == ~spoilt /\ spoilt' /\ open' = {} /\ UNCHANGED today

Next == (\E i \in Item : Close(i) \/ \E t \in Ttl : Open(i, t)) \/ Midnight \/ Spoil

Spec == Init /\ [][Next]_vars
=============================================================================
