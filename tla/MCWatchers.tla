----------------------------- MODULE MCWatchers -----------------------------
(* A small instance of Watchers for TLC.                                   *)
EXTENDS Watchers, TLC

CONSTANTS i1, i2, i3, none

\* while true; do ./tick.sh; sleep 60; done
TickLoop == [norm |-> "tick loop", tokens |-> {"while", "true", "tick", "sleep", "60"},
             loop |-> TRUE, sleep |-> 60, topic |-> "heartbeat"]
\* while true; do echo beat; ./tick.sh; sleep 60; done
EchoLoop == [norm |-> "echo tick loop",
             tokens |-> {"while", "true", "echo", "beat", "tick", "sleep", "60"},
             loop |-> TRUE, sleep |-> 60, topic |-> "heartbeat"]
\* run_loop.sh 60, with heartbeat/ on the PATH
BareScript == [norm |-> "script", tokens |-> {"run_loop.sh", "60"},
               loop |-> FALSE, sleep |-> 0, topic |-> ""]
\* ./heartbeat/run_loop.sh 60, as INSTALL.md mounts it
PathScript == [norm |-> "path script", tokens |-> {"./heartbeat/run_loop.sh", "60"},
               loop |-> FALSE, sleep |-> 0, topic |-> "heartbeat"]

Commands == {TickLoop, EchoLoop, BareScript, PathScript}
Scripts == {BareScript, PathScript}
\* run_loop.sh registers "run_loop.sh 60" whatever it was mounted as.
Registered == [c \in Commands |-> IF c \in Scripts THEN BareScript ELSE c]

Alike == Permutations(Id)
=============================================================================
