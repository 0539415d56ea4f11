----------------------------- MODULE MCCollector -----------------------------
(* Instances of Collector for TLC, with a GUI that sends any command of Menu *)
(* at any time; Next cannot be enumerated.                                   *)
EXTENDS Collector, TLC

CONSTANTS
  Menu,      \* the commands this GUI may send; with "tick" the clock runs
  MaxCmds,   \* bound: commands under way
  MaxEvs,    \* bound: events not yet drained
  MaxEpoch   \* bound: connects and disconnects

Tasks == Permutations(Jobs)

Sends == \E c \in Command : c.op \in Menu /\ Len(cmds) < MaxCmds /\ Submit(c)

MCNext ==
  /\ CollectorStep \/ Deliver \/ Sends
  /\ at' = "sampling" => "tick" \in Menu
  /\ Len(evs') <= MaxEvs /\ epoch' <= MaxEpoch

MCSpec == Init /\ [][MCNext]_vars
=============================================================================
