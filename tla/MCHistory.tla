------------------------------ MODULE MCHistory ------------------------------
(***************************************************************************)
(* Instances of History for TLC, two in one run: in "chart" the user clicks *)
(* anything, ahead of the answers, while no time passes; in "tables" time   *)
(* passes while the user connects once and samples come.                   *)
(***************************************************************************)
EXTENDS History

VARIABLE focus

TheOrder == <<"qps", "threads_running">>

Chart == Process \/ Screen \/ Drain

Tables ==
  \/ Process \/ Drain
  \/ Tick /\ UNCHANGED guiVars
  \/ label = NoServer /\ OnConnected(CHOOSE s \in Server : TRUE)
  \/ cmds = <<>> /\ evs = <<>> /\ OnSample

MCInit == Init /\ focus \in {"chart", "tables"}

MCNext ==
  /\ \/ focus = "chart" /\ Chart
     \/ focus = "tables" /\ Tables
  /\ UNCHANGED focus

MCSpec == MCInit /\ [][MCNext]_<<vars, focus>>
=============================================================================
