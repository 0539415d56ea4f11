------------------------------- MODULE History -------------------------------
(***************************************************************************)
(* The metric store and the GUI that feeds and reads it: on_sample and      *)
(* request_history of src/app.rs, the store half of pump(), and the clicks  *)
(* of src/ui/historical.rs.  A query is answered by events of its own, one  *)
(* per metric, that do not say which request they belong to.                *)
(***************************************************************************)
EXTENDS Store

CONSTANTS
  Spans,    \* HistRange, in ticks
  NoServer, \* an empty server_label
  MaxWrites \* bound: samples committed

ASSUME LabelAssumption == NoServer \notin Server

VARIABLES
  label,    \* App::server_label
  linked,   \* a session is on screen, so samples come
  primed,   \* App::latest is set: the next sample gives a rate
  range,    \* App::hist_range
  chosen,   \* App::hist_metrics
  series,   \* App::hist_series: for each metric drawn, the query it came from
  pending,  \* App::hist_pending
  failed    \* history: the last request was dropped or ended in an error

guiVars == <<label, linked, primed, range, chosen, series, pending, failed>>
vars == <<storeVars, guiVars>>

Nothing == [server |-> NoServer, span |-> 0]

\* App::new: two metrics are ticked.
Fresh ==
  /\ label = NoServer /\ linked = FALSE /\ primed = FALSE
  /\ range \in Spans /\ chosen = Metrics
  /\ series = [m \in Metrics |-> Nothing]
  /\ pending = FALSE /\ failed = FALSE

Init == StoreInit /\ Fresh

\* The next launch starts from App::new again, whatever was on screen; only
\* the range of this instance is kept, to have one choice less.
Restarted ==
  /\ label' = NoServer /\ linked' = FALSE /\ primed' = FALSE
  /\ chosen' = Metrics /\ series' = [m \in Metrics |-> Nothing]
  /\ pending' = FALSE /\ failed' = FALSE

Start == Launch /\ UNCHANGED guiVars
Close == Exit /\ Restarted /\ UNCHANGED range

Running == thread # "closed"
Quiet == Running /\ Len(cmds) < MaxCmds /\ Len(evs) < MaxCmds
StoreIdle == UNCHANGED <<now, thread, samples, rollup, due, sweep, at, written>>

QueryCmd(l, ms, sp) == [op |-> "query", server |-> l, metrics |-> ms, to |-> now, span |-> sp]

\* request_history
Request(l, ms, sp) ==
  IF l = NoServer THEN UNCHANGED <<cmds, pending, failed>>
  ELSE /\ Submit(<<QueryCmd(l, ms, sp), [op |-> "stats"]>>)
       /\ pending' = TRUE /\ failed' = (thread = "off")

\* Mutant: the chart is left as it is until the user asks.
OnConnectedSilent(s) ==
  /\ Quiet /\ label' = s /\ linked' = TRUE /\ primed' = FALSE
  /\ StoreIdle /\ UNCHANGED <<cmds, evs, range, chosen, series, pending, failed>>

\* pump: Connected
OnConnected(s) ==
  /\ Quiet /\ label' = s /\ linked' = TRUE /\ primed' = FALSE
  /\ Request(s, chosen, range)
  /\ StoreIdle /\ UNCHANGED <<evs, range, chosen, series>>

\* pump: Disconnected; the label stays, so the history stays readable.
OnDisconnected ==
  /\ Running /\ linked /\ linked' = FALSE
  /\ StoreIdle /\ UNCHANGED <<cmds, evs, label, primed, range, chosen, series, pending, failed>>

\* on_sample: the first sample of a session has nothing to be compared with.
OnSample ==
  /\ Quiet /\ linked /\ primed' = TRUE
  /\ Cardinality(written) < MaxWrites
  /\ IF primed /\ label # NoServer
     THEN Submit(<<[op |-> "write", server |-> label, ts |-> now]>>)
     ELSE UNCHANGED cmds
  /\ StoreIdle /\ UNCHANGED <<evs, label, linked, range, chosen, series, pending, failed>>

PickRange(sp) ==
  /\ Quiet /\ range' = sp
  /\ Request(label, chosen, sp)
  /\ StoreIdle /\ UNCHANGED <<evs, label, linked, primed, chosen, series>>

ToggleMetric(m) ==
  /\ Quiet
  /\ chosen' = IF m \in chosen THEN chosen \ {m} ELSE chosen \cup {m}
  /\ series' = IF m \in chosen THEN [series EXCEPT ![m] = Nothing] ELSE series
  /\ Request(label, chosen', range)
  /\ StoreIdle /\ UNCHANGED <<evs, label, linked, primed, range>>

Reload == PickRange(range)

ExportCsv ==
  /\ Quiet /\ label # NoServer
  /\ Submit(<<[op |-> "export"]>>)
  /\ StoreIdle /\ UNCHANGED <<evs, guiVars>>

-----------------------------------------------------------------------------
(* The store half of pump().                                               *)

Take(kind) ==
  /\ Running /\ evs # <<>> /\ Head(evs).kind = kind
  /\ evs' = Tail(evs) /\ StoreIdle /\ UNCHANGED cmds

OnSeries ==
  /\ Take("series")
  /\ series' = [series EXCEPT ![Head(evs).metric] =
                  [server |-> Head(evs).server, span |-> Head(evs).span]]
  /\ UNCHANGED <<label, linked, primed, range, chosen, pending, failed>>

OnQueryDone ==
  /\ Take("done")
  /\ pending' = (pending /\ Head(evs).server # label)
  /\ UNCHANGED <<label, linked, primed, range, chosen, series, failed>>

OnMessage ==
  /\ Take("stats") \/ Take("exported") \/ Take("error")
  /\ UNCHANGED guiVars

\* The store's own steps; a query that fails was the last one asked for when no
\* other is queued behind it.
StoreActs ==
  /\ StoreStep
  /\ failed' = \/ failed
               \/ OpenFails /\ pending
               \/ /\ ServeFails /\ Head(cmds).op = "query"
                  /\ \A i \in 2..Len(cmds) : cmds[i].op # "query"
  /\ UNCHANGED <<label, linked, primed, range, chosen, series, pending>>

\* What the user and the collector do, and what pump() does.
Screen ==
  \/ \E s \in Server : OnConnected(s)
  \/ OnDisconnected \/ ExportCsv \/ Reload
  \/ \E sp \in Spans : PickRange(sp)
  \/ \E m \in Metrics : ToggleMetric(m)
Drain == OnSeries \/ OnQueryDone \/ OnMessage
Process == Start \/ Close \/ StoreActs

Next ==
  \/ Process \/ Screen \/ Drain \/ OnSample
  \/ Tick /\ UNCHANGED guiVars

Spec == Init /\ [][Next]_vars

-----------------------------------------------------------------------------
HistoryTypeOK ==
  /\ StoreTypes
  /\ label \in Server \cup {NoServer} /\ range \in Spans /\ chosen \subseteq Metrics
  /\ linked \in BOOLEAN /\ primed \in BOOLEAN
  /\ pending \in BOOLEAN /\ failed \in BOOLEAN
  /\ series \in [Metrics -> [server : Server \cup {NoServer}, span : Spans \cup {0}]]

\* Once the store has answered everything and the last request did not fail,
\* the spinner is off and every ticked metric is drawn for the server and the
\* window on screen, whatever was asked for, and of whom, in between.
ChartSettles ==
  Running /\ cmds = <<>> /\ evs = <<>> /\ ~failed =>
    /\ ~pending
    /\ label # NoServer =>
         \A m \in chosen : series[m] = [server |-> label, span |-> range]
=============================================================================
