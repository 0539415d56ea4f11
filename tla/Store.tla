-------------------------------- MODULE Store --------------------------------
(***************************************************************************)
(* The on-disk metric store, src/store.rs: one thread that takes commands   *)
(* from a channel, answers with events, and once a minute folds raw samples *)
(* into one-minute rows and drops what is too old.  A sample is its server  *)
(* and its time stamp: every metric of a server is written under the same   *)
(* stamps.  A rollup row carries the stamps of the samples its average,     *)
(* minimum and maximum were computed from.                                  *)
(***************************************************************************)
EXTENDS Naturals, Sequences, FiniteSets

CONSTANTS
  Server,
  Order,       \* Metric::ALL: the metrics, in the order a query answers them
  Minute,      \* ticks in a minute: what a rollup row covers
  RawKept,     \* RAW_RETENTION_S, in ticks
  RollupKept,  \* ROLLUP_RETENTION_S, in ticks
  MaxPoints,   \* MAX_PLOT_POINTS
  MaxNow,      \* bound: the clock
  MaxCmds      \* bound: commands and events under way

Metrics == {Order[i] : i \in DOMAIN Order}

ASSUME StoreAssumption ==
  /\ Order \in Seq(Metrics)
  /\ \A i, k \in DOMAIN Order : Order[i] = Order[k] => i = k
  /\ Minute \in Nat \ {0} /\ RawKept \in Nat /\ RollupKept \in Nat
  /\ MaxPoints \in Nat \ {0} /\ MaxNow \in Nat
  /\ Minute <= RawKept /\ RawKept + Minute <= RollupKept

VARIABLES
  now,      \* the wall clock
  thread,   \* "closed": no process; "opening", "ready", or "off": open failed
  samples,  \* table samples
  rollup,   \* table rollup_1m
  due,      \* ticks since last_maintenance
  sweep,    \* where maintain() is: "idle" or the statement it executes next
  at,       \* now_ms in maintain()
  cmds,     \* channel to the thread
  evs,      \* channel to the GUI
  written   \* history: every sample committed

tables == <<samples, rollup>>
storeVars == <<now, thread, samples, rollup, due, sweep, at, cmds, evs, written>>

MinuteOf(ts) == ts - (ts % Minute)

Row == [server : Server, minute : Nat, of : SUBSET Nat]
Sample == [server : Server, ts : Nat]

StoreInit ==
  /\ now = 0 /\ thread = "closed"
  /\ samples = {} /\ rollup = {} /\ written = {}
  /\ due = 0 /\ sweep = "idle" /\ at = 0
  /\ cmds = <<>> /\ evs = <<>>

-----------------------------------------------------------------------------
(* read_series: raw samples for short ranges and rows for long ones.       *)

Least(a, b) == IF a < b THEN a ELSE b
Greatest(a, b) == IF a > b THEN a ELSE b

RawIn(s, from, to) ==
  {x.ts : x \in {y \in samples : y.server = s /\ y.ts \in from..to}}
RowsIn(s, from, to) ==
  {r.minute : r \in {q \in rollup : q.server = s /\ q.minute \in from..to}}

Bucketed(stamps, span) ==
  LET b == Greatest(span \div MaxPoints, 1) IN {ts - (ts % b) : ts \in stamps}

\* Mutant: what the rollup does not have is not looked for elsewhere.
ReadSeriesNoFallback(s, to, span) ==
  LET from == IF span < to THEN to - span ELSE 0
  IN IF span > RawKept THEN [points |-> Bucketed(RowsIn(s, from, to), span), down |-> TRUE]
     ELSE [points |-> Bucketed(RawIn(s, from, to), span), down |-> FALSE]

ReadSeries(s, to, span) ==
  LET from == IF span < to THEN to - span ELSE 0
      raw == [points |-> Bucketed(RawIn(s, from, to), span), down |-> FALSE]
      rows == [points |-> Bucketed(RowsIn(s, from, to), span), down |-> TRUE]
  IN IF span > RawKept /\ rows.points # {} THEN rows ELSE raw

-----------------------------------------------------------------------------
(* The thread: open, then run.                                             *)

Open ==
  /\ thread = "opening"
  /\ thread' = "ready" /\ due' = 0
  /\ UNCHANGED <<now, samples, rollup, sweep, at, cmds, evs, written>>

\* The thread ends: its end of the command channel is gone.
OpenFails ==
  /\ thread = "opening"
  /\ thread' = "off" /\ cmds' = <<>>
  /\ evs' = Append(evs, [kind |-> "error"])
  /\ UNCHANGED <<now, samples, rollup, due, sweep, at, written>>

\* The head of cmds is of this kind and is taken.
Serve(op) ==
  /\ thread = "ready" /\ sweep = "idle"
  /\ cmds # <<>> /\ Head(cmds).op = op
  /\ cmds' = Tail(cmds)
  /\ UNCHANGED <<now, thread, due, sweep, at>>

\* One transaction for all metrics of the sample.
Write ==
  /\ Serve("write")
  /\ LET x == [server |-> Head(cmds).server, ts |-> Head(cmds).ts]
     IN samples' = samples \cup {x} /\ written' = written \cup {x}
  /\ UNCHANGED <<rollup, evs>>

\* The metrics of a query in the order they are read: each once, as in Order.
Readings(ms) ==
  {q \in UNION {[1..n -> ms] : n \in 0..Len(Order)} :
     /\ \A m \in ms : \E i \in DOMAIN q : q[i] = m
     /\ \A i, k \in DOMAIN q : i < k =>
          \E a, b \in DOMAIN Order : a < b /\ Order[a] = q[i] /\ Order[b] = q[k]}

\* The first k of them are answered.
Answers(c, asked, k) ==
  [i \in 1..Least(k, Len(asked)) |->
     [kind |-> "series", metric |-> asked[i], server |-> c.server, span |-> c.span,
      down |-> ReadSeries(c.server, c.to, c.span).down]]

Query ==
  /\ Serve("query")
  /\ \E asked \in Readings(Head(cmds).metrics) :
       evs' = evs \o Append(Answers(Head(cmds), asked, Len(asked)),
                           [kind |-> "done", server |-> Head(cmds).server])
  /\ UNCHANGED <<samples, rollup, written>>

\* Stats and ExportCsv change nothing in the store.
Report ==
  /\ \/ Serve("stats") /\ evs' = Append(evs, [kind |-> "stats"])
     \/ Serve("export") /\ evs' = Append(evs, [kind |-> "exported"])
  /\ UNCHANGED <<samples, rollup, written>>

\* An error in any of them is the only answer; a query has answered some
\* metrics by then, and never says that it is done.
ServeFails ==
  /\ \E op \in {"write", "query", "stats", "export"} : Serve(op)
  /\ \/ evs' = Append(evs, [kind |-> "error"])
     \/ /\ Head(cmds).op = "query"
        /\ \E asked \in Readings(Head(cmds).metrics) : \E k \in 1..Len(asked)-1 :
             evs' = evs \o Append(Answers(Head(cmds), asked, k), [kind |-> "error"])
  /\ UNCHANGED <<samples, rollup, written>>

-----------------------------------------------------------------------------
(* maintain(): three statements that commit one by one.                    *)

Maintain ==
  /\ thread = "ready" /\ sweep = "idle" /\ due >= Minute
  /\ sweep' = "fold" /\ at' = now /\ due' = 0
  /\ UNCHANGED <<now, thread, samples, rollup, cmds, evs, written>>

\* Rows for every minute that has a sample older than a minute, over the row
\* that is there.
Folded(x) == x.ts + Minute < at
FoldOf(s, m) == {x.ts : x \in {y \in samples : Folded(y) /\ y.server = s /\ MinuteOf(y.ts) = m}}
NewRows ==
  {[server |-> x.server, minute |-> MinuteOf(x.ts), of |-> FoldOf(x.server, MinuteOf(x.ts))] :
     x \in {y \in samples : Folded(y)}}

Fold ==
  /\ sweep = "fold" /\ sweep' = "raw"
  /\ rollup' = NewRows \cup
       {r \in rollup : \A n \in NewRows : n.server # r.server \/ n.minute # r.minute}
  /\ UNCHANGED <<now, thread, samples, due, at, cmds, evs, written>>

DropRaw ==
  /\ sweep = "raw" /\ sweep' = "roll"
  /\ samples' = {x \in samples : x.ts + RawKept >= at}
  /\ UNCHANGED <<now, thread, rollup, due, at, cmds, evs, written>>

DropRows ==
  /\ sweep = "roll" /\ sweep' = "idle" /\ at' = 0
  /\ rollup' = {r \in rollup : r.minute + RollupKept >= at}
  /\ UNCHANGED <<now, thread, samples, due, cmds, evs, written>>

\* Mutant: the next statement is tried all the same.
MaintainFailsOn ==
  /\ sweep # "idle"
  /\ sweep' = (CASE sweep = "fold" -> "raw" [] sweep = "raw" -> "roll" [] OTHER -> "idle")
  /\ evs' = Append(evs, [kind |-> "error"])
  /\ UNCHANGED <<now, thread, samples, rollup, due, at, cmds, written>>

\* A statement fails: the rest waits for the next minute.
MaintainFails ==
  /\ sweep # "idle" /\ sweep' = "idle" /\ at' = 0
  /\ evs' = Append(evs, [kind |-> "error"])
  /\ UNCHANGED <<now, thread, samples, rollup, due, cmds, written>>

StoreStep ==
  \/ Open \/ OpenFails \/ Write \/ Query \/ Report \/ ServeFails
  \/ Maintain \/ Fold \/ DropRaw \/ DropRows \/ MaintainFails

-----------------------------------------------------------------------------
(* The process around it.  A closing window ends the process without        *)
(* waiting for the thread: what is queued is lost and maintain() may be cut *)
(* short between two statements.                                           *)

Submit(c) ==
  /\ thread # "closed"
  /\ cmds' = IF thread = "off" THEN cmds ELSE cmds \o c

\* Mutant: the next process picks the sweep up where this one was cut short.
ExitMidSweep ==
  /\ thread # "closed" /\ thread' = "closed"
  /\ cmds' = <<>> /\ evs' = <<>> /\ due' = 0
  /\ UNCHANGED <<now, samples, rollup, sweep, at, written>>

Exit ==
  /\ thread # "closed" /\ thread' = "closed"
  /\ sweep' = "idle" /\ at' = 0 /\ due' = 0 /\ cmds' = <<>> /\ evs' = <<>>
  /\ UNCHANGED <<now, samples, rollup, written>>

Launch ==
  /\ thread = "closed" /\ thread' = "opening"
  /\ UNCHANGED <<now, samples, rollup, due, sweep, at, cmds, evs, written>>

Tick ==
  /\ now < MaxNow /\ now' = now + 1
  /\ due' = IF thread = "ready" THEN Least(due + 1, Minute) ELSE 0
  /\ UNCHANGED <<thread, samples, rollup, sweep, at, cmds, evs, written>>

StoreTypes ==
  /\ now \in Nat /\ due \in Nat /\ at \in Nat /\ at <= now
  /\ thread \in {"closed", "opening", "ready", "off"}
  /\ sweep \in {"idle", "fold", "raw", "roll"}
  /\ sweep # "idle" => thread = "ready"
  /\ samples \subseteq Sample /\ written \subseteq Sample /\ rollup \subseteq Row

-----------------------------------------------------------------------------
(* What the store promises.                                                *)

Kept(x) == x \in samples
Rolled(x) == \E r \in rollup : r.server = x.server /\ r.minute = MinuteOf(x.ts)

\* Wherever maintenance fails or the process ends, a sample that was committed
\* is there, or its minute has a row, until the rows of that minute age out;
\* and it is there itself for as long as raw samples are promised.
NothingLost ==
  \A x \in written :
    /\ MinuteOf(x.ts) + RollupKept >= now => Kept(x) \/ Rolled(x)
    /\ x.ts + RawKept >= now => Kept(x)

\* A window in which something was recorded is never drawn blank, whichever of
\* the two tables its length picks, except for the minute it cuts in two.
NeverBlank ==
  \A x \in written, span \in RawKept .. RollupKept :
    x.ts + span >= now + Minute => ReadSeries(x.server, now, span).points # {}

\* README.md:189: "One-minute rollups (avg/min/max): 30 days."  A row of a
\* minute goes on summarising every sample of it that it once summarised.
RowsKeepTheirSamples ==
  [][\A r \in rollup, q \in rollup' :
       r.server = q.server /\ r.minute = q.minute => r.of \subseteq q.of]_storeVars
=============================================================================
