----------------------------- MODULE StoreProofs -----------------------------
(* What the metric store promises, for any servers, retentions and clock,   *)
(* and whatever the GUI asks of it; and that the chart ends up with what    *)
(* was asked for last.                                                     *)
EXTENDS History, SequenceTheorems, TLAPS

-----------------------------------------------------------------------------
(* The invariant.                                                          *)

QueryCommand ==
  [op : {"query"}, server : Server, metrics : SUBSET Metrics, to : Nat, span : Spans]

Command ==
  [op : {"write"}, server : Server, ts : Nat]
    \cup QueryCommand
    \cup [op : {"stats", "export"}]

TypeInv ==
  /\ StoreTypes
  /\ cmds \in Seq(Command)
  /\ label \in Server \cup {NoServer} /\ range \in Spans /\ chosen \subseteq Metrics

\* No sample is of the future, neither one that is stored nor one on its way.
Past ==
  /\ \A x \in written : x.ts <= now
  /\ \A k \in 1..Len(cmds) : cmds[k].op = "write" => cmds[k].ts <= now

\* Between the fold and the deletion that follows it, whatever may be deleted
\* has its row: nothing is written while maintenance runs.
Staged == sweep = "raw" => \A x \in samples : Folded(x) => Rolled(x)

StoreInv == TypeInv /\ Past /\ Staged /\ NothingLost

-----------------------------------------------------------------------------
(* Minutes.                                                                *)

\* A minute begins at most Minute - 1 ticks before any stamp in it.
LEMMA MinuteBounds ==
  ASSUME NEW ts \in Nat
  PROVE  MinuteOf(ts) \in Nat /\ MinuteOf(ts) <= ts /\ ts < MinuteOf(ts) + Minute
<1>1. ts % Minute \in 0..(Minute - 1) /\ ts - (ts % Minute) \in Nat
  BY StoreAssumption
<1> QED
  BY <1>1, StoreAssumption DEF MinuteOf

\* Cutting stamps into buckets leaves some where there were some.
LEMMA BucketedNonempty ==
  ASSUME NEW S, S # {}, NEW span
  PROVE  Bucketed(S, span) # {}
BY DEF Bucketed

-----------------------------------------------------------------------------
(* The channel.                                                            *)

\* A queue stays one of commands of the past when commands of now join it.
LEMMA Joined ==
  ASSUME TypeInv, Past, NEW c \in Seq(Command), Submit(c), now' = now,
         written' = written,
         \A k \in 1..Len(c) : c[k].op = "write" => c[k].ts <= now
  PROVE  cmds' \in Seq(Command) /\ Past'
<1>1. CASE thread = "off"
  BY <1>1 DEF TypeInv, Past, Submit
<1>2. CASE thread # "off"
  <2>1. cmds' = cmds \o c
    BY <1>2 DEF Submit
  <2>2. /\ cmds \o c \in Seq(Command)
        /\ Len(cmds \o c) = Len(cmds) + Len(c)
        /\ \A k \in 1..Len(cmds) + Len(c) :
             (cmds \o c)[k] = IF k <= Len(cmds) THEN cmds[k] ELSE c[k - Len(cmds)]
    BY ConcatProperties DEF TypeInv
  <2>3. Len(cmds) \in Nat /\ Len(c) \in Nat
    BY LenProperties DEF TypeInv
  <2>4. ASSUME NEW k \in 1..Len(cmds'), cmds'[k].op = "write" PROVE cmds'[k].ts <= now
    <3>1. CASE k <= Len(cmds)
      BY <2>1, <2>2, <2>3, <2>4, <3>1 DEF Past
    <3>2. CASE ~(k <= Len(cmds))
      <4>1. k - Len(cmds) \in 1..Len(c)
        BY <2>1, <2>2, <2>3, <3>2
      <4>2. cmds'[k] = c[k - Len(cmds)]
        BY <2>1, <2>2, <3>2
      <4> QED
        BY <2>4, <4>1, <4>2
    <3> QED
      BY <3>1, <3>2
  <2> QED
    BY <2>1, <2>2, <2>4 DEF Past
<1> QED
  BY <1>1, <1>2

\* Taking a command leaves such a queue, and the command is such a one.
LEMMA Taken ==
  ASSUME TypeInv, Past, cmds # <<>>, cmds' = Tail(cmds)
  PROVE  /\ cmds' \in Seq(Command) /\ Head(cmds) \in Command
         /\ Head(cmds).op = "write" => Head(cmds).ts <= now
         /\ \A k \in 1..Len(cmds') : cmds'[k].op = "write" => cmds'[k].ts <= now
<1>1. cmds \in Seq(Command) /\ Len(cmds) \in Nat /\ Len(cmds) > 0
  BY EmptySeq, LenProperties DEF TypeInv
<1>2. /\ Head(cmds) = cmds[1] /\ Head(cmds) \in Command /\ Tail(cmds) \in Seq(Command)
      /\ Len(Tail(cmds)) = Len(cmds) - 1
      /\ \A k \in 1..Len(cmds) - 1 : Tail(cmds)[k] = cmds[k + 1]
  BY <1>1, HeadTailProperties
<1> QED
  BY <1>1, <1>2 DEF Past

-----------------------------------------------------------------------------
(* One lemma for each way a step can touch the tables.                     *)

\* What the promises depend on is as it was.
LEMMA Untouched ==
  ASSUME Staged, NothingLost,
         UNCHANGED <<now, samples, rollup, sweep, at, written>>
  PROVE  Staged' /\ NothingLost'
BY DEF Staged, NothingLost, Kept, Rolled, Folded

\* Time may pass while the tables stay.
LEMMA TablesKept ==
  ASSUME TypeInv, NothingLost, UNCHANGED <<samples, rollup, written>>,
         now' \in Nat, now' >= now
  PROVE  NothingLost'
<1>1. ASSUME NEW x \in written
      PROVE  /\ MinuteOf(x.ts) + RollupKept >= now' => Kept(x) \/ Rolled(x)
             /\ x.ts + RawKept >= now' => Kept(x)
  <2>1. x.ts \in Nat /\ MinuteOf(x.ts) \in Nat /\ now \in Nat
    BY MinuteBounds DEF TypeInv, StoreTypes, Sample
  <2> QED
    BY <2>1, StoreAssumption DEF NothingLost
<1> QED
  BY <1>1 DEF NothingLost, Kept, Rolled

LEMMA WriteKeeps ==
  ASSUME StoreInv, Write, UNCHANGED <<label, range, chosen>> PROVE StoreInv'
<1>1. sweep = "idle" /\ cmds # <<>> /\ cmds' = Tail(cmds) /\ Head(cmds).op = "write"
      /\ UNCHANGED <<now, thread, due, sweep, at, rollup, evs>>
  BY DEF Write, Serve
<1> DEFINE x == [server |-> Head(cmds).server, ts |-> Head(cmds).ts]
<1>2. samples' = samples \cup {x} /\ written' = written \cup {x}
  BY DEF Write
<1>3. /\ cmds' \in Seq(Command) /\ Head(cmds) \in Command /\ Head(cmds).ts <= now
      /\ \A k \in 1..Len(cmds') : cmds'[k].op = "write" => cmds'[k].ts <= now
  BY <1>1, Taken DEF StoreInv
<1>4. Head(cmds) \in [op : {"write"}, server : Server, ts : Nat]
  BY <1>1, <1>3 DEF Command, QueryCommand
<1>5. x \in Sample /\ x.ts <= now
  BY <1>3, <1>4 DEF Sample
<1>6. StoreTypes'
  BY <1>1, <1>2, <1>5 DEF StoreInv, TypeInv, StoreTypes
<1>7. Past'
  BY <1>1, <1>2, <1>3, <1>5 DEF StoreInv, Past
<1>8. Staged' /\ NothingLost'
  BY <1>1, <1>2 DEF StoreInv, Staged, NothingLost, Kept, Rolled, Folded
<1> QED
  BY <1>3, <1>6, <1>7, <1>8 DEF StoreInv, TypeInv

\* A command is served that changes no table.
LEMMA ServeKeeps ==
  ASSUME StoreInv, NEW op, Serve(op), UNCHANGED <<samples, rollup, written>>,
         UNCHANGED <<label, range, chosen>>
  PROVE  StoreInv'
<1>1. cmds # <<>> /\ cmds' = Tail(cmds) /\ UNCHANGED <<now, thread, due, sweep, at>>
  BY DEF Serve
<1>2. /\ cmds' \in Seq(Command)
      /\ \A k \in 1..Len(cmds') : cmds'[k].op = "write" => cmds'[k].ts <= now
  BY <1>1, Taken DEF StoreInv
<1>3. StoreTypes' /\ Past'
  BY <1>1, <1>2 DEF StoreInv, TypeInv, StoreTypes, Past
<1>4. Staged' /\ NothingLost'
  BY <1>1, Untouched DEF StoreInv
<1> QED
  BY <1>2, <1>3, <1>4 DEF StoreInv, TypeInv

\* The fold gives each of its minutes a row and keeps the rows of the others.
LEMMA FoldCovers ==
  ASSUME TypeInv, Fold
  PROVE  /\ \A x \in samples : Folded(x) => Rolled(x)'
         /\ \A x \in written : Rolled(x) => Rolled(x)'
<1>1. rollup' = NewRows \cup
        {r \in rollup : \A n \in NewRows : n.server # r.server \/ n.minute # r.minute}
  BY DEF Fold
<1>2. \A n \in NewRows : n \in rollup'
  BY <1>1
<1>3. ASSUME NEW x \in samples, Folded(x) PROVE Rolled(x)'
  <2> DEFINE n == [server |-> x.server, minute |-> MinuteOf(x.ts),
                   of |-> FoldOf(x.server, MinuteOf(x.ts))]
  <2>1. n \in NewRows
    BY <1>3 DEF NewRows
  <2>2. n.server = x.server /\ n.minute = MinuteOf(x.ts)
    OBVIOUS
  <2> HIDE DEF n
  <2>3. n \in rollup'
    BY <1>2, <2>1
  <2> QED
    BY <2>2, <2>3 DEF Rolled
<1>4. ASSUME NEW x \in written, Rolled(x) PROVE Rolled(x)'
  <2>1. PICK r \in rollup : r.server = x.server /\ r.minute = MinuteOf(x.ts)
    BY <1>4 DEF Rolled
  <2>2. CASE \E n \in NewRows : n.server = r.server /\ n.minute = r.minute
    BY <1>2, <2>1, <2>2 DEF Rolled
  <2>3. CASE ~\E n \in NewRows : n.server = r.server /\ n.minute = r.minute
    <3>1. r \in rollup'
      BY <1>1, <2>3
    <3> QED
      BY <2>1, <3>1 DEF Rolled
  <2> QED
    BY <2>2, <2>3
<1> QED
  BY <1>3, <1>4

LEMMA NewRowsType ==
  ASSUME StoreTypes PROVE NewRows \subseteq Row
<1> SUFFICES ASSUME NEW x \in samples
             PROVE  [server |-> x.server, minute |-> MinuteOf(x.ts),
                     of |-> FoldOf(x.server, MinuteOf(x.ts))] \in Row
  BY DEF NewRows
<1>1. x.server \in Server /\ MinuteOf(x.ts) \in Nat
  BY MinuteBounds DEF StoreTypes, Sample
<1>2. FoldOf(x.server, MinuteOf(x.ts)) \subseteq Nat
  BY DEF FoldOf, StoreTypes, Sample
<1> QED
  BY <1>1, <1>2 DEF Row

LEMMA FoldKeeps ==
  ASSUME StoreInv, Fold, UNCHANGED <<label, range, chosen>> PROVE StoreInv'
<1>1. sweep = "fold" /\ sweep' = "raw"
      /\ UNCHANGED <<now, thread, samples, due, at, cmds, evs, written>>
  BY DEF Fold
<1>2. rollup' \subseteq NewRows \cup rollup
  BY DEF Fold
<1>3. StoreTypes'
  BY <1>1, <1>2, NewRowsType DEF StoreInv, TypeInv, StoreTypes
<1>4. /\ \A x \in samples : Folded(x) => Rolled(x)'
      /\ \A x \in written : Rolled(x) => Rolled(x)'
  BY FoldCovers DEF StoreInv
<1>5. Staged'
  BY <1>1, <1>4 DEF Staged, Folded, Rolled
<1>6. NothingLost'
  BY <1>1, <1>4 DEF StoreInv, NothingLost, Kept, Rolled
<1> QED
  BY <1>1, <1>3, <1>5, <1>6 DEF StoreInv, TypeInv, Past

LEMMA DropRawKeeps ==
  ASSUME StoreInv, DropRaw, UNCHANGED <<label, range, chosen>> PROVE StoreInv'
<1>1. sweep = "raw" /\ sweep' = "roll"
      /\ UNCHANGED <<now, thread, rollup, due, at, cmds, evs, written>>
      /\ samples' = {x \in samples : x.ts + RawKept >= at}
  BY DEF DropRaw
<1>2. StoreTypes' /\ Past' /\ Staged'
  BY <1>1 DEF StoreInv, TypeInv, StoreTypes, Past, Staged
<1>3. ASSUME NEW x \in written
      PROVE  /\ MinuteOf(x.ts) + RollupKept >= now => x \in samples' \/ Rolled(x)
             /\ x.ts + RawKept >= now => x \in samples'
  <2>1. x.ts \in Nat /\ at \in Nat /\ now \in Nat /\ at <= now
    BY DEF StoreInv, TypeInv, StoreTypes, Sample
  <2>2. x \in samples /\ ~(x.ts + RawKept >= at) => Rolled(x)
    BY <1>1, <2>1, StoreAssumption DEF StoreInv, Staged, Folded
  <2>3. MinuteOf(x.ts) + RollupKept >= now => x \in samples' \/ Rolled(x)
    BY <1>1, <2>2 DEF StoreInv, NothingLost, Kept
  <2>4. x.ts + RawKept >= now => x \in samples'
    BY <1>1, <2>1, StoreAssumption DEF StoreInv, NothingLost, Kept
  <2> QED
    BY <2>3, <2>4
<1>4. NothingLost'
  BY <1>1, <1>3 DEF NothingLost, Kept, Rolled
<1> QED
  BY <1>1, <1>2, <1>4 DEF StoreInv, TypeInv

LEMMA DropRowsKeeps ==
  ASSUME StoreInv, DropRows, UNCHANGED <<label, range, chosen>> PROVE StoreInv'
<1>1. sweep' = "idle" /\ at' = 0
      /\ UNCHANGED <<now, thread, samples, due, cmds, evs, written>>
      /\ rollup' = {r \in rollup : r.minute + RollupKept >= at}
  BY DEF DropRows
<1>2. StoreTypes' /\ Past' /\ Staged'
  BY <1>1 DEF StoreInv, TypeInv, StoreTypes, Past, Staged
<1>3. ASSUME NEW x \in written, MinuteOf(x.ts) + RollupKept >= now, Rolled(x)
      PROVE  \E r \in rollup' : r.server = x.server /\ r.minute = MinuteOf(x.ts)
  <2>1. PICK r \in rollup : r.server = x.server /\ r.minute = MinuteOf(x.ts)
    BY <1>3 DEF Rolled
  <2>2. r.minute \in Nat /\ at \in Nat /\ now \in Nat /\ at <= now
    BY DEF StoreInv, TypeInv, StoreTypes, Row
  <2>3. r.minute + RollupKept >= at
    BY <1>3, <2>1, <2>2, StoreAssumption
  <2> QED
    BY <1>1, <2>1, <2>3
<1>4. NothingLost'
  BY <1>1, <1>3 DEF StoreInv, NothingLost, Kept, Rolled
<1> QED
  BY <1>1, <1>2, <1>4 DEF StoreInv, TypeInv

\* Steps of the thread and of the process that change no table: nothing is
\* queued by them, and what is queued may be lost.
LEMMA OthersKeep ==
  ASSUME StoreInv, UNCHANGED <<label, range, chosen>>,
         Open \/ OpenFails \/ Maintain \/ MaintainFails \/ Launch \/ Tick
  PROVE  StoreInv'
<1>1. /\ UNCHANGED <<samples, rollup, written>>
      /\ now' = now \/ now' = now + 1
      /\ sweep' # "raw" \/ (sweep' = sweep /\ at' = at)
      /\ cmds' = cmds \/ cmds' = <<>>
  BY DEF Open, OpenFails, Maintain, MaintainFails, Launch, Tick
<1>2. now \in Nat /\ now' \in Nat /\ now' >= now
  BY <1>1 DEF StoreInv, TypeInv, StoreTypes
<1>3. StoreTypes'
  <2>1. CASE Open \/ OpenFails \/ Launch
    BY <2>1 DEF Open, OpenFails, Launch, StoreInv, TypeInv, StoreTypes
  <2>2. CASE Maintain \/ MaintainFails
    BY <2>2 DEF Maintain, MaintainFails, StoreInv, TypeInv, StoreTypes
  <2>3. CASE Tick
    <3>1. due' \in Nat
      BY <2>3, StoreAssumption DEF Tick, Least, StoreInv, TypeInv, StoreTypes
    <3> QED
      BY <2>3, <3>1 DEF Tick, StoreInv, TypeInv, StoreTypes
  <2> QED
    BY <2>1, <2>2, <2>3
<1>4. cmds' \in Seq(Command) /\ Past'
  <2>1. CASE cmds' = cmds
    <3>1. \A k \in 1..Len(cmds) : cmds[k].op = "write" => cmds[k].ts \in Nat
      <4> SUFFICES ASSUME NEW k \in 1..Len(cmds), cmds[k].op = "write"
                   PROVE  cmds[k].ts \in Nat
        OBVIOUS
      <4>1. cmds[k] \in Command
        BY DEF StoreInv, TypeInv
      <4> QED
        BY <4>1 DEF Command, QueryCommand
    <3>2. \A x \in written : x.ts \in Nat
      BY DEF StoreInv, TypeInv, StoreTypes, Sample
    <3> QED
      BY <1>1, <1>2, <2>1, <3>1, <3>2 DEF StoreInv, TypeInv, Past
  <2>2. CASE cmds' = <<>>
    <3>1. cmds' \in Seq(Command) /\ Len(cmds') = 0
      BY <2>2
    <3>2. \A x \in written : x.ts \in Nat
      BY DEF StoreInv, TypeInv, StoreTypes, Sample
    <3> QED
      BY <1>1, <1>2, <3>1, <3>2 DEF StoreInv, Past
  <2> QED
    BY <1>1, <2>1, <2>2
<1>5. Staged'
  BY <1>1 DEF StoreInv, Staged, Folded, Rolled
<1>6. NothingLost'
  BY <1>1, <1>2, TablesKept DEF StoreInv
<1> QED
  BY <1>3, <1>4, <1>5, <1>6 DEF StoreInv, TypeInv

LEMMA ThreadKeeps ==
  ASSUME StoreInv, StoreStep, UNCHANGED <<label, range, chosen>> PROVE StoreInv'
<1>1. CASE Open \/ OpenFails \/ Maintain \/ MaintainFails
  BY <1>1, OthersKeep
<1>2. CASE Write
  BY <1>2, WriteKeeps
<1>3. CASE Query
  <2>1. Serve("query") /\ UNCHANGED <<samples, rollup, written>>
    BY <1>3 DEF Query
  <2> QED
    BY <2>1, ServeKeeps
<1>4. CASE Report
  <2>1. UNCHANGED <<samples, rollup, written>> /\ (Serve("stats") \/ Serve("export"))
    BY <1>4 DEF Report
  <2>2. CASE Serve("stats")
    BY <2>1, <2>2, ServeKeeps
  <2>3. CASE Serve("export")
    BY <2>1, <2>3, ServeKeeps
  <2> QED
    BY <2>1, <2>2, <2>3
<1>5. CASE ServeFails
  <2>1. PICK op \in {"write", "query", "stats", "export"} : Serve(op)
    BY <1>5 DEF ServeFails
  <2>2. UNCHANGED <<samples, rollup, written>>
    BY <1>5 DEF ServeFails
  <2> QED
    BY <2>1, <2>2, ServeKeeps
<1>6. CASE Fold
  BY <1>6, FoldKeeps
<1>7. CASE DropRaw
  BY <1>7, DropRawKeeps
<1>8. CASE DropRows
  BY <1>8, DropRowsKeeps
<1> QED
  BY <1>1, <1>2, <1>3, <1>4, <1>5, <1>6, <1>7, <1>8 DEF StoreStep

-----------------------------------------------------------------------------
(* The GUI.                                                                *)

\* What the GUI does to the store is to queue commands, or nothing.
LEMMA GuiKeeps ==
  ASSUME StoreInv, StoreIdle, cmds' \in Seq(Command), Past',
         label' \in Server \cup {NoServer}, range' \in Spans, chosen' \subseteq Metrics
  PROVE  StoreInv'
<1>1. UNCHANGED <<now, thread, samples, rollup, due, sweep, at, written>>
  BY DEF StoreIdle
<1>2. StoreTypes'
  BY <1>1 DEF StoreInv, TypeInv, StoreTypes
<1>3. Staged' /\ NothingLost'
  BY <1>1, Untouched DEF StoreInv
<1> QED
  BY <1>2, <1>3 DEF StoreInv, TypeInv

\* request_history queues a query and a count, or nothing.
LEMMA RequestQueues ==
  ASSUME StoreInv, StoreIdle, NEW s \in Server \cup {NoServer}, NEW ms \in SUBSET Metrics,
         NEW sp \in Spans, Request(s, ms, sp)
  PROVE  cmds' \in Seq(Command) /\ Past'
<1>1. CASE s = NoServer
  BY <1>1 DEF Request, StoreIdle, StoreInv, TypeInv, Past
<1>2. CASE s # NoServer
  <2> DEFINE c == <<QueryCmd(s, ms, sp), [op |-> "stats"]>>
  <2>1. Submit(c)
    BY <1>2 DEF Request
  <2>2. QueryCmd(s, ms, sp) \in Command /\ QueryCmd(s, ms, sp).op # "write"
    BY <1>2 DEF QueryCmd, Command, QueryCommand, StoreInv, TypeInv, StoreTypes
  <2>3. [op |-> "stats"] \in Command /\ [op |-> "stats"].op # "write"
    BY DEF Command, QueryCommand
  <2>4. c \in Seq(Command) /\ \A k \in 1..Len(c) : c[k].op # "write"
    BY <2>2, <2>3
  <2>5. now' = now /\ written' = written
    BY DEF StoreIdle
  <2> HIDE DEF c
  <2> QED
    BY <2>1, <2>4, <2>5, Joined DEF StoreInv
<1> QED
  BY <1>1, <1>2

LEMMA SampleQueues ==
  ASSUME StoreInv, OnSample PROVE StoreInv'
<1>1. StoreIdle /\ UNCHANGED <<label, linked, range, chosen>>
  BY DEF OnSample
<1>2. CASE primed /\ label # NoServer
  <2> DEFINE w == [op |-> "write", server |-> label, ts |-> now]
  <2>1. Submit(<<w>>)
    BY <1>2 DEF OnSample
  <2>2. w \in Command /\ w.ts <= now
    BY <1>2 DEF Command, QueryCommand, StoreInv, TypeInv, StoreTypes
  <2> HIDE DEF w
  <2>3. <<w>> \in Seq(Command) /\ \A k \in 1..Len(<<w>>) : <<w>>[k].ts <= now
    BY <2>2
  <2>4. now' = now /\ written' = written
    BY <1>1 DEF StoreIdle
  <2>5. cmds' \in Seq(Command) /\ Past'
    BY <2>1, <2>3, <2>4, Joined DEF StoreInv
  <2> QED
    BY <1>1, <2>5, GuiKeeps DEF StoreInv, TypeInv
<1>3. CASE ~(primed /\ label # NoServer)
  <2>1. cmds' = cmds
    BY <1>3 DEF OnSample
  <2>2. cmds' \in Seq(Command) /\ Past'
    BY <1>1, <2>1 DEF StoreIdle, StoreInv, TypeInv, Past
  <2> QED
    BY <1>1, <2>2, GuiKeeps DEF StoreInv, TypeInv
<1> QED
  BY <1>2, <1>3

\* A click that changes what is drawn asks for it.
LEMMA ClickKeeps ==
  ASSUME StoreInv, StoreIdle, NEW s \in Server \cup {NoServer}, NEW ms \in SUBSET Metrics,
         NEW sp \in Spans, Request(s, ms, sp),
         label' = s, range' = sp, chosen' = ms
  PROVE  StoreInv'
BY RequestQueues, GuiKeeps

LEMMA ScreenKeeps ==
  ASSUME StoreInv, Screen PROVE StoreInv'
<1> USE DEF StoreInv, TypeInv
<1>1. ASSUME NEW s \in Server, OnConnected(s) PROVE StoreInv'
  <2>1. StoreIdle /\ Request(s, chosen, range) /\ label' = s /\ UNCHANGED <<range, chosen>>
    BY <1>1 DEF OnConnected
  <2> QED
    BY <2>1, ClickKeeps
<1>2. CASE OnDisconnected
  <2>1. StoreIdle /\ UNCHANGED <<cmds, label, range, chosen>>
    BY <1>2 DEF OnDisconnected
  <2>2. Past'
    BY <2>1 DEF StoreIdle, Past
  <2> QED
    BY <2>1, <2>2, GuiKeeps
<1>3. CASE ExportCsv
  <2>1. StoreIdle /\ UNCHANGED <<label, range, chosen>> /\ Submit(<<[op |-> "export"]>>)
    BY <1>3 DEF ExportCsv, guiVars
  <2>2. /\ <<[op |-> "export"]>> \in Seq(Command)
        /\ \A k \in 1..Len(<<[op |-> "export"]>>) : <<[op |-> "export"]>>[k].op # "write"
    BY DEF Command, QueryCommand
  <2>3. now' = now /\ written' = written
    BY <2>1 DEF StoreIdle
  <2>4. cmds' \in Seq(Command) /\ Past'
    BY <2>1, <2>2, <2>3, Joined
  <2> QED
    BY <2>1, <2>4, GuiKeeps
<1>4. ASSUME NEW sp \in Spans, PickRange(sp) PROVE StoreInv'
  <2>1. StoreIdle /\ Request(label, chosen, sp) /\ range' = sp /\ UNCHANGED <<label, chosen>>
    BY <1>4 DEF PickRange
  <2> QED
    BY <2>1, ClickKeeps
<1>5. ASSUME NEW m \in Metrics, ToggleMetric(m) PROVE StoreInv'
  <2>1. StoreIdle /\ Request(label, chosen', range) /\ UNCHANGED <<label, range>>
    BY <1>5 DEF ToggleMetric
  <2>2. chosen' \in SUBSET Metrics
    BY <1>5 DEF ToggleMetric
  <2> QED
    BY <2>1, <2>2, ClickKeeps
<1>6. CASE Reload
  BY <1>4, <1>6 DEF Reload
<1> QED
  BY <1>1, <1>2, <1>3, <1>4, <1>5, <1>6 DEF Screen

\* Events touch what is drawn; a closed window takes the queues with it.
LEMMA DrainKeeps ==
  ASSUME StoreInv, Drain PROVE StoreInv'
<1>1. StoreIdle /\ UNCHANGED <<cmds, label, range, chosen>>
  BY DEF Drain, OnSeries, OnQueryDone, OnMessage, Take, guiVars
<1>2. Past'
  BY <1>1 DEF StoreIdle, StoreInv, Past
<1> QED
  BY <1>1, <1>2, GuiKeeps DEF StoreInv, TypeInv

LEMMA CloseKeeps ==
  ASSUME StoreInv, Close PROVE StoreInv'
<1>1. /\ thread' = "closed" /\ sweep' = "idle" /\ at' = 0 /\ due' = 0 /\ cmds' = <<>>
      /\ UNCHANGED <<now, samples, rollup, written>>
      /\ label' = NoServer /\ chosen' = Metrics /\ range' = range
  BY DEF Close, Exit, Restarted
<1>2. StoreTypes' /\ Past' /\ Staged' /\ cmds' \in Seq(Command)
  BY <1>1 DEF StoreInv, TypeInv, StoreTypes, Past, Staged
<1>3. NothingLost'
  BY <1>1, TablesKept DEF StoreInv, TypeInv, StoreTypes
<1> QED
  BY <1>1, <1>2, <1>3 DEF StoreInv, TypeInv

-----------------------------------------------------------------------------
(* The theorems.                                                           *)

LEMMA Initially == Init => StoreInv
<1> SUFFICES ASSUME Init PROVE StoreInv
  OBVIOUS
<1>1. /\ now = 0 /\ thread = "closed" /\ samples = {} /\ rollup = {} /\ written = {}
      /\ due = 0 /\ sweep = "idle" /\ at = 0 /\ cmds = <<>>
      /\ label = NoServer /\ range \in Spans /\ chosen = Metrics
  BY DEF Init, StoreInit, Fresh
<1> QED
  BY <1>1 DEF StoreInv, TypeInv, StoreTypes, Past, Staged, NothingLost

LEMMA Inductive == StoreInv /\ [Next]_vars => StoreInv'
<1> SUFFICES ASSUME StoreInv, [Next]_vars PROVE StoreInv'
  OBVIOUS
<1>1. CASE Start
  BY <1>1, OthersKeep DEF Start, guiVars
<1>2. CASE Close
  BY <1>2, CloseKeeps
<1>3. CASE StoreActs
  BY <1>3, ThreadKeeps DEF StoreActs
<1>4. CASE Screen
  BY <1>4, ScreenKeeps
<1>5. CASE Drain
  BY <1>5, DrainKeeps
<1>6. CASE OnSample
  BY <1>6, SampleQueues
<1>7. CASE Tick /\ UNCHANGED guiVars
  BY <1>7, OthersKeep DEF guiVars
<1>8. CASE UNCHANGED vars
  BY <1>8, Untouched DEF vars, storeVars, guiVars, StoreInv, TypeInv, StoreTypes, Past
<1> QED
  BY <1>1, <1>2, <1>3, <1>4, <1>5, <1>6, <1>7, <1>8 DEF Next, Process

\* For any retentions, wherever maintenance fails or the process ends: a
\* committed sample stays as long as raw samples are promised, and its minute
\* has a row from then on until rows age out.
THEOREM StoreLosesNothing == Spec => []NothingLost
<1>1. StoreInv => NothingLost
  BY DEF StoreInv
<1> QED
  BY <1>1, Initially, Inductive, PTL DEF Spec

\* Rows or samples of the window of any length the chart may ask for.
LEMMA WindowShowsSomething ==
  ASSUME StoreInv, NEW x \in written, NEW span \in RawKept .. RollupKept,
         x.ts + span >= now + Minute
  PROVE  ReadSeries(x.server, now, span).points # {}
<1> DEFINE from == IF span < now THEN now - span ELSE 0
           raw == [points |-> Bucketed(RawIn(x.server, from, now), span), down |-> FALSE]
           rows == [points |-> Bucketed(RowsIn(x.server, from, now), span), down |-> TRUE]
<1>1. /\ x \in Sample /\ x.ts \in Nat /\ now \in Nat /\ span \in Nat /\ x.ts <= now
      /\ MinuteOf(x.ts) \in Nat /\ MinuteOf(x.ts) <= x.ts /\ x.ts < MinuteOf(x.ts) + Minute
  BY MinuteBounds, StoreAssumption DEF StoreInv, TypeInv, StoreTypes, Past, Sample
<1>2. from \in Nat /\ from <= MinuteOf(x.ts) /\ x.ts \in from..now /\ MinuteOf(x.ts) \in from..now
  BY <1>1, StoreAssumption
<1>3. ReadSeries(x.server, now, span) =
        IF span > RawKept /\ rows.points # {} THEN rows ELSE raw
  BY DEF ReadSeries
<1>4. CASE Kept(x)
  <2>1. x.ts \in RawIn(x.server, from, now)
    BY <1>2, <1>4 DEF RawIn, Kept
  <2>2. raw.points # {}
    BY <2>1, BucketedNonempty
  <2> QED
    BY <1>3, <2>2
<1>5. CASE ~Kept(x)
  <2>1. x.ts + RawKept < now /\ span > RawKept
    BY <1>1, <1>5, StoreAssumption DEF StoreInv, NothingLost
  <2>2. Rolled(x)
    BY <1>1, <1>5, StoreAssumption DEF StoreInv, NothingLost
  <2>3. MinuteOf(x.ts) \in RowsIn(x.server, from, now)
    BY <1>2, <2>2 DEF RowsIn, Rolled
  <2>4. rows.points # {}
    BY <2>3, BucketedNonempty
  <2> QED
    BY <1>3, <2>1, <2>4
<1> QED
  BY <1>4, <1>5

\* A window of any length between the two retentions, in which a sample was
\* recorded, is answered by points, whichever table is read.
THEOREM ChartIsNeverBlank == Spec => []NeverBlank
<1>1. StoreInv => NeverBlank
  BY WindowShowsSomething DEF NeverBlank
<1> QED
  BY <1>1, Initially, Inductive, PTL DEF Spec

-----------------------------------------------------------------------------
(* The screen.                                                             *)

Event ==
  [kind : {"series"}, metric : Metrics, server : Server, span : Spans, down : BOOLEAN]
    \cup [kind : {"done"}, server : Server]
    \cup [kind : {"stats", "exported", "error"}]

ScreenTypes ==
  /\ evs \in Seq(Event)
  /\ linked \in BOOLEAN /\ primed \in BOOLEAN
  /\ pending \in BOOLEAN /\ failed \in BOOLEAN
  /\ series \in [Metrics -> [server : Server \cup {NoServer}, span : Spans \cup {0}]]

LEMMA MessageType == \A kind \in {"stats", "exported", "error"} : [kind |-> kind] \in Event
BY DEF Event

\* A query reads every metric that was asked for and no other.
LEMMA ReadingsType ==
  ASSUME NEW ms, NEW asked \in Readings(ms)
  PROVE  /\ asked \in Seq(ms) /\ Len(asked) \in Nat
         /\ \A m \in ms : \E i \in 1..Len(asked) : asked[i] = m
<1>1. PICK n \in 0..Len(Order) : asked \in [1..n -> ms]
  BY DEF Readings
<1>2. n \in Nat
  BY <1>1, LenProperties, StoreAssumption
<1>3. asked \in Seq(ms) /\ Len(asked) = n /\ DOMAIN asked = 1..n
  BY <1>1, <1>2, LenProperties
<1> QED
  BY <1>2, <1>3 DEF Readings

\* It is answered by as many series as are read.
LEMMA AnswersType ==
  ASSUME NEW c \in QueryCommand,
         NEW asked \in Readings(c.metrics), NEW k \in Nat, k <= Len(asked)
  PROVE  /\ Answers(c, asked, k) \in Seq(Event) /\ Len(Answers(c, asked, k)) = k
         /\ \A i \in 1..k :
              /\ Answers(c, asked, k)[i].kind = "series"
              /\ Answers(c, asked, k)[i].metric = asked[i]
              /\ Answers(c, asked, k)[i].server = c.server
              /\ Answers(c, asked, k)[i].span = c.span
<1>1. asked \in Seq(c.metrics) /\ Len(asked) \in Nat
  BY ReadingsType DEF QueryCommand
<1>4. Least(k, Len(asked)) = k
  BY <1>1 DEF Least
<1> DEFINE D == ReadSeries(c.server, c.to, c.span).down
           A(i) == [kind |-> "series", metric |-> asked[i], server |-> c.server,
                    span |-> c.span, down |-> D]
<1>5. D \in BOOLEAN
  BY DEF ReadSeries
<1> HIDE DEF D
<1>6. ASSUME NEW i \in 1..k PROVE A(i) \in Event
  <2>1. asked[i] \in Metrics
    BY <1>1 DEF QueryCommand
  <2> QED
    BY <1>5, <2>1 DEF Event, QueryCommand
<1>7. Answers(c, asked, k) = [i \in 1..k |-> A(i)]
  BY <1>4 DEF Answers, D
<1> HIDE DEF A
<1>8. Answers(c, asked, k) \in [1..k -> Event]
  BY <1>6, <1>7
<1>9. Answers(c, asked, k) \in Seq(Event) /\ Len(Answers(c, asked, k)) = k
  BY <1>7, <1>8, LenProperties
<1>10. \A i \in 1..k : Answers(c, asked, k)[i] = A(i)
  BY <1>7
<1> QED
  BY <1>9, <1>10 DEF A

\* The answers that one query leaves, whether it is done or ends in an error.
LEMMA ServedType ==
  ASSUME StoreInv, ScreenTypes, Query \/ ServeFails
  PROVE  evs' \in Seq(Event)
<1>1. cmds # <<>> /\ (Query => Head(cmds).op = "query")
  BY DEF Query, ServeFails, Serve
<1>2. Head(cmds) \in Command
  BY <1>1, HeadTailProperties DEF StoreInv, TypeInv
<1> DEFINE c == Head(cmds)
<1>3. c.op = "query" => c \in QueryCommand
  BY <1>2 DEF Command, QueryCommand
<1>4. CASE Query
  <2>1. PICK asked \in Readings(c.metrics) :
          evs' = evs \o Append(Answers(c, asked, Len(asked)), [kind |-> "done", server |-> c.server])
    BY <1>4 DEF Query
  <2>2. Len(asked) \in Nat /\ Len(asked) <= Len(asked)
    BY ReadingsType
  <2>3. /\ c.op = "query"
        /\ c \in QueryCommand
    BY <1>1, <1>3, <1>4
  <2>4. Answers(c, asked, Len(asked)) \in Seq(Event)
    BY <2>1, <2>2, <2>3, AnswersType
  <2>5. [kind |-> "done", server |-> c.server] \in Event
    BY <1>1, <1>3, <1>4 DEF Event, QueryCommand
  <2> HIDE DEF c
  <2>6. Append(Answers(c, asked, Len(asked)), [kind |-> "done", server |-> c.server]) \in Seq(Event)
    BY <2>4, <2>5, AppendProperties
  <2> QED
    BY <2>1, <2>6, ConcatProperties DEF ScreenTypes
<1>5. CASE evs' = Append(evs, [kind |-> "error"])
  BY <1>5, MessageType, AppendProperties DEF ScreenTypes
<1>6. ASSUME c.op = "query", NEW asked \in Readings(c.metrics), NEW k \in 1..Len(asked)-1,
             evs' = evs \o Append(Answers(c, asked, k), [kind |-> "error"])
      PROVE  evs' \in Seq(Event)
  <2>2. k \in Nat /\ k <= Len(asked)
    BY <1>6, ReadingsType
  <2>3. Answers(c, asked, k) \in Seq(Event)
    BY <1>3, <1>6, <2>2, AnswersType
  <2> HIDE DEF c
  <2>4. Append(Answers(c, asked, k), [kind |-> "error"]) \in Seq(Event)
    BY <2>3, MessageType, AppendProperties
  <2> QED
    BY <1>6, <2>4, ConcatProperties DEF ScreenTypes
<1> QED
  BY <1>4, <1>5, <1>6 DEF ServeFails

\* An event is taken from the queue.
LEMMA TakenEvent ==
  ASSUME evs \in Seq(Event), evs # <<>>
  PROVE  /\ Head(evs) = evs[1] /\ Head(evs) \in Event
         /\ Tail(evs) \in Seq(Event) /\ Len(evs) \in Nat /\ Len(evs) > 0
         /\ Len(Tail(evs)) = Len(evs) - 1
         /\ \A k \in 1..Len(evs) - 1 : Tail(evs)[k] = evs[k + 1]
BY HeadTailProperties, EmptySeq, LenProperties

LEMMA DrainTyped ==
  ASSUME ScreenTypes, Drain PROVE ScreenTypes'
<1>1. evs # <<>> /\ evs' = Tail(evs)
  BY DEF Drain, OnSeries, OnQueryDone, OnMessage, Take
<1>2. evs' \in Seq(Event) /\ Head(evs) \in Event
  BY <1>1, TakenEvent DEF ScreenTypes
<1>3. CASE OnSeries
  <2>1. /\ Head(evs).kind = "series" /\ UNCHANGED <<linked, primed, pending, failed>>
        /\ series' = [series EXCEPT ![Head(evs).metric] =
                        [server |-> Head(evs).server, span |-> Head(evs).span]]
    BY <1>3 DEF OnSeries, Take
  <2>2. Head(evs).metric \in Metrics /\ Head(evs).server \in Server /\ Head(evs).span \in Spans
    BY <1>2, <2>1 DEF Event
  <2>3. series' \in [Metrics -> [server : Server \cup {NoServer}, span : Spans \cup {0}]]
    BY <2>1, <2>2 DEF ScreenTypes
  <2> QED
    BY <1>2, <2>1, <2>3 DEF ScreenTypes
<1>4. CASE OnQueryDone
  <2>1. pending' \in BOOLEAN
    BY <1>4 DEF OnQueryDone, ScreenTypes
  <2> QED
    BY <1>2, <1>4, <2>1 DEF OnQueryDone, ScreenTypes
<1>5. CASE OnMessage
  BY <1>2, <1>5 DEF OnMessage, guiVars, ScreenTypes
<1> QED
  BY <1>3, <1>4, <1>5 DEF Drain

LEMMA RequestTyped ==
  ASSUME ScreenTypes, NEW s, NEW ms, NEW sp, Request(s, ms, sp)
  PROVE  pending' \in BOOLEAN /\ failed' \in BOOLEAN
BY DEF Request, ScreenTypes

LEMMA ScreenTyped ==
  ASSUME ScreenTypes, Screen PROVE ScreenTypes'
<1>1. CASE \E s \in Server : OnConnected(s)
  BY <1>1, RequestTyped DEF OnConnected, ScreenTypes
<1>2. CASE OnDisconnected
  BY <1>2 DEF OnDisconnected, ScreenTypes
<1>3. CASE ExportCsv
  BY <1>3 DEF ExportCsv, guiVars, ScreenTypes
<1>4. ASSUME NEW sp, PickRange(sp) PROVE ScreenTypes'
  BY <1>4, RequestTyped DEF PickRange, ScreenTypes
<1>5. ASSUME NEW m \in Metrics, ToggleMetric(m) PROVE ScreenTypes'
  <2>1. Nothing \in [server : Server \cup {NoServer}, span : Spans \cup {0}]
    BY DEF Nothing
  <2>2. series' \in [Metrics -> [server : Server \cup {NoServer}, span : Spans \cup {0}]]
    BY <1>5, <2>1 DEF ToggleMetric, ScreenTypes
  <2> QED
    BY <1>5, <2>2, RequestTyped DEF ToggleMetric, ScreenTypes
<1> QED
  BY <1>1, <1>2, <1>3, <1>4, <1>5 DEF Screen, Reload

LEMMA ActsTyped ==
  ASSUME StoreInv, ScreenTypes, StoreActs PROVE ScreenTypes'
<1>1. failed' \in BOOLEAN
  BY DEF StoreActs, ScreenTypes
<1>2. evs' \in Seq(Event)
  <2>1. CASE Query \/ ServeFails
    BY <2>1, ServedType
  <2>2. CASE Report \/ OpenFails \/ MaintainFails
    <3>1. \E kind \in {"stats", "exported", "error"} : evs' = Append(evs, [kind |-> kind])
      BY <2>2 DEF Report, OpenFails, MaintainFails
    <3> QED
      BY <3>1, MessageType, AppendProperties DEF ScreenTypes
  <2>3. CASE Open \/ Write \/ Maintain \/ Fold \/ DropRaw \/ DropRows
    BY <2>3 DEF Open, Write, Maintain, Fold, DropRaw, DropRows, ScreenTypes
  <2> QED
    BY <2>1, <2>2, <2>3 DEF StoreActs, StoreStep
<1> QED
  BY <1>1, <1>2 DEF StoreActs, ScreenTypes

LEMMA CloseTyped ==
  ASSUME ScreenTypes, Close PROVE ScreenTypes'
<1>1. evs' = <<>> /\ linked' = FALSE /\ primed' = FALSE /\ pending' = FALSE /\ failed' = FALSE
      /\ series' = [m \in Metrics |-> Nothing]
  BY DEF Close, Exit, Restarted
<1>2. series' \in [Metrics -> [server : Server \cup {NoServer}, span : Spans \cup {0}]]
  BY <1>1 DEF Nothing
<1>3. evs' \in Seq(Event)
  BY <1>1, EmptySeq
<1> QED
  BY <1>1, <1>2, <1>3 DEF ScreenTypes

LEMMA TypedInitially == Init => ScreenTypes
<1> SUFFICES ASSUME Init PROVE ScreenTypes
  OBVIOUS
<1>1. evs = <<>> /\ linked = FALSE /\ primed = FALSE /\ pending = FALSE /\ failed = FALSE
      /\ series = [m \in Metrics |-> Nothing]
  BY DEF Init, StoreInit, Fresh
<1>2. series \in [Metrics -> [server : Server \cup {NoServer}, span : Spans \cup {0}]]
  BY <1>1 DEF Nothing
<1>3. evs \in Seq(Event)
  BY <1>1, EmptySeq
<1> QED
  BY <1>1, <1>2, <1>3 DEF ScreenTypes

LEMMA TypedNext == StoreInv /\ ScreenTypes /\ [Next]_vars => ScreenTypes'
<1> SUFFICES ASSUME StoreInv, ScreenTypes, [Next]_vars PROVE ScreenTypes'
  OBVIOUS
<1>1. CASE Start
  BY <1>1 DEF Start, Launch, guiVars, ScreenTypes
<1>2. CASE Close
  BY <1>2, CloseTyped
<1>3. CASE StoreActs
  BY <1>3, ActsTyped
<1>4. CASE Screen
  BY <1>4, ScreenTyped
<1>5. CASE Drain
  BY <1>5, DrainTyped
<1>6. CASE OnSample
  BY <1>6 DEF OnSample, ScreenTypes
<1>7. CASE Tick /\ UNCHANGED guiVars
  BY <1>7 DEF Tick, guiVars, ScreenTypes
<1>8. CASE UNCHANGED vars
  BY <1>8 DEF vars, storeVars, guiVars, ScreenTypes
<1> QED
  BY <1>1, <1>2, <1>3, <1>4, <1>5, <1>6, <1>7, <1>8 DEF Next, Process

\* The tables, what the thread is at and what is on screen keep their types;
\* maintenance is never under way while there is no thread to finish it.
THEOREM HistoryTypeCorrect == Spec => []HistoryTypeOK
<1>1. StoreInv /\ ScreenTypes => HistoryTypeOK
  BY DEF StoreInv, TypeInv, ScreenTypes, HistoryTypeOK
<1> QED
  BY <1>1, Initially, Inductive, TypedInitially, TypedNext, PTL DEF Spec

-----------------------------------------------------------------------------
(* The chart.  A query leaves one series for every metric it was asked for, *)
(* and no later event undoes them but those of a later query.              *)

OfMetric(e, m, k) == e[k].kind = "series" /\ e[k].metric = m

\* The last of the events for m is the one at k; at 0, there is none.
IsLast(e, m, k) ==
  /\ k > 0 => OfMetric(e, m, k)
  /\ \A i \in 1..Len(e) : i > k => ~OfMetric(e, m, i)

\* When the events have been applied to f, metric m is drawn for server l and
\* window sp.
Drawn(e, f, m, l, sp) ==
  \A k \in 0..Len(e) : IsLast(e, m, k) =>
    IF k = 0 THEN f[m] = [server |-> l, span |-> sp]
             ELSE e[k].server = l /\ e[k].span = sp

Finished(e, l) == \E k \in 1..Len(e) : e[k].kind = "done" /\ e[k].server = l

Asking(q) == \E i \in 1..Len(q) : q[i].op = "query"

\* The last query in q is for all that is on screen.
AsksFor(q, l, ms, sp) ==
  \A i \in 1..Len(q) :
    q[i].op = "query" /\ (\A k \in 1..Len(q) : k > i => q[k].op # "query") =>
      q[i].server = l /\ q[i].metrics = ms /\ q[i].span = sp

\* What is on screen has been asked for, or will be there.
OnItsWay ==
  IF Asking(cmds) THEN AsksFor(cmds, label, chosen, range)
  ELSE /\ \A m \in chosen : Drawn(evs, series, m, label, range)
       /\ pending => Finished(evs, label)

ChartInv ==
  /\ label = NoServer => ~pending
  /\ thread = "closed" => label = NoServer /\ evs = <<>>
  /\ thread = "opening" => evs = <<>> /\ (label # NoServer => pending)
  /\ ~failed /\ label # NoServer => OnItsWay

\* An event that draws nothing may join the others, and may be taken.
LEMMA MuteJoins ==
  ASSUME NEW e \in Seq(Event), NEW x \in Event, x.kind # "series",
         NEW f, NEW m, NEW l, NEW sp, Drawn(e, f, m, l, sp)
  PROVE  Drawn(Append(e, x), f, m, l, sp)
<1>1. /\ Len(e) \in Nat /\ Len(Append(e, x)) = Len(e) + 1
      /\ \A k \in 1..Len(e) : Append(e, x)[k] = e[k]
      /\ Append(e, x)[Len(e) + 1] = x
  BY AppendProperties, LenProperties
<1> DEFINE q == Append(e, x)
<1> HIDE DEF q
<1>2. SUFFICES ASSUME NEW k \in 0..Len(q), IsLast(q, m, k)
               PROVE  IF k = 0 THEN f[m] = [server |-> l, span |-> sp]
                      ELSE q[k].server = l /\ q[k].span = sp
  BY DEF Drawn, q
<1>3. k \in 0..Len(e)
  BY <1>1, <1>2 DEF IsLast, OfMetric, q
<1>4. k > 0 => q[k] = e[k]
  BY <1>1, <1>3 DEF q
<1>5. \A i \in 1..Len(e) : q[i] = e[i] /\ i \in 1..Len(q)
  BY <1>1 DEF q
<1>6. IsLast(e, m, k)
  BY <1>2, <1>4, <1>5 DEF IsLast, OfMetric
<1> QED
  BY <1>3, <1>4, <1>6 DEF Drawn

LEMMA FinishedJoins ==
  ASSUME NEW e \in Seq(Event), NEW x \in Event, NEW l, Finished(e, l)
  PROVE  Finished(Append(e, x), l)
BY AppendProperties, LenProperties DEF Finished

\* Taking the first event and drawing what it says changes nothing of what the
\* chart will be.
LEMMA DrawnTaken ==
  ASSUME NEW e \in Seq(Event), e # <<>>, NEW f, NEW g, NEW m, NEW l, NEW sp,
         Drawn(e, f, m, l, sp),
         g[m] = IF OfMetric(e, m, 1) THEN [server |-> e[1].server, span |-> e[1].span] ELSE f[m]
  PROVE  Drawn(Tail(e), g, m, l, sp)
<1>1. /\ Tail(e) \in Seq(Event) /\ Len(e) \in Nat /\ Len(e) > 0
      /\ Len(Tail(e)) = Len(e) - 1
      /\ \A k \in 1..Len(e) - 1 : Tail(e)[k] = e[k + 1]
  BY HeadTailProperties, EmptySeq, LenProperties
<1> DEFINE q == Tail(e)
<1> HIDE DEF q
<1>2. SUFFICES ASSUME NEW k \in 0..Len(q), IsLast(q, m, k)
               PROVE  IF k = 0 THEN g[m] = [server |-> l, span |-> sp]
                      ELSE q[k].server = l /\ q[k].span = sp
  BY DEF Drawn, q
<1>3. ASSUME NEW i \in 1..Len(e), i > k + 1 PROVE ~OfMetric(e, m, i)
  <2>1. i - 1 \in 1..Len(q) /\ i - 1 > k /\ q[i - 1] = e[i]
    BY <1>1, <1>2, <1>3 DEF q
  <2> QED
    BY <1>2, <2>1 DEF IsLast, OfMetric
<1>4. CASE k > 0
  <2>1. q[k] = e[k + 1] /\ k + 1 \in 0..Len(e) /\ k + 1 # 0 /\ k + 1 > 0
    BY <1>1, <1>2, <1>4 DEF q
  <2>2. IsLast(e, m, k + 1)
    BY <1>2, <1>3, <1>4, <2>1 DEF IsLast, OfMetric
  <2> QED
    BY <1>4, <2>1, <2>2 DEF Drawn
<1>5. CASE k = 0 /\ OfMetric(e, m, 1)
  <2>1. IsLast(e, m, 1) /\ 1 \in 0..Len(e)
    BY <1>1, <1>3, <1>5 DEF IsLast
  <2> QED
    BY <1>5, <2>1 DEF Drawn
<1>6. CASE k = 0 /\ ~OfMetric(e, m, 1)
  <2>1. IsLast(e, m, 0) /\ 0 \in 0..Len(e)
    <3>1. \A i \in 1..Len(e) : i = 1 \/ i > 1
      BY <1>1
    <3> QED
      BY <1>1, <1>3, <1>6, <3>1 DEF IsLast
  <2> QED
    BY <1>6, <2>1 DEF Drawn
<1> QED
  BY <1>2, <1>4, <1>5, <1>6

\* The answers of a query decide for every metric that is among them.
LEMMA AnswersDraw ==
  ASSUME NEW e \in Seq(Event), NEW a \in Seq(Event), NEW d \in Event, d.kind # "series",
         NEW f, NEW m, NEW l, NEW sp,
         \A i \in 1..Len(a) : a[i].kind = "series" /\ a[i].server = l /\ a[i].span = sp,
         \E i \in 1..Len(a) : a[i].metric = m
  PROVE  Drawn(e \o Append(a, d), f, m, l, sp)
<1> DEFINE b == Append(a, d)
           q == e \o b
<1>1. /\ Len(e) \in Nat /\ Len(a) \in Nat /\ b \in Seq(Event) /\ Len(b) = Len(a) + 1
      /\ \A i \in 1..Len(a) : b[i] = a[i]
      /\ b[Len(a) + 1] = d
  BY AppendProperties, LenProperties
<1> HIDE DEF b
<1>2. /\ Len(q) = Len(e) + Len(b)
      /\ \A i \in 1..Len(e) + Len(b) : q[i] = IF i <= Len(e) THEN e[i] ELSE b[i - Len(e)]
  BY <1>1, ConcatProperties
<1> HIDE DEF q
<1>3. PICK i \in 1..Len(a) : a[i].metric = m
  OBVIOUS
<1>4. /\ Len(e) + i \in 1..Len(q) /\ Len(e) + i > 0
      /\ q[Len(e) + i] = b[i] /\ b[i] = a[i]
  <2>1. Len(e) + i \in 1..Len(e) + Len(b) /\ ~(Len(e) + i <= Len(e)) /\ Len(e) + i - Len(e) = i
    BY <1>1, <1>3
  <2>2. q[Len(e) + i] = b[i]
    BY <1>2, <2>1
  <2> QED
    BY <1>1, <1>2, <1>3, <2>1, <2>2
<1>5. OfMetric(q, m, Len(e) + i)
  BY <1>3, <1>4 DEF OfMetric
<1>6. ASSUME NEW k \in 0..Len(q), IsLast(q, m, k)
      PROVE  k # 0 /\ q[k].server = l /\ q[k].span = sp
  <2>1. k >= Len(e) + i
    BY <1>1, <1>3, <1>4, <1>5, <1>6 DEF IsLast
  <2>2. k # 0 /\ q[k].kind = "series"
    BY <1>1, <1>3, <1>6, <2>1 DEF IsLast, OfMetric
  <2>3. q[k] = b[k - Len(e)] /\ k - Len(e) \in 1..Len(b)
    <3>1. k \in 1..Len(e) + Len(b) /\ ~(k <= Len(e))
      BY <1>1, <1>2, <1>3, <1>6, <2>1
    <3> QED
      BY <1>1, <1>2, <3>1
  <2>4. k - Len(e) # Len(a) + 1
    BY <1>1, <2>2, <2>3
  <2>5. k - Len(e) \in 1..Len(a)
    <3>1. \A n \in Nat : \A j \in 1..(n + 1) : j # n + 1 => j \in 1..n
      OBVIOUS
    <3>2. k - Len(e) \in 1..(Len(a) + 1) /\ Len(a) \in Nat
      BY <1>1, <2>3
    <3> QED
      BY <2>4, <3>1, <3>2
  <2>6. q[k] = a[k - Len(e)]
    BY <1>1, <2>3, <2>5
  <2> QED
    BY <2>2, <2>5, <2>6
<1>7. Drawn(q, f, m, l, sp)
  BY <1>6 DEF Drawn
<1> QED
  BY <1>7 DEF q, b

\* Commands that ask for nothing change nothing of what has been asked for.
LEMMA AsksJoined ==
  ASSUME NEW q \in Seq(Command), NEW c \in Seq(Command), ~Asking(c), NEW l, NEW ms, NEW sp
  PROVE  /\ Asking(q \o c) <=> Asking(q)
         /\ AsksFor(q, l, ms, sp) => AsksFor(q \o c, l, ms, sp)
<1> DEFINE r == q \o c
<1>1. /\ Len(q) \in Nat /\ Len(c) \in Nat /\ Len(r) = Len(q) + Len(c)
      /\ \A i \in 1..Len(q) + Len(c) : r[i] = IF i <= Len(q) THEN q[i] ELSE c[i - Len(q)]
  BY ConcatProperties, LenProperties
<1> HIDE DEF r
<1>2. ASSUME NEW i \in 1..Len(r), r[i].op = "query" PROVE i \in 1..Len(q) /\ r[i] = q[i]
  <2>1. i <= Len(q)
    <3> SUFFICES ASSUME ~(i <= Len(q)) PROVE FALSE
      OBVIOUS
    <3>1. i - Len(q) \in 1..Len(c) /\ r[i] = c[i - Len(q)]
      BY <1>1
    <3> QED
      BY <1>2, <3>1 DEF Asking
  <2> QED
    BY <1>1, <2>1
<1>3. \A i \in 1..Len(q) : i \in 1..Len(r) /\ r[i] = q[i]
  BY <1>1
<1>4. Asking(r) <=> Asking(q)
  BY <1>2, <1>3 DEF Asking
<1>5. AsksFor(q, l, ms, sp) => AsksFor(r, l, ms, sp)
  BY <1>2, <1>3 DEF AsksFor
<1> QED
  BY <1>4, <1>5 DEF r

\* What the GUI asks for last is asked for.
LEMMA AskedLast ==
  ASSUME NEW q \in Seq(Command), NEW x \in Command, NEW y \in Command,
         x.op = "query", y.op # "query"
  PROVE  /\ Asking(q \o <<x, y>>)
         /\ AsksFor(q \o <<x, y>>, x.server, x.metrics, x.span)
<1> DEFINE r == q \o <<x, y>>
<1>0. <<x, y>> \in Seq(Command) /\ Len(<<x, y>>) = 2 /\ <<x, y>>[1] = x /\ <<x, y>>[2] = y
  OBVIOUS
<1>1. /\ Len(q) \in Nat /\ Len(r) = Len(q) + 2
      /\ \A i \in 1..Len(q) + 2 : r[i] = IF i <= Len(q) THEN q[i] ELSE <<x, y>>[i - Len(q)]
  BY <1>0, ConcatProperties, LenProperties
<1> HIDE DEF r
<1>2. r[Len(q) + 1] = x /\ r[Len(q) + 2] = y
  BY <1>0, <1>1
<1>3. Asking(r)
  BY <1>1, <1>2 DEF Asking
<1>4. ASSUME NEW i \in 1..Len(r), r[i].op = "query",
             \A k \in 1..Len(r) : k > i => r[k].op # "query"
      PROVE  r[i] = x
  <2>1. i >= Len(q) + 1
    BY <1>1, <1>2, <1>4
  <2>2. i # Len(q) + 2
    BY <1>2, <1>4
  <2>3. i = Len(q) + 1
    BY <1>1, <2>1, <2>2
  <2> QED
    BY <1>2, <2>3
<1>5. AsksFor(r, x.server, x.metrics, x.span)
  BY <1>4 DEF AsksFor
<1> QED
  BY <1>3, <1>5 DEF r

\* A command is taken: either it was the last query, or the last one is still
\* in the queue, or there was none.
LEMMA AsksTaken ==
  ASSUME NEW q \in Seq(Command), q # <<>>, NEW l, NEW ms, NEW sp
  PROVE  /\ Asking(q) <=> Head(q).op = "query" \/ Asking(Tail(q))
         /\ Asking(Tail(q)) /\ AsksFor(q, l, ms, sp) => AsksFor(Tail(q), l, ms, sp)
         /\ ~Asking(Tail(q)) /\ Head(q).op = "query" /\ AsksFor(q, l, ms, sp) =>
              Head(q).server = l /\ Head(q).metrics = ms /\ Head(q).span = sp
<1> DEFINE r == Tail(q)
<1>1. /\ Len(q) \in Nat /\ Len(q) > 0 /\ Head(q) = q[1] /\ Len(r) = Len(q) - 1
      /\ \A k \in 1..Len(q) - 1 : r[k] = q[k + 1]
  BY HeadTailProperties, EmptySeq, LenProperties
<1> HIDE DEF r
<1>2. \A k \in 1..Len(r) : k + 1 \in 1..Len(q) /\ r[k] = q[k + 1]
  BY <1>1
<1>3. ASSUME NEW i \in 1..Len(q), i > 1 PROVE i - 1 \in 1..Len(r) /\ r[i - 1] = q[i]
  BY <1>1, <1>3
<1>4. \A i \in 1..Len(q) : i = 1 \/ i > 1
  BY <1>1
<1>5. 1 \in 1..Len(q)
  BY <1>1
<1>6. Asking(q) <=> Head(q).op = "query" \/ Asking(r)
  BY <1>1, <1>2, <1>3, <1>4, <1>5 DEF Asking
<1>7. ASSUME AsksFor(q, l, ms, sp) PROVE AsksFor(r, l, ms, sp)
  <2> SUFFICES ASSUME NEW i \in 1..Len(r), r[i].op = "query",
                      \A k \in 1..Len(r) : k > i => r[k].op # "query"
               PROVE  r[i].server = l /\ r[i].metrics = ms /\ r[i].span = sp
    BY DEF AsksFor
  <2>1. ASSUME NEW k \in 1..Len(q), k > i + 1 PROVE q[k].op # "query"
    <3>1. k - 1 \in 1..Len(r) /\ r[k - 1] = q[k] /\ k - 1 > i
      BY <1>1, <1>3, <2>1
    <3> QED
      BY <3>1
  <2> QED
    BY <1>2, <1>7, <2>1 DEF AsksFor
<1>8. ASSUME ~Asking(r), Head(q).op = "query", AsksFor(q, l, ms, sp)
      PROVE  Head(q).server = l /\ Head(q).metrics = ms /\ Head(q).span = sp
  <2>1. \A k \in 1..Len(q) : k > 1 => q[k].op # "query"
    BY <1>3, <1>8 DEF Asking
  <2> QED
    BY <1>1, <1>5, <1>8, <2>1 DEF AsksFor
<1> QED
  BY <1>6, <1>7, <1>8 DEF r

-----------------------------------------------------------------------------
(* The steps.                                                              *)

ChartState == StoreInv /\ ScreenTypes /\ ChartInv

\* request_history leaves a query for all that is on screen, unless nobody is
\* there to answer it.
LEMMA RequestAsks ==
  ASSUME ChartState, NEW s \in Server \cup {NoServer}, NEW ms \in SUBSET Metrics,
         NEW sp \in Spans, Request(s, ms, sp), StoreIdle, evs' = evs,
         label' = s, chosen' = ms, range' = sp, Running, s = NoServer => label = NoServer
  PROVE  ChartInv'
<1>0. thread' = thread /\ thread # "closed" /\ now' = now
  BY DEF StoreIdle, Running
<1>1. CASE s = NoServer
  BY <1>0, <1>1 DEF Request, ChartState, ChartInv
<1>2. CASE s # NoServer
  <2> DEFINE x == QueryCmd(s, ms, sp)
             y == [op |-> "stats"]
  <2>1. pending' = TRUE /\ failed' = (thread = "off") /\ Submit(<<x, y>>)
    BY <1>2 DEF Request
  <2>2. x \in Command /\ x.op = "query" /\ x.server = s /\ x.metrics = ms /\ x.span = sp
    BY <1>2 DEF QueryCmd, Command, QueryCommand, ChartState, StoreInv, TypeInv, StoreTypes
  <2>3. y \in Command /\ y.op # "query"
    BY DEF Command, QueryCommand
  <2>4. cmds \in Seq(Command)
    BY DEF ChartState, StoreInv, TypeInv
  <2> HIDE DEF x, y
  <2>5. thread # "off" => Asking(cmds') /\ AsksFor(cmds', s, ms, sp)
    <3>1. Asking(cmds \o <<x, y>>) /\ AsksFor(cmds \o <<x, y>>, x.server, x.metrics, x.span)
      BY <2>2, <2>3, <2>4, AskedLast
    <3> QED
      BY <2>1, <2>2, <3>1 DEF Submit
  <2>6. ~failed' => OnItsWay'
    BY <2>1, <2>5 DEF OnItsWay
  <2> QED
    BY <1>0, <1>2, <2>1, <2>6 DEF ChartState, ChartInv
<1> QED
  BY <1>1, <1>2

\* Other commands join the queue and nothing else happens.
LEMMA OthersAsk ==
  ASSUME ChartState, NEW c \in Seq(Command), ~Asking(c), Submit(c) \/ cmds' = cmds,
         UNCHANGED <<thread, evs, label, range, chosen, series, pending, failed>>
  PROVE  ChartInv'
<1>1. cmds \in Seq(Command)
  BY DEF ChartState, StoreInv, TypeInv
<1>2. cmds' = cmds \/ cmds' = cmds \o c
  BY DEF Submit
<1>3. /\ Asking(cmds') <=> Asking(cmds)
      /\ AsksFor(cmds, label, chosen, range) => AsksFor(cmds', label, chosen, range)
  <2>1. /\ Asking(cmds \o c) <=> Asking(cmds)
        /\ AsksFor(cmds, label, chosen, range) => AsksFor(cmds \o c, label, chosen, range)
    BY <1>1, AsksJoined
  <2>2. CASE cmds' = cmds
    BY <2>2
  <2>3. CASE cmds' = cmds \o c
    BY <2>1, <2>3
  <2> QED
    BY <1>2, <2>2, <2>3
<1>4. OnItsWay => OnItsWay'
  BY <1>3 DEF OnItsWay
<1> QED
  BY <1>4 DEF ChartState, ChartInv

LEMMA ScreenAsks ==
  ASSUME ChartState, Screen PROVE ChartInv'
<1> USE DEF ChartState, StoreInv, TypeInv, Quiet
<1>1. ASSUME NEW s \in Server, OnConnected(s) PROVE ChartInv'
  <2>1. /\ StoreIdle /\ Request(s, chosen, range) /\ Running /\ s # NoServer
        /\ label' = s /\ UNCHANGED <<evs, range, chosen>>
    BY <1>1, LabelAssumption DEF OnConnected
  <2> QED
    BY <2>1, RequestAsks
<1>2. CASE OnDisconnected
  <2>1. <<>> \in Seq(Command) /\ ~Asking(<<>>)
    BY EmptySeq DEF Asking
  <2>2. UNCHANGED <<thread, cmds, evs, label, range, chosen, series, pending, failed>>
    BY <1>2 DEF OnDisconnected, StoreIdle
  <2> QED
    BY <2>1, <2>2, OthersAsk
<1>3. CASE ExportCsv
  <2>1. <<[op |-> "export"]>> \in Seq(Command) /\ ~Asking(<<[op |-> "export"]>>)
    BY DEF Asking, Command, QueryCommand
  <2>2. /\ Submit(<<[op |-> "export"]>>)
        /\ UNCHANGED <<thread, evs, label, range, chosen, series, pending, failed>>
    BY <1>3 DEF ExportCsv, StoreIdle, guiVars
  <2> QED
    BY <2>1, <2>2, OthersAsk
<1>4. ASSUME NEW sp \in Spans, PickRange(sp) PROVE ChartInv'
  <2>1. /\ StoreIdle /\ Request(label, chosen, sp) /\ Running
        /\ range' = sp /\ UNCHANGED <<evs, label, chosen>>
    BY <1>4 DEF PickRange
  <2> QED
    BY <2>1, RequestAsks
<1>5. ASSUME NEW m \in Metrics, ToggleMetric(m) PROVE ChartInv'
  <2>1. /\ StoreIdle /\ Request(label, chosen', range) /\ Running
        /\ UNCHANGED <<evs, label, range>>
    BY <1>5 DEF ToggleMetric
  <2>2. chosen' \in SUBSET Metrics
    BY <1>5 DEF ToggleMetric
  <2> QED
    BY <2>1, <2>2, RequestAsks
<1>6. CASE Reload
  BY <1>4, <1>6 DEF Reload
<1> QED
  BY <1>1, <1>2, <1>3, <1>4, <1>5, <1>6 DEF Screen

LEMMA SampleAsks ==
  ASSUME ChartState, OnSample PROVE ChartInv'
<1> DEFINE w == [op |-> "write", server |-> label, ts |-> now]
<1>1. UNCHANGED <<thread, evs, label, range, chosen, series, pending, failed>>
  BY DEF OnSample, StoreIdle
<1>2. CASE primed /\ label # NoServer
  <2>1. w \in Command /\ w.op # "query"
    BY <1>2 DEF Command, QueryCommand, ChartState, StoreInv, TypeInv, StoreTypes
  <2>2. Submit(<<w>>)
    BY <1>2 DEF OnSample
  <2> HIDE DEF w
  <2>3. <<w>> \in Seq(Command) /\ ~Asking(<<w>>)
    BY <2>1 DEF Asking
  <2> QED
    BY <1>1, <2>2, <2>3, OthersAsk
<1>3. CASE ~(primed /\ label # NoServer)
  <2>1. <<>> \in Seq(Command) /\ ~Asking(<<>>)
    BY EmptySeq DEF Asking
  <2>2. cmds' = cmds
    BY <1>3 DEF OnSample
  <2> QED
    BY <1>1, <2>1, <2>2, OthersAsk
<1> QED
  BY <1>2, <1>3

\* A command that asks for nothing is taken, or none, and no series is sent.
LEMMA MuteStep ==
  ASSUME ChartState, OnItsWay, UNCHANGED <<label, range, chosen, series, pending>>,
         \/ cmds' = cmds
         \/ cmds # <<>> /\ cmds' = Tail(cmds) /\ Head(cmds).op # "query",
         \/ evs' = evs
         \/ \E x \in Event : x.kind # "series" /\ evs' = Append(evs, x)
  PROVE  OnItsWay'
<1>1. cmds \in Seq(Command) /\ evs \in Seq(Event)
  BY DEF ChartState, StoreInv, TypeInv, ScreenTypes
<1>2. /\ Asking(cmds') <=> Asking(cmds)
      /\ Asking(cmds) /\ AsksFor(cmds, label, chosen, range)
           => AsksFor(cmds', label, chosen, range)
  <2>1. CASE cmds' = cmds
    BY <2>1
  <2>2. CASE cmds # <<>> /\ cmds' = Tail(cmds) /\ Head(cmds).op # "query"
    <3>1. /\ Asking(cmds) <=> Head(cmds).op = "query" \/ Asking(Tail(cmds))
          /\ Asking(Tail(cmds)) /\ AsksFor(cmds, label, chosen, range)
               => AsksFor(Tail(cmds), label, chosen, range)
      BY <1>1, <2>2, AsksTaken
    <3> QED
      BY <2>2, <3>1
  <2> QED
    BY <2>1, <2>2
<1>3. /\ \A m \in chosen : Drawn(evs, series, m, label, range) =>
           Drawn(evs', series, m, label, range)
      /\ Finished(evs, label) => Finished(evs', label)
  <2>1. CASE evs' = evs
    BY <2>1
  <2>2. ASSUME NEW x \in Event, x.kind # "series", evs' = Append(evs, x)
        PROVE  /\ \A m \in chosen : Drawn(evs, series, m, label, range) =>
                    Drawn(evs', series, m, label, range)
               /\ Finished(evs, label) => Finished(evs', label)
    <3>1. ASSUME NEW m \in chosen, Drawn(evs, series, m, label, range)
          PROVE  Drawn(Append(evs, x), series, m, label, range)
      BY <1>1, <2>2, <3>1, MuteJoins
    <3>2. Finished(evs, label) => Finished(Append(evs, x), label)
      BY <1>1, FinishedJoins
    <3> QED
      BY <2>2, <3>1, <3>2
  <2> QED
    BY <2>1, <2>2
<1> QED
  BY <1>2, <1>3 DEF OnItsWay

\* The last query is answered for all that is on screen.
LEMMA QueryStep ==
  ASSUME ChartState, OnItsWay, Query, UNCHANGED <<label, range, chosen, series, pending>>
  PROVE  OnItsWay'
<1> DEFINE c == Head(cmds)
           done == [kind |-> "done", server |-> c.server]
<1>1. cmds \in Seq(Command) /\ evs \in Seq(Event)
  BY DEF ChartState, StoreInv, TypeInv, ScreenTypes
<1>2. cmds # <<>> /\ cmds' = Tail(cmds) /\ c.op = "query"
  BY DEF Query, Serve
<1>3. /\ Asking(cmds)
      /\ Asking(Tail(cmds)) => AsksFor(Tail(cmds), label, chosen, range)
      /\ ~Asking(Tail(cmds)) => c.server = label /\ c.metrics = chosen /\ c.span = range
  <2>1. /\ Asking(cmds) <=> c.op = "query" \/ Asking(Tail(cmds))
        /\ Asking(Tail(cmds)) /\ AsksFor(cmds, label, chosen, range)
             => AsksFor(Tail(cmds), label, chosen, range)
        /\ ~Asking(Tail(cmds)) /\ c.op = "query" /\ AsksFor(cmds, label, chosen, range)
             => c.server = label /\ c.metrics = chosen /\ c.span = range
    BY <1>1, <1>2, AsksTaken
  <2> QED
    BY <1>2, <2>1 DEF OnItsWay
<1>4. CASE Asking(Tail(cmds))
  BY <1>2, <1>3, <1>4 DEF OnItsWay
<1>5. CASE ~Asking(Tail(cmds))
  <2>1. c.server = label /\ c.metrics = chosen /\ c.span = range
    BY <1>3, <1>5
  <2>2. c \in Command
    BY <1>1, <1>2, HeadTailProperties
  <2>3. c \in QueryCommand
    BY <1>2, <2>2 DEF Command, QueryCommand
  <2>4. PICK asked \in Readings(c.metrics) :
          evs' = evs \o Append(Answers(c, asked, Len(asked)), done)
    BY DEF Query
  <2> DEFINE a == Answers(c, asked, Len(asked))
  <2>5. Len(asked) \in Nat /\ \A m \in c.metrics : \E i \in 1..Len(asked) : asked[i] = m
    BY ReadingsType
  <2>6. /\ a \in Seq(Event) /\ Len(a) = Len(asked)
        /\ \A i \in 1..Len(asked) :
             a[i].kind = "series" /\ a[i].metric = asked[i] /\ a[i].server = c.server
             /\ a[i].span = c.span
    <3> HIDE DEF c
    <3>1. ASSUME NEW k \in Nat, k = Len(asked)
          PROVE  /\ Answers(c, asked, k) \in Seq(Event) /\ Len(Answers(c, asked, k)) = k
                 /\ \A i \in 1..k :
                      /\ Answers(c, asked, k)[i].kind = "series"
                      /\ Answers(c, asked, k)[i].metric = asked[i]
                      /\ Answers(c, asked, k)[i].server = c.server
                      /\ Answers(c, asked, k)[i].span = c.span
      <4>1. k <= Len(asked) /\ asked \in Readings(c.metrics)
        BY <2>4, <3>1
      <4> QED
        BY <2>3, <4>1, AnswersType
    <3> QED
      BY <2>5, <3>1
  <2>7. done \in Event /\ done.kind = "done" /\ done.server = c.server
    BY <2>3 DEF Event, QueryCommand
  <2> HIDE DEF a, done, c
  <2>8. ASSUME NEW m \in chosen PROVE Drawn(evs', series, m, label, range)
    <3>1. \E i \in 1..Len(a) : a[i].metric = m
      BY <2>1, <2>5, <2>6
    <3>2. \A i \in 1..Len(a) : a[i].kind = "series" /\ a[i].server = label /\ a[i].span = range
      BY <2>1, <2>6
    <3>3. done.kind # "series"
      BY <2>7
    <3>4. Drawn(evs \o Append(a, done), series, m, label, range)
      BY <1>1, <2>6, <2>7, <3>1, <3>2, <3>3, AnswersDraw
    <3> QED
      BY <2>4, <3>4 DEF a
  <2>9. Finished(evs', label)
    <3> DEFINE b == Append(a, done)
    <3>1. b \in Seq(Event) /\ Len(b) = Len(a) + 1 /\ b[Len(a) + 1] = done /\ Len(a) \in Nat
      BY <2>6, <2>7, AppendProperties, LenProperties
    <3> HIDE DEF b
    <3>2. /\ Len(evs \o b) = Len(evs) + Len(b) /\ Len(evs) \in Nat
          /\ \A i \in 1..Len(evs) + Len(b) :
               (evs \o b)[i] = IF i <= Len(evs) THEN evs[i] ELSE b[i - Len(evs)]
      BY <1>1, <3>1, ConcatProperties, LenProperties
    <3> DEFINE z == Len(evs) + (Len(a) + 1)
    <3>3. z \in 1..Len(evs \o b) /\ (evs \o b)[z] = done
      <4>1. z \in 1..Len(evs) + Len(b) /\ ~(z <= Len(evs)) /\ z - Len(evs) = Len(a) + 1
        BY <3>1, <3>2
      <4> QED
        BY <3>1, <3>2, <4>1
    <3> HIDE DEF z
    <3>4. evs' = evs \o b
      BY <2>4 DEF a, b
    <3> QED
      BY <2>1, <2>7, <3>3, <3>4 DEF Finished
  <2>10. ~Asking(cmds')
    BY <1>2, <1>5
  <2> QED
    BY <2>8, <2>9, <2>10 DEF OnItsWay
<1> QED
  BY <1>4, <1>5

\* A query that fails is reported, unless a later one is waiting.
LEMMA FailStep ==
  ASSUME ChartState, OnItsWay, ServeFails, StoreActs, ~failed'
  PROVE  OnItsWay'
<1>1. cmds \in Seq(Command) /\ evs \in Seq(Event)
  BY DEF ChartState, StoreInv, TypeInv, ScreenTypes
<1>2. cmds # <<>> /\ cmds' = Tail(cmds) /\ UNCHANGED <<label, range, chosen, series, pending>>
  BY DEF ServeFails, Serve, StoreActs
<1>3. CASE Head(cmds).op = "query"
  <2>1. PICK i \in 2..Len(cmds) : cmds[i].op = "query"
    BY <1>3 DEF StoreActs
  <2>2. /\ Len(Tail(cmds)) = Len(cmds) - 1 /\ Len(cmds) \in Nat
        /\ \A k \in 1..Len(cmds) - 1 : Tail(cmds)[k] = cmds[k + 1]
    BY <1>1, <1>2, HeadTailProperties, LenProperties
  <2>3. i - 1 \in 1..Len(Tail(cmds)) /\ Tail(cmds)[i - 1] = cmds[i]
    BY <2>2
  <2>4. Asking(Tail(cmds))
    BY <2>1, <2>3 DEF Asking
  <2>5. /\ Asking(cmds) <=> Head(cmds).op = "query" \/ Asking(Tail(cmds))
        /\ Asking(Tail(cmds)) /\ AsksFor(cmds, label, chosen, range)
             => AsksFor(Tail(cmds), label, chosen, range)
    BY <1>1, <1>2, AsksTaken
  <2> QED
    BY <1>2, <2>4, <2>5 DEF OnItsWay
<1>4. CASE Head(cmds).op # "query"
  <2>1. evs' = Append(evs, [kind |-> "error"])
    BY <1>4 DEF ServeFails
  <2> QED
    BY <1>2, <1>4, <2>1, MessageType, MuteStep
<1> QED
  BY <1>3, <1>4

LEMMA ActsAsk ==
  ASSUME ChartState, StoreActs PROVE ChartInv'
<1>1. /\ UNCHANGED <<label, range, chosen, series, pending>> /\ StoreStep
      /\ ~failed' => ~failed
  BY DEF StoreActs
<1>2. CASE OpenFails
  <2>1. /\ thread = "opening" /\ thread' = "off" /\ failed' = (failed \/ pending)
    BY <1>2 DEF OpenFails, StoreActs, ServeFails, Serve
  <2> QED
    BY <1>1, <2>1 DEF ChartState, ChartInv
<1>3. CASE ~OpenFails
  <2>1. \/ thread' = thread /\ thread = "ready"
        \/ Open
    <3>1. sweep # "idle" => thread = "ready"
      BY DEF ChartState, StoreInv, TypeInv, StoreTypes
    <3> QED
      BY <1>1, <1>3, <3>1 DEF StoreStep, Write, Query, Report, ServeFails, Serve, Maintain, Fold,
         DropRaw, DropRows, MaintainFails
  <2>2. thread' = "ready"
    BY <2>1 DEF Open
  <2>3. ASSUME ~failed', label # NoServer PROVE OnItsWay'
    <3>1. OnItsWay
      BY <1>1, <2>3 DEF ChartState, ChartInv
    <3>2. CASE Query
      BY <1>1, <3>1, <3>2, QueryStep
    <3>3. CASE ServeFails
      BY <2>3, <3>1, <3>3, FailStep
    <3>4. CASE Write
      <4>1. cmds # <<>> /\ cmds' = Tail(cmds) /\ Head(cmds).op # "query" /\ evs' = evs
        BY <3>4 DEF Write, Serve
      <4> QED
        BY <1>1, <3>1, <4>1, MuteStep
    <3>5. CASE Report
      <4>1. cmds # <<>> /\ cmds' = Tail(cmds) /\ Head(cmds).op # "query"
        BY <3>5 DEF Report, Serve
      <4>2. \E x \in Event : x.kind # "series" /\ evs' = Append(evs, x)
        BY <3>5, MessageType DEF Report
      <4> QED
        BY <1>1, <3>1, <4>1, <4>2, MuteStep
    <3>6. CASE MaintainFails
      <4>1. cmds' = cmds /\ \E x \in Event : x.kind # "series" /\ evs' = Append(evs, x)
        BY <3>6, MessageType DEF MaintainFails
      <4> QED
        BY <1>1, <3>1, <4>1, MuteStep
    <3>7. CASE Open \/ Maintain \/ Fold \/ DropRaw \/ DropRows
      <4>1. cmds' = cmds /\ evs' = evs
        BY <3>7 DEF Open, Maintain, Fold, DropRaw, DropRows
      <4> QED
        BY <1>1, <3>1, <4>1, MuteStep
    <3> QED
      BY <1>1, <1>3, <3>2, <3>3, <3>4, <3>5, <3>6, <3>7 DEF StoreStep
  <2> QED
    BY <1>1, <2>2, <2>3 DEF ChartState, ChartInv
<1> QED
  BY <1>2, <1>3

\* What the GUI takes from the queue is drawn, or draws nothing.
LEMMA DrainAsks ==
  ASSUME ChartState, Drain PROVE ChartInv'
<1>1. evs # <<>> /\ evs' = Tail(evs) /\ UNCHANGED <<thread, cmds, label, range, chosen, failed>>
  BY DEF Drain, OnSeries, OnQueryDone, OnMessage, Take, StoreIdle, guiVars
<1>2. evs \in Seq(Event)
  BY DEF ChartState, ScreenTypes
<1>3. /\ Head(evs) = evs[1] /\ Head(evs) \in Event /\ Len(evs) \in Nat
      /\ Len(Tail(evs)) = Len(evs) - 1
      /\ \A k \in 1..Len(evs) - 1 : Tail(evs)[k] = evs[k + 1]
  BY <1>1, <1>2, TakenEvent
<1>4. /\ pending' => pending
      /\ pending' => ~(evs[1].kind = "done" /\ evs[1].server = label)
  <2>1. CASE OnQueryDone
    BY <1>3, <2>1 DEF OnQueryDone
  <2>2. CASE OnSeries \/ OnMessage
    <3>1. evs[1].kind # "done" /\ pending' = pending
      BY <1>3, <2>2 DEF OnSeries, OnMessage, Take, guiVars
    <3> QED
      BY <3>1
  <2> QED
    BY <2>1, <2>2 DEF Drain
<1>5. ASSUME NEW m \in Metrics
      PROVE  series'[m] = IF OfMetric(evs, m, 1)
                          THEN [server |-> evs[1].server, span |-> evs[1].span] ELSE series[m]
  <2>1. CASE OnSeries
    <3>1. /\ Head(evs).kind = "series"
          /\ series' = [series EXCEPT ![Head(evs).metric] =
                          [server |-> Head(evs).server, span |-> Head(evs).span]]
          /\ DOMAIN series = Metrics
      BY <2>1 DEF OnSeries, Take, ChartState, ScreenTypes
    <3> QED
      BY <1>3, <3>1 DEF OfMetric
  <2>2. CASE OnQueryDone \/ OnMessage
    BY <1>3, <2>2 DEF OnQueryDone, OnMessage, Take, OfMetric, guiVars
  <2> QED
    BY <2>1, <2>2 DEF Drain
<1>6. \A m \in chosen : Drawn(evs, series, m, label, range) =>
        Drawn(evs', series', m, label, range)
  <2> SUFFICES ASSUME NEW m \in chosen, Drawn(evs, series, m, label, range)
               PROVE  Drawn(Tail(evs), series', m, label, range)
    BY <1>1
  <2>1. m \in Metrics
    BY DEF ChartState, StoreInv, TypeInv
  <2>2. series'[m] = IF OfMetric(evs, m, 1)
                     THEN [server |-> evs[1].server, span |-> evs[1].span] ELSE series[m]
    BY <1>5, <2>1
  <2> QED
    BY <1>1, <1>2, <2>2, DrawnTaken
<1>7. pending' /\ Finished(evs, label) => Finished(evs', label)
  <2> SUFFICES ASSUME pending', NEW k \in 1..Len(evs), evs[k].kind = "done", evs[k].server = label
               PROVE  Finished(Tail(evs), label)
    BY <1>1 DEF Finished
  <2>1. k # 1
    BY <1>4
  <2>2. k - 1 \in 1..Len(Tail(evs)) /\ Tail(evs)[k - 1] = evs[k]
    BY <1>3, <2>1
  <2> QED
    BY <2>2 DEF Finished
<1>8. OnItsWay => OnItsWay'
  BY <1>1, <1>4, <1>6, <1>7 DEF OnItsWay
<1> QED
  BY <1>1, <1>4, <1>8 DEF ChartState, ChartInv

LEMMA ChartInitially == Init => ChartInv
BY DEF Init, StoreInit, Fresh, ChartInv

LEMMA ChartNext == ChartState /\ [Next]_vars => ChartInv'
<1> SUFFICES ASSUME ChartState, [Next]_vars PROVE ChartInv'
  OBVIOUS
<1>1. CASE Start
  BY <1>1 DEF Start, Launch, guiVars, ChartState, ChartInv
<1>2. CASE Close
  BY <1>2 DEF Close, Exit, Restarted, ChartInv
<1>3. CASE StoreActs
  BY <1>3, ActsAsk
<1>4. CASE Screen
  BY <1>4, ScreenAsks
<1>5. CASE Drain
  BY <1>5, DrainAsks
<1>6. CASE OnSample
  BY <1>6, SampleAsks
<1>7. CASE (Tick /\ UNCHANGED guiVars) \/ UNCHANGED vars
  BY <1>7 DEF Tick, vars, storeVars, guiVars, ChartState, ChartInv, OnItsWay
<1> QED
  BY <1>1, <1>2, <1>3, <1>4, <1>5, <1>6, <1>7 DEF Next, Process

\* Whatever the user clicked ahead of the answers: when the store has answered
\* everything and the last request did not fail, the spinner is off and every
\* ticked metric is drawn for the server and the window on screen.
THEOREM ChartsSettle == Spec => []ChartSettles
<1>1. ChartState => ChartSettles
  <2> SUFFICES ASSUME ChartState, Running, cmds = <<>>, evs = <<>>, ~failed
               PROVE  /\ ~pending
                      /\ label # NoServer =>
                           \A m \in chosen : series[m] = [server |-> label, span |-> range]
    BY DEF ChartSettles
  <2>1. CASE label = NoServer
    BY <2>1 DEF ChartState, ChartInv
  <2>2. CASE label # NoServer
    <3>1. Len(cmds) = 0 /\ Len(evs) = 0 /\ ~Asking(cmds)
      BY DEF Asking
    <3>2. /\ \A m \in chosen : Drawn(evs, series, m, label, range)
          /\ pending => Finished(evs, label)
      BY <2>2, <3>1 DEF ChartState, ChartInv, OnItsWay
    <3>3. ~pending
      BY <3>1, <3>2 DEF Finished
    <3>4. ASSUME NEW m \in chosen PROVE series[m] = [server |-> label, span |-> range]
      <4>1. IsLast(evs, m, 0) /\ 0 \in 0..Len(evs)
        BY <3>1 DEF IsLast
      <4> QED
        BY <3>2, <4>1 DEF Drawn
    <3> QED
      BY <3>3, <3>4
  <2> QED
    BY <2>1, <2>2
<1>2. Init => ChartState
  BY Initially, TypedInitially, ChartInitially DEF ChartState
<1>3. ChartState /\ [Next]_vars => ChartState'
  BY Inductive, TypedNext, ChartNext DEF ChartState
<1> QED
  BY <1>1, <1>2, <1>3, PTL DEF Spec
=============================================================================
