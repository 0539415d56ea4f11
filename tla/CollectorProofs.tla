--------------------------- MODULE CollectorProofs ---------------------------
(***************************************************************************)
(* What Collector guarantees whatever the GUI sends, for any number of     *)
(* servers, connections and jobs.  TypeOK, BusyCount and InflightSound are *)
(* not inductive one by one (busy stays a natural number only because it   *)
(* counts the guards), so they are proved together, as IInv.               *)
(***************************************************************************)
EXTENDS Collector, FiniteSetTheorems, TLAPS

\* A task is where its kind of job can be, on a server once it is alive.
Sound(r) ==
  /\ r.pc \in {"announce", "register", "unregister", "quiet"} => r.op = "sql"
  /\ r.pc = "progress" => r.op = "dump"
  /\ r.pc \in {"release", "lower"} => r.op \in BusyOps
  /\ r.pc # "none" => r.server \in Server
Shape == \A j \in Jobs : Sound(job[j])
Hosted == session # 0 \/ at = "connecting" => server \in Server

IInv == TypeOK /\ SessionIsCurrent /\ Hosted /\ Shape /\ BusyCount /\ InflightSound

\* TypeOK by the parts a step can disturb: the channels, the switches, the
\* pool, the tasks and the rest.
Channels == cmds \in Seq(Command) /\ evs \in Seq(Event)
Switches == paused \in BOOLEAN /\ allowWrites \in BOOLEAN /\ dumpCancel \in BOOLEAN
Pools    == /\ sampler \in ConnId \cup {0}
            /\ opened \in SUBSET [epoch : Nat, server : Server, id : ConnId]
Place    == /\ at \in {"select", "connecting", "sampling"}
            /\ epoch \in Nat /\ session \in Nat /\ server \in Server \cup {NoServer}
            /\ needs \in SUBSET Heavy
Tasks    == job \in [Jobs -> Job] /\ busy \in Nat /\ inflight \in ConnId \cup {0}

\* Guarded and Registered, of a task record.
Guards(r) == r.pc \notin {"none", "lower"} /\ r.op \in BusyOps
Registers(r) == r.op = "sql" /\ r.pc \in {"work", "unregister"}

-----------------------------------------------------------------------------
LEMMA IdleIsJob == Idle \in Job /\ Sound(Idle) /\ ~Guards(Idle) /\ ~Registers(Idle)
  BY SizeAssumption DEF Idle, Job, Pcs, JobOps, QuietOps, BusyOps, Sound, Guards, Registers

LEMMA TypeParts == TypeOK <=> Channels /\ Switches /\ Pools /\ Place /\ Tasks
  BY Zenon DEF TypeOK, Channels, Switches, Pools, Place, Tasks

LEMMA Received ==
  ASSUME Channels, NEW ops, Receive(ops)
  PROVE  /\ cmds' \in Seq(Command) /\ at = "select"
         /\ Head(cmds) \in Command /\ Head(cmds).op \in ops
  BY DEF Channels, Receive

LEMMA CommandFields ==
  ASSUME NEW c \in Command
  PROVE  /\ c.op = "connect" => c.server \in Server
         /\ c.op = "views" => c.needs \in SUBSET Heavy
  BY DEF Command, PlainOps, QuietOps

LEMMA CommandSwitch ==
  ASSUME NEW c \in Command, c.op \in {"pause", "write"} PROVE c.on \in BOOLEAN
  BY DEF Command, PlainOps, QuietOps

LEMMA EventType ==
  ASSUME NEW s \in Seq(Event), NEW k \in LoopKinds \cup JobKinds, NEW e \in Nat,
         NEW j \in Jobs \cup {NoJob}
  PROVE  Append(s, Ev(k, e, j)) \in Seq(Event)
  BY DEF Ev, Event

\* The set the busy counter counts, and what happens to it when one task moves.
GuardSet == {j \in Jobs : Guarded(j)}

LEMMA GuardedRec == ASSUME NEW j \in Jobs PROVE Guarded(j) <=> Guards(job[j])
  BY DEF Guarded, Guards, Alive

\* One task moves and the loop does not.
LEMMA Update ==
  ASSUME IInv, NEW j \in Jobs, NEW r \in Job,
         job' = [job EXCEPT ![j] = r], UNCHANGED loopVars,
         Sound(r), r.epoch <= epoch
  PROVE  /\ job' \in [Jobs -> Job]
         /\ \A k \in Jobs : job'[k] = IF k = j THEN r ELSE job[k]
         /\ Place' /\ SessionIsCurrent' /\ Hosted' /\ Shape'
<1>1. job \in [Jobs -> Job] /\ job' \in [Jobs -> Job]
  BY DEF IInv, TypeOK
<1>2. \A k \in Jobs : job'[k] = IF k = j THEN r ELSE job[k]
  BY <1>1
<1>3. SessionIsCurrent'
  BY <1>1, <1>2 DEF IInv, SessionIsCurrent, loopVars
<1>4. Place' /\ Hosted'
  BY TypeParts DEF IInv, Place, Hosted, loopVars
<1>5. Shape'
  BY <1>1, <1>2 DEF IInv, Shape, Sound
<1> QED
  BY <1>1, <1>2, <1>3, <1>4, <1>5

\* It raises or drops no guard.
LEMMA SameCount ==
  ASSUME BusyCount, UNCHANGED busy, NEW j \in Jobs, NEW r,
         \A k \in Jobs : job'[k] = IF k = j THEN r ELSE job[k],
         Guards(r) <=> Guards(job[j])
  PROVE  BusyCount'
<1>1. \A k \in Jobs : Guarded(k)' <=> Guarded(k)
  BY DEF Guarded, Guards, Alive
<1> QED
  BY <1>1 DEF BusyCount

\* It neither takes the slot nor gives it up.
LEMMA SameSlot ==
  ASSUME InflightSound, UNCHANGED inflight, NEW j \in Jobs, NEW r,
         \A k \in Jobs : job'[k] = IF k = j THEN r ELSE job[k],
         Registers(job[j]) => Registers(r) /\ r.conn = job[j].conn
  PROVE  InflightSound'
<1>1. \A k \in Jobs : Registered(k) => Registered(k)' /\ job'[k].conn = job[k].conn
  BY DEF Registered, Registers
<1> QED
  BY <1>1 DEF InflightSound

-----------------------------------------------------------------------------
LEMMA InitHolds == Init => IInv
<1> SUFFICES ASSUME Init PROVE IInv
  OBVIOUS
<1>1. TypeOK
  <2>1. cmds \in Seq(Command) /\ evs \in Seq(Event)
    BY DEF Init
  <2>2. job \in [Jobs -> Job]
    BY IdleIsJob DEF Init
  <2>3. paused \in BOOLEAN /\ allowWrites \in BOOLEAN /\ dumpCancel \in BOOLEAN
    BY Zenon DEF Init
  <2> QED
    BY <2>1, <2>2, <2>3, NeedsAssumption DEF Init, TypeOK
<1>2. \A j \in Jobs : job[j] = Idle
  BY DEF Init
<1>3. SessionIsCurrent /\ Hosted
  BY <1>2 DEF Init, SessionIsCurrent, Hosted, Idle
<1>4. Shape
  BY <1>2, IdleIsJob DEF Shape
<1>5. BusyCount
  <2>1. {j \in Jobs : Guarded(j)} = {}
    BY <1>2 DEF Guarded, Alive, Idle
  <2> QED
    BY <2>1, FS_EmptySet DEF Init, BusyCount
<1>6. InflightSound
  BY DEF Init, InflightSound
<1> QED
  BY <1>1, <1>3, <1>4, <1>5, <1>6 DEF IInv

-----------------------------------------------------------------------------
(* The command loop. *)

\* A step that leaves the tasks, the busy count and the cancel slot alone.
LEMMA Calm ==
  ASSUME IInv, UNCHANGED <<busy, inflight, job>>
  PROVE  Shape' /\ BusyCount' /\ InflightSound'
  BY DEF IInv, Shape, Sound, BusyCount, Guarded, Alive, InflightSound, Registered

LEMMA SwitchesStay ==
  ASSUME Switches, UNCHANGED <<paused, allowWrites, dumpCancel>> PROVE Switches'
  BY Zenon DEF Switches

LEMMA PoolKeepsType ==
  ASSUME opened \in SUBSET [epoch : Nat, server : Server, id : ConnId],
         NEW e \in Nat, NEW srv \in Server, NEW id \in ConnId, GetConn(e, srv, id)
  PROVE  opened' \in SUBSET [epoch : Nat, server : Server, id : ConnId]
  BY DEF GetConn

LEMMA LoopCalmStep ==
  ASSUME IInv,
         \/ Connect \/ ConnectOk \/ ConnectFail \/ Disconnect
         \/ SetViews \/ SetPaused \/ SetWriteMode \/ Tune
         \/ Dropped \/ NothingToCancel \/ Refuse
         \/ Tick \/ SamplerGetConn \/ SampleOk \/ SampleFail
  PROVE  IInv'
<1>t. Channels /\ Switches /\ Pools /\ Place /\ Tasks /\ SessionIsCurrent /\ Hosted
  BY TypeParts DEF IInv
<1>u. UNCHANGED <<busy, inflight, job>>
  BY DEF Connect, ConnectOk, ConnectFail, Disconnect, SetViews, SetPaused,
         SetWriteMode, Tune, Dropped, NothingToCancel, Refuse, Tick, SamplerGetConn,
         SampleOk, SampleFail, shared, Receive, GetConn
<1>c. Tasks' /\ Shape' /\ BusyCount' /\ InflightSound'
  BY <1>t, <1>u, Calm DEF Tasks
<1>j. \A j \in Jobs : job'[j].epoch = job[j].epoch /\ job[j].epoch \in Nat /\ job[j].epoch <= epoch
  BY <1>t, <1>u DEF Tasks, Job, SessionIsCurrent
<1> SUFFICES Channels' /\ Switches' /\ Pools' /\ Place' /\ SessionIsCurrent' /\ Hosted'
  BY <1>c, TypeParts DEF IInv, TypeOK, Channels, Switches, Pools, Place, Tasks
<1>1. CASE Connect
  <2>1. cmds' \in Seq(Command) /\ Head(cmds).server \in Server
    BY <1>1, <1>t, Received, CommandFields DEF Connect
  <2>2. Channels'
    BY <1>1, <1>t, <2>1, EventType DEF Connect, Channels, Place, LoopKinds, LoopWords
  <2>3. Switches'
    BY <1>1, <1>t, SwitchesStay DEF Connect, shared
  <2>4. Pools' /\ Place'
    BY <1>1, <1>t, <2>1 DEF Connect, Pools, Place, poolVars
  <2>5. SessionIsCurrent' /\ Hosted'
    BY <1>1, <1>t, <1>j, <2>1 DEF Connect, SessionIsCurrent, Hosted, Place
  <2> QED
    BY <2>2, <2>3, <2>4, <2>5
<1>2. CASE ConnectOk
  <2>1. Channels'
    BY <1>2, <1>t, EventType DEF ConnectOk, Channels, Place, LoopKinds, LoopWords, Tell
  <2>2. Switches'
    BY <1>2, <1>t, Zenon DEF ConnectOk, Switches, shared
  <2>3. Pools' /\ Place'
    BY <1>2, <1>t, NeedsAssumption DEF ConnectOk, Pools, Place, poolVars
  <2>4. SessionIsCurrent' /\ Hosted'
    BY <1>2, <1>t, <1>j DEF ConnectOk, SessionIsCurrent, Hosted, Place
  <2> QED
    BY <2>1, <2>2, <2>3, <2>4
<1>3. CASE ConnectFail
  <2>1. Channels'
    BY <1>3, <1>t DEF ConnectFail, Channels, Place, LoopKinds, LoopWords, Tell, Ev, Event
  <2>2. Switches'
    BY <1>3, <1>t, SwitchesStay DEF ConnectFail, shared
  <2>3. Pools' /\ Place'
    BY <1>3, <1>t DEF ConnectFail, Pools, Place, poolVars
  <2>4. SessionIsCurrent' /\ Hosted'
    BY <1>3, <1>t, <1>j DEF ConnectFail, SessionIsCurrent, Hosted, Place
  <2> QED
    BY <2>1, <2>2, <2>3, <2>4
<1>4. CASE Disconnect
  <2>1. cmds' \in Seq(Command) /\ at = "select"
    BY <1>4, <1>t, Received DEF Disconnect
  <2>2. Channels'
    BY <1>4, <1>t, <2>1, EventType DEF Disconnect, Channels, Place, LoopKinds, LoopWords
  <2>3. Switches'
    BY <1>4, <1>t, SwitchesStay DEF Disconnect, shared
  <2>4. Pools' /\ Place'
    BY <1>4, <1>t DEF Disconnect, Pools, Place, poolVars
  <2>5. SessionIsCurrent' /\ Hosted'
    BY <1>4, <1>t, <1>j, <2>1 DEF Disconnect, SessionIsCurrent, Hosted, Place
  <2> QED
    BY <2>2, <2>3, <2>4, <2>5
<1>5. CASE SetViews
  <2>1. cmds' \in Seq(Command) /\ Head(cmds).needs \in SUBSET Heavy
    BY <1>5, <1>t, Received, CommandFields DEF SetViews
  <2>2. Switches'
    BY <1>5, <1>t, SwitchesStay DEF SetViews, shared
  <2>3. Channels' /\ Pools' /\ Place'
    BY <1>5, <1>t, <2>1 DEF SetViews, Channels, Pools, Place, poolVars
  <2>4. SessionIsCurrent' /\ Hosted'
    BY <1>5, <1>t, <1>j DEF SetViews, SessionIsCurrent, Hosted
  <2> QED
    BY <2>2, <2>3, <2>4
<1>6. CASE SetPaused \/ SetWriteMode
  <2>1. cmds' \in Seq(Command) /\ Head(cmds).on \in BOOLEAN
    BY <1>6, <1>t, Received, CommandSwitch DEF SetPaused, SetWriteMode
  <2>2. Switches'
    BY <1>6, <1>t, <2>1, Zenon DEF SetPaused, SetWriteMode, Switches, shared
  <2>3. Channels' /\ Pools' /\ Place'
    BY <1>6, <1>t, <2>1 DEF SetPaused, SetWriteMode, Channels, Pools, Place, poolVars
  <2>4. SessionIsCurrent' /\ Hosted'
    BY <1>6, <1>t, <1>j DEF SetPaused, SetWriteMode, SessionIsCurrent, Hosted
  <2> QED
    BY <2>2, <2>3, <2>4
<1>7. CASE Tune \/ Dropped \/ NothingToCancel
  <2>1. cmds' \in Seq(Command) /\ UNCHANGED <<evs, loopVars, shared, poolVars>>
    BY <1>7, <1>t, Received DEF Tune, Dropped, NothingToCancel
  <2>2. Switches'
    BY <1>t, <2>1, SwitchesStay DEF loopVars, shared
  <2>3. Channels' /\ Pools' /\ Place'
    BY <1>t, <2>1 DEF Channels, Pools, Place, loopVars, poolVars
  <2>4. SessionIsCurrent' /\ Hosted'
    BY <1>t, <1>j, <2>1 DEF SessionIsCurrent, Hosted, loopVars
  <2> QED
    BY <2>2, <2>3, <2>4
<1>8. CASE Refuse
  <2>1. cmds' \in Seq(Command)
    BY <1>8, <1>t, Received DEF Refuse
  <2>2. Channels'
    BY <1>8, <1>t, <2>1, EventType DEF Refuse, Channels, Place, LoopKinds, LoopWords, Tell
  <2>3. Switches'
    BY <1>8, <1>t, SwitchesStay DEF Refuse, loopVars, shared
  <2>4. Pools' /\ Place'
    BY <1>8, <1>t DEF Refuse, Pools, Place, loopVars, poolVars
  <2>5. SessionIsCurrent' /\ Hosted'
    BY <1>8, <1>t, <1>j DEF Refuse, SessionIsCurrent, Hosted, loopVars
  <2> QED
    BY <2>2, <2>3, <2>4, <2>5
<1>9. CASE Tick
  <2>1. Channels' /\ Pools' /\ Place'
    BY <1>9, <1>t DEF Tick, Channels, Pools, Place, poolVars
  <2>2. Switches'
    BY <1>9, <1>t, SwitchesStay DEF Tick, shared
  <2>3. SessionIsCurrent' /\ Hosted'
    BY <1>9, <1>t, <1>j DEF Tick, SessionIsCurrent, Hosted
  <2> QED
    BY <2>1, <2>2, <2>3
<1>10. CASE SamplerGetConn
  <2>1. PICK id \in ConnId : GetConn(session, server, id) /\ sampler' = id
    BY <1>10 DEF SamplerGetConn
  <2>2. server \in Server
    BY <1>10, <1>t DEF SamplerGetConn, SessionIsCurrent, Hosted
  <2>3. Pools'
    BY <1>t, <2>1, <2>2, PoolKeepsType DEF Pools, Place
  <2>4. Switches'
    BY <1>10, <1>t, SwitchesStay DEF SamplerGetConn, loopVars, shared
  <2>5. Channels' /\ Place'
    BY <1>10, <1>t DEF SamplerGetConn, Channels, Place, loopVars
  <2>6. SessionIsCurrent' /\ Hosted'
    BY <1>10, <1>t, <1>j DEF SamplerGetConn, SessionIsCurrent, Hosted, loopVars
  <2> QED
    BY <2>3, <2>4, <2>5, <2>6
<1>11. CASE SampleOk \/ SampleFail
  <2>1. evs' \in Seq(Event)
    <3>1. Tell("sample") \in Event /\ Tell("load") \in Event /\ Tell("error") \in Event
      BY <1>t DEF Tell, Ev, Event, LoopKinds, LoopWords, Place
    <3>2. \A h \in needs : Tell(h) \in Event
      BY <1>t DEF Tell, Ev, Event, LoopKinds, LoopWords, Place
    <3>3. CASE SampleOk
      <4>1. PICK heavy \in {<<>>} \cup {<<Tell(h)>> : h \in needs} :
              evs' = evs \o heavy \o <<Tell("sample"), Tell("load")>>
        BY <3>3 DEF SampleOk
      <4>2. heavy \in Seq(Event)
        <5>1. CASE heavy = <<>>
          BY <5>1
        <5>2. CASE heavy \in {<<Tell(h)>> : h \in needs}
          <6>1. PICK h \in needs : heavy = <<Tell(h)>>
            BY <5>2
          <6> QED
            BY <3>2, <6>1
        <5> QED
          BY <4>1, <5>1, <5>2
      <4>3. <<Tell("sample"), Tell("load")>> \in Seq(Event)
        BY <3>1
      <4> QED
        BY <1>t, <4>1, <4>2, <4>3 DEF Channels
    <3>4. CASE SampleFail
      BY <1>t, <3>1, <3>4 DEF SampleFail, Channels
    <3> QED
      BY <1>11, <3>3, <3>4
  <2>2. Channels' /\ Pools' /\ Place'
    BY <1>11, <1>t, <2>1 DEF SampleOk, SampleFail, Channels, Pools, Place
  <2>3. Switches'
    BY <1>11, <1>t, SwitchesStay DEF SampleOk, SampleFail, shared
  <2>4. SessionIsCurrent' /\ Hosted'
    BY <1>11, <1>t, <1>j DEF SampleOk, SampleFail, SessionIsCurrent, Hosted
  <2> QED
    BY <2>2, <2>3, <2>4
<1> QED
  BY <1>1, <1>2, <1>3, <1>4, <1>5, <1>6, <1>7, <1>8, <1>9, <1>10, <1>11

LEMMA FreshIsJob ==
  ASSUME Place, server \in Server, NEW op \in JobOps, NEW aim \in ConnId \cup {0}
  PROVE  /\ Fresh(op, aim) \in Job /\ Sound(Fresh(op, aim))
         /\ Fresh(op, aim).epoch = epoch /\ ~Registers(Fresh(op, aim))
         /\ Guards(Fresh(op, aim)) <=> op \in BusyOps
<1>1. Fresh(op, aim) \in Job
  BY SizeAssumption DEF Fresh, Job, Pcs, Place
<1>2. Sound(Fresh(op, aim)) /\ Fresh(op, aim).epoch = epoch
  BY DEF Fresh, Sound
<1>3. ~Registers(Fresh(op, aim)) /\ (Guards(Fresh(op, aim)) <=> op \in BusyOps)
  BY DEF Fresh, Registers, Guards
<1> QED
  BY <1>1, <1>2, <1>3

LEMMA SpawnStep ==
  ASSUME IInv, cmds' \in Seq(Command), NEW j \in Jobs, NEW op \in JobOps,
         NEW aim \in ConnId \cup {0}, Spawn(j, op, aim), dumpCancel' \in BOOLEAN
  PROVE  IInv'
<1>t. Channels /\ Switches /\ Pools /\ Place /\ Tasks /\ SessionIsCurrent /\ Hosted
  BY TypeParts DEF IInv
<1> DEFINE r == Fresh(op, aim)
<1>1. /\ job' = [job EXCEPT ![j] = r] /\ ~Alive(j) /\ session # 0
      /\ busy' = (IF op \in BusyOps THEN busy + 1 ELSE busy)
      /\ UNCHANGED <<loopVars, inflight, poolVars>>
  BY DEF Spawn
<1>2. server \in Server
  BY <1>1, <1>t DEF Hosted
<1>3. /\ r \in Job /\ Sound(r) /\ r.epoch = epoch /\ ~Registers(r)
      /\ Guards(r) <=> op \in BusyOps
  BY <1>2, <1>t, FreshIsJob
<1> HIDE DEF r
<1>4. \A k \in Jobs : job'[k] = IF k = j THEN r ELSE job[k]
  BY <1>1, <1>t DEF Tasks
<1>5. Channels'
  <2>1. Tell("busy_on") \in Event
    BY <1>t DEF Tell, Ev, Event, LoopKinds, LoopWords, Place
  <2> QED
    BY <1>t, <2>1 DEF Spawn, Channels
<1>6. Switches'
  BY <1>1, <1>t, Zenon DEF Switches, loopVars
<1>7. Pools' /\ Place' /\ Tasks'
  BY <1>1, <1>3, <1>t DEF Pools, Place, Tasks, loopVars, poolVars
<1>8. SessionIsCurrent' /\ Hosted'
  BY <1>1, <1>3, <1>4, <1>t DEF SessionIsCurrent, Hosted, Place, loopVars
<1>9. Shape'
  BY <1>3, <1>4 DEF IInv, Shape
<1>10. BusyCount'
  <2>1. GuardSet' = IF op \in BusyOps THEN GuardSet \cup {j} ELSE GuardSet
    BY <1>1, <1>3, <1>4, GuardedRec DEF GuardSet, Guarded, Guards, Alive
  <2>2. IsFiniteSet(GuardSet) /\ j \notin GuardSet /\ busy = Cardinality(GuardSet)
    BY <1>1, JobsAssumption, FS_Subset DEF GuardSet, Guarded, IInv, BusyCount
  <2>3. Cardinality(GuardSet \cup {j}) = Cardinality(GuardSet) + 1
    BY <2>2, FS_AddElement
  <2>4. busy' = Cardinality(GuardSet')
    BY <1>1, <2>1, <2>2, <2>3
  <2> QED
    BY <2>4 DEF BusyCount, GuardSet
<1>11. InflightSound'
  <2>1. \A k \in Jobs : Registered(k) => k # j /\ Registered(k)' /\ job'[k].conn = job[k].conn
    BY <1>1, <1>4 DEF Registered, Alive
  <2> QED
    BY <1>1, <2>1 DEF IInv, InflightSound
<1> QED
  BY <1>5, <1>6, <1>7, <1>8, <1>9, <1>10, <1>11, TypeParts
  DEF IInv, TypeOK, Channels, Switches, Pools, Place, Tasks

LEMMA SpawningStep ==
  ASSUME IInv, NEW j \in Jobs,
         StartJob(j) \/ RunDump(j) \/ CancelSql(j) \/ RunGated(j)
  PROVE  IInv'
<1>t. Channels /\ Switches /\ Tasks
  BY TypeParts DEF IInv
<1>1. CASE StartJob(j)
  <2>1. cmds' \in Seq(Command) /\ Head(cmds).op \in JobOps
    BY <1>1, <1>t, Received DEF StartJob
  <2>2. Spawn(j, Head(cmds).op, 0) /\ UNCHANGED dumpCancel
    BY <1>1 DEF StartJob
  <2>3. dumpCancel' \in BOOLEAN
    BY <1>t, <2>2, Zenon DEF Switches
  <2> QED
    BY <2>1, <2>2, <2>3, SpawnStep
<1>2. CASE RunDump(j)
  <2>1. cmds' \in Seq(Command)
    BY <1>2, <1>t, Received DEF RunDump
  <2>2. Spawn(j, "dump", 0) /\ dumpCancel' \in BOOLEAN /\ "dump" \in JobOps
    BY <1>2 DEF RunDump, JobOps, BusyOps
  <2> QED
    BY <2>1, <2>2, SpawnStep
<1>3. CASE CancelSql(j)
  <2>1. cmds' \in Seq(Command)
    BY <1>3, <1>t, Received DEF CancelSql
  <2>2. Spawn(j, "cancelsql", inflight) /\ UNCHANGED dumpCancel /\ "cancelsql" \in JobOps
    BY <1>3 DEF CancelSql, JobOps
  <2>3. dumpCancel' \in BOOLEAN
    BY <1>t, <2>2, Zenon DEF Switches
  <2> QED
    BY <1>t, <2>1, <2>2, <2>3, SpawnStep DEF Tasks
<1>4. CASE RunGated(j)
  <2>1. cmds' \in Seq(Command) /\ Head(cmds).op \in JobOps
    BY <1>4, <1>t, Received DEF RunGated, JobOps, BusyOps
  <2>2. Spawn(j, Head(cmds).op, 0) /\ UNCHANGED dumpCancel
    BY <1>4 DEF RunGated
  <2>3. dumpCancel' \in BOOLEAN
    BY <1>t, <2>2, Zenon DEF Switches
  <2> QED
    BY <2>1, <2>2, <2>3, SpawnStep
<1> QED
  BY <1>1, <1>2, <1>3, <1>4

\* CancelDump only touches told and the flag.
LEMMA CancelDumpStep == ASSUME IInv, CancelDump PROVE IInv'
<1>t. Channels /\ Switches /\ Pools /\ Place /\ Tasks /\ SessionIsCurrent /\ Hosted
  BY TypeParts DEF IInv
<1>1. cmds' \in Seq(Command) /\ UNCHANGED <<evs, loopVars, busy, inflight, poolVars>>
  BY <1>t, Received DEF CancelDump
<1>2. \A k \in Jobs : job'[k] \in {job[k], [job[k] EXCEPT !.told = TRUE]} /\ job'[k] \in Job
  <2> SUFFICES ASSUME NEW k \in Jobs
               PROVE  job'[k] \in {job[k], [job[k] EXCEPT !.told = TRUE]} /\ job'[k] \in Job
    OBVIOUS
  <2>1. job[k] \in Job /\ [job[k] EXCEPT !.told = TRUE] \in Job
    BY <1>t DEF Tasks, Job
  <2>2. job'[k] \in {job[k], [job[k] EXCEPT !.told = TRUE]}
    BY DEF CancelDump
  <2> QED
    BY <2>1, <2>2
<1>3. \A k \in Jobs : /\ job'[k].pc = job[k].pc /\ job'[k].op = job[k].op
                     /\ job'[k].epoch = job[k].epoch /\ job'[k].conn = job[k].conn
                     /\ job'[k].server = job[k].server
  BY <1>2, <1>t DEF Tasks, Job
<1>4. Switches'
  BY <1>1, <1>t, Zenon DEF CancelDump, Switches, loopVars
<1>5. job' \in [Jobs -> Job]
  BY <1>2 DEF CancelDump
<1>6. Channels' /\ Pools' /\ Place' /\ Tasks'
  BY <1>1, <1>5, <1>t DEF Channels, Pools, Place, Tasks, loopVars, poolVars
<1>7. SessionIsCurrent' /\ Hosted'
  BY <1>1, <1>3, <1>t DEF SessionIsCurrent, Hosted, loopVars
<1>8. Shape' /\ InflightSound'
  BY <1>1, <1>3 DEF IInv, Shape, Sound, InflightSound, Registered
<1>9. BusyCount'
  <2>1. \A k \in Jobs : Guarded(k)' <=> Guarded(k)
    BY <1>3 DEF Guarded, Alive
  <2> QED
    BY <1>1, <2>1 DEF IInv, BusyCount
<1> QED
  BY <1>4, <1>6, <1>7, <1>8, <1>9, TypeParts
  DEF IInv, TypeOK, Channels, Switches, Pools, Place, Tasks

-----------------------------------------------------------------------------
(* The jobs. *)

\* A step of job j that leaves the loop, the switches, the count and the slot
\* alone, and drops or raises no guard.
LEMMA MoveStep ==
  ASSUME IInv, NEW j \in Jobs, NEW r \in Job,
         job' = [job EXCEPT ![j] = r],
         UNCHANGED <<loopVars, shared>>, Channels', Pools',
         Sound(r), r.epoch <= epoch,
         Guards(r) <=> Guards(job[j]),
         Registers(job[j]) => Registers(r) /\ r.conn = job[j].conn
  PROVE  IInv'
<1>1. Switches /\ Tasks
  BY TypeParts DEF IInv
<1>2. UNCHANGED loopVars /\ UNCHANGED busy /\ UNCHANGED inflight
  BY DEF shared
<1>3. /\ job' \in [Jobs -> Job] /\ \A k \in Jobs : job'[k] = IF k = j THEN r ELSE job[k]
      /\ Place' /\ SessionIsCurrent' /\ Hosted' /\ Shape'
  BY <1>2, Update
<1>4. BusyCount'
  BY <1>2, <1>3, SameCount DEF IInv
<1>5. InflightSound'
  BY <1>2, <1>3, SameSlot DEF IInv
<1>6. Switches'
  BY <1>1, SwitchesStay DEF loopVars, shared
<1>7. Tasks'
  BY <1>1, <1>2, <1>3 DEF Tasks
<1> QED
  BY <1>3, <1>4, <1>5, <1>6, <1>7, TypeParts
  DEF IInv, TypeOK, Channels, Switches, Pools, Place, Tasks

\* What is known of a job, its record and its next positions.
LEMMA JobFacts ==
  ASSUME IInv, NEW j \in Jobs
  PROVE  /\ job[j] \in Job /\ Sound(job[j]) /\ job[j].epoch <= epoch
         /\ epoch \in Nat /\ job \in [Jobs -> Job]
  BY DEF IInv, TypeOK, SessionIsCurrent, Shape

LEMMA Moved ==
  ASSUME NEW r \in Job, NEW pc \in Pcs
  PROVE  /\ [r EXCEPT !.pc = pc] \in Job
         /\ [r EXCEPT !.pc = pc].pc = pc
         /\ [r EXCEPT !.pc = pc].op = r.op /\ [r EXCEPT !.pc = pc].epoch = r.epoch
         /\ [r EXCEPT !.pc = pc].server = r.server /\ [r EXCEPT !.pc = pc].conn = r.conn
  BY DEF Job

\* Where a task goes when it has spoken, or kept silent.
LEMMA SpokenRec ==
  ASSUME IInv, NEW j \in Jobs, job[j].pc \in Speaks
  PROVE  /\ Goes(j, Spoken(j)) \in Job /\ Sound(Goes(j, Spoken(j)))
         /\ Goes(j, Spoken(j)).epoch <= epoch
         /\ Guards(Goes(j, Spoken(j))) <=> Guards(job[j])
         /\ ~Registers(job[j])
<1>1. job[j] \in Job /\ Sound(job[j]) /\ job[j].epoch <= epoch /\ epoch \in Nat
  BY JobFacts
<1>2. ~Registers(job[j])
  BY DEF Registers, Speaks
<1>3. Spoken(j) \in {"acquire", "work", "quiet", "release", "none"}
  BY DEF Spoken
<1>4. CASE Spoken(j) = "none"
  <2>1. Goes(j, Spoken(j)) = Idle
    BY <1>4 DEF Goes
  <2>2. job[j].op \notin BusyOps
    BY <1>1, <1>4 DEF Spoken, Speaks, BusyOps
  <2> QED
    BY <1>1, <1>2, <2>1, <2>2, IdleIsJob DEF Guards, Idle
<1>5. CASE Spoken(j) # "none"
  <2>1. Goes(j, Spoken(j)) = [job[j] EXCEPT !.pc = Spoken(j)]
    BY <1>5 DEF Goes
  <2>2. Spoken(j) \in Pcs
    BY <1>3 DEF Pcs
  <2>3. /\ Goes(j, Spoken(j)).pc = Spoken(j) /\ Goes(j, Spoken(j)).op = job[j].op
        /\ Goes(j, Spoken(j)).epoch = job[j].epoch /\ Goes(j, Spoken(j)).server = job[j].server
        /\ Goes(j, Spoken(j)) \in Job
    BY <1>1, <2>1, <2>2, Moved
  <2>4. /\ Spoken(j) = "quiet" => job[j].op = "sql"
        /\ Spoken(j) = "release" => job[j].op \in BusyOps
    BY <1>1, <1>5 DEF Spoken, Sound, BusyOps
  <2>5. Sound(Goes(j, Spoken(j)))
    BY <1>1, <1>3, <2>3, <2>4, <1>5 DEF Sound, Speaks
  <2>6. Guards(Goes(j, Spoken(j))) <=> Guards(job[j])
    BY <1>3, <1>5, <2>3 DEF Guards, Speaks
  <2> QED
    BY <1>1, <1>2, <2>3, <2>5, <2>6
<1> QED
  BY <1>4, <1>5

\* The steps of a task that says something or keeps silent.
LEMMA SpeakingStep ==
  ASSUME IInv, NEW j \in Jobs, CheckEpoch(j) \/ Emit(j)
  PROVE  IInv'
<1>t. Channels /\ Pools
  BY TypeParts DEF IInv
<1>j. job[j] \in Job /\ Sound(job[j]) /\ job[j].epoch <= epoch /\ job \in [Jobs -> Job]
  BY JobFacts
<1>s. job[j].pc \in Speaks
  BY DEF CheckEpoch, Emit
<1> DEFINE next == Goes(j, Spoken(j))
<1>n. /\ next \in Job /\ Sound(next) /\ next.epoch <= epoch
      /\ Guards(next) <=> Guards(job[j])
      /\ ~Registers(job[j])
  BY <1>s, SpokenRec
<1> HIDE DEF next
<1>1. CASE CheckEpoch(j)
  <2>1. UNCHANGED <<loopVars, shared>> /\ Channels' /\ Pools'
    BY <1>1, <1>t DEF CheckEpoch, Channels, Pools, poolVars
  <2>2. CASE job[j].epoch = epoch
    <3> DEFINE r == [job[j] EXCEPT !.armed = TRUE]
    <3>1. job' = [job EXCEPT ![j] = r]
      BY <1>1, <2>2, <1>j DEF CheckEpoch
    <3>2. /\ r \in Job /\ r.pc = job[j].pc /\ r.op = job[j].op /\ r.epoch = job[j].epoch
          /\ r.server = job[j].server /\ r.conn = job[j].conn
      BY <1>j DEF Job
    <3> HIDE DEF r
    <3>3. Sound(r) /\ (Guards(r) <=> Guards(job[j]))
      BY <1>j, <3>2 DEF Sound, Guards
    <3> QED
      BY <1>j, <1>n, <2>1, <3>1, <3>2, <3>3, MoveStep
  <2>3. CASE job[j].epoch # epoch
    <3>1. job' = [job EXCEPT ![j] = next]
      BY <1>1, <2>3, <1>j DEF CheckEpoch, next
    <3> QED
      BY <1>n, <2>1, <3>1, MoveStep
  <2> QED
    BY <2>2, <2>3
<1>2. CASE Emit(j)
  <2> DEFINE r == [next EXCEPT !.armed = FALSE]
  <2>1. UNCHANGED <<loopVars, shared>> /\ Pools' /\ job' = [job EXCEPT ![j] = r]
    BY <1>2, <1>t DEF Emit, Pools, poolVars, next
  <2>2. Words(j) \in JobKinds
    BY DEF Words, Report, JobKinds
  <2>3. Channels'
    <3>1. job[j].epoch \in Nat
      BY <1>j DEF Job
    <3>2. evs' \in Seq(Event) /\ cmds' = cmds
      BY <1>2, <1>t, <2>2, <3>1, EventType DEF Emit, Channels
    <3> QED
      BY <1>t, <3>2 DEF Channels
  <2>4. /\ r \in Job /\ r.pc = next.pc /\ r.op = next.op /\ r.epoch = next.epoch
        /\ r.server = next.server
    BY <1>n DEF Job
  <2> HIDE DEF r
  <2>5. Sound(r) /\ (Guards(r) <=> Guards(job[j])) /\ r.epoch <= epoch
    BY <1>n, <2>4 DEF Sound, Guards
  <2> QED
    BY <1>n, <2>1, <2>3, <2>4, <2>5, MoveStep
<1> QED
  BY <1>1, <1>2

\* The steps that only move a task, up to the end of its statements.
LEMMA WorkingStep ==
  ASSUME IInv, NEW j \in Jobs,
         \/ Acquire(j) \/ AcquireFail(j) \/ DumpBatch(j) \/ DumpEnds(j) \/ Return(j)
         \/ \E ok \in BOOLEAN : WorkEnds(j, ok)
  PROVE  IInv'
<1>t. Channels /\ Pools /\ Place
  BY TypeParts DEF IInv
<1>j. job[j] \in Job /\ Sound(job[j]) /\ job[j].epoch <= epoch /\ job \in [Jobs -> Job]
  BY JobFacts
<1>u. UNCHANGED <<cmds, evs, loopVars, shared>> /\ Channels'
  BY <1>t DEF Acquire, AcquireFail, DumpBatch, DumpEnds, Return, WorkEnds, JobStep, Channels
<1>1. CASE Acquire(j)
  <2>1. PICK id \in ConnId :
          /\ GetConn(job[j].epoch, job[j].server, id)
          /\ job' = [job EXCEPT ![j].conn = id,
                                ![j].pc = IF job[j].op = "sql" THEN "register" ELSE "work"]
    BY <1>1 DEF Acquire
  <2> DEFINE r == [job[j] EXCEPT !.conn = id,
                                 !.pc = IF job[j].op = "sql" THEN "register" ELSE "work"]
  <2>2. job[j].pc = "acquire" /\ UNCHANGED sampler /\ job' = [job EXCEPT ![j] = r]
    BY <1>1, <1>j, <2>1 DEF Acquire, JobStep
  <2>3. /\ r \in Job /\ r.pc = (IF job[j].op = "sql" THEN "register" ELSE "work")
        /\ r.op = job[j].op /\ r.epoch = job[j].epoch /\ r.server = job[j].server
    BY <1>j DEF Job, Pcs
  <2> HIDE DEF r
  <2>4. Sound(r) /\ (Guards(r) <=> Guards(job[j])) /\ ~Registers(job[j])
    BY <1>j, <2>2, <2>3 DEF Sound, Guards, Registers
  <2>5. Pools'
    <3>1. job[j].epoch \in Nat /\ job[j].server \in Server
      BY <1>j, <2>2 DEF Job, Sound
    <3> QED
      BY <1>t, <2>1, <2>2, <3>1, PoolKeepsType DEF Pools
  <2> QED
    BY <1>j, <1>u, <2>2, <2>3, <2>4, <2>5, MoveStep
<1>2. CASE AcquireFail(j)
  <2> DEFINE r == [job[j] EXCEPT !.ok = ~Failed(j, FALSE), !.pc = "report"]
  <2>1. job[j].pc = "acquire" /\ Pools' /\ job' = [job EXCEPT ![j] = r]
    BY <1>2, <1>j, <1>t DEF AcquireFail, JobStep, Pools, poolVars
  <2>2. /\ r \in Job /\ r.pc = "report"
        /\ r.op = job[j].op /\ r.epoch = job[j].epoch /\ r.server = job[j].server
    BY <1>j DEF Job, Pcs, Failed
  <2> HIDE DEF r
  <2>3. Sound(r) /\ (Guards(r) <=> Guards(job[j])) /\ ~Registers(job[j])
    BY <1>j, <2>1, <2>2 DEF Sound, Guards, Registers
  <2> QED
    BY <1>j, <1>u, <2>1, <2>2, <2>3, MoveStep
<1>3. CASE DumpBatch(j)
  <2> DEFINE r == [job[j] EXCEPT !.left = @ - 1, !.pc = "progress"]
  <2>1. /\ job[j].pc = "work" /\ job[j].op = "dump" /\ job[j].left > 0
        /\ Pools' /\ job' = [job EXCEPT ![j] = r]
    BY <1>3, <1>j, <1>t DEF DumpBatch, JobStep, Pools, poolVars
  <2>2. /\ r \in Job /\ r.pc = "progress"
        /\ r.op = job[j].op /\ r.epoch = job[j].epoch /\ r.server = job[j].server
    <3>1. job[j].left \in 0..Batches
      BY <1>j DEF Job
    <3>2. job[j].left - 1 \in 0..Batches
      BY <2>1, <3>1, SizeAssumption
    <3> QED
      BY <1>j, <3>2 DEF Job, Pcs
  <2> HIDE DEF r
  <2>3. Sound(r) /\ (Guards(r) <=> Guards(job[j])) /\ ~Registers(job[j])
    BY <1>j, <2>1, <2>2 DEF Sound, Guards, Registers
  <2> QED
    BY <1>j, <1>u, <2>1, <2>2, <2>3, MoveStep
<1>4. CASE DumpEnds(j)
  <2> DEFINE r == [job[j] EXCEPT !.killed = FALSE, !.pc = "return"]
  <2>1. /\ job[j].pc = "work" /\ job[j].op = "dump"
        /\ Pools' /\ job' = [job EXCEPT ![j] = r]
    BY <1>4, <1>j, <1>t DEF DumpEnds, JobStep, Pools, poolVars
  <2>2. /\ r \in Job /\ r.pc = "return"
        /\ r.op = job[j].op /\ r.epoch = job[j].epoch /\ r.server = job[j].server
    BY <1>j DEF Job, Pcs
  <2> HIDE DEF r
  <2>3. Sound(r) /\ (Guards(r) <=> Guards(job[j])) /\ ~Registers(job[j])
    BY <1>j, <2>1, <2>2 DEF Sound, Guards, Registers
  <2> QED
    BY <1>j, <1>u, <2>1, <2>2, <2>3, MoveStep
<1>5. CASE Return(j)
  <2>1. job[j].pc = "return" /\ Pools' /\ ~Registers(job[j])
    BY <1>5, <1>t DEF Return, JobStep, Pools, poolVars, Registers
  <2>2. CASE job[j].op \in {"kill", "cancelsql"} /\ job[j].ok
    <3>1. job' = [job EXCEPT ![j] = Idle]
      BY <1>5, <2>2 DEF Return
    <3>2. ~Guards(job[j]) /\ Idle.epoch <= epoch
      BY <1>t, <2>2 DEF Guards, BusyOps, Idle, Place
    <3>3. Idle \in Job /\ Sound(Idle) /\ (Guards(Idle) <=> Guards(job[j]))
      BY <3>2, IdleIsJob
    <3> QED
      BY <1>u, <2>1, <3>1, <3>2, <3>3, MoveStep
  <2>3. CASE ~(job[j].op \in {"kill", "cancelsql"} /\ job[j].ok)
    <3> DEFINE r == [job[j] EXCEPT !.conn = 0, !.pc = "report"]
    <3>1. job' = [job EXCEPT ![j] = r]
      BY <1>5, <2>3 DEF Return
    <3>2. /\ r \in Job /\ r.pc = "report"
          /\ r.op = job[j].op /\ r.epoch = job[j].epoch /\ r.server = job[j].server
      BY <1>j DEF Job, Pcs
    <3> HIDE DEF r
    <3>3. Sound(r) /\ (Guards(r) <=> Guards(job[j]))
      BY <1>j, <2>1, <3>2 DEF Sound, Guards
    <3> QED
      BY <1>j, <1>u, <2>1, <3>1, <3>2, <3>3, MoveStep
  <2> QED
    BY <2>2, <2>3
<1>6. ASSUME NEW ok \in BOOLEAN, WorkEnds(j, ok) PROVE IInv'
  <2> DEFINE to == IF job[j].op = "sql" THEN "unregister" ELSE "return"
             r  == [job[j] EXCEPT !.ok = ~Failed(j, ok), !.killed = FALSE, !.pc = to]
  <2>1. /\ job[j].pc = "work" /\ Pools' /\ job' = [job EXCEPT ![j] = r]
    BY <1>6, <1>j, <1>t DEF WorkEnds, JobStep, Pools, poolVars
  <2>2. /\ r \in Job /\ r.pc = to /\ r.conn = job[j].conn
        /\ r.op = job[j].op /\ r.epoch = job[j].epoch /\ r.server = job[j].server
    BY <1>j DEF Job, Pcs, Failed
  <2> HIDE DEF r
  <2>3. Sound(r) /\ (Guards(r) <=> Guards(job[j])) /\ (Registers(job[j]) => Registers(r))
    BY <1>j, <2>1, <2>2 DEF Sound, Guards, Registers
  <2> QED
    BY <1>j, <1>u, <2>1, <2>2, <2>3, MoveStep
<1> QED
  BY <1>1, <1>2, <1>3, <1>4, <1>5, <1>6

\* Register fills the slot, Unregister empties it if it is still its own.
LEMMA SlotStep ==
  ASSUME IInv, NEW j \in Jobs, Register(j) \/ Unregister(j)
  PROVE  IInv'
<1>t. Channels /\ Switches /\ Pools /\ Tasks
  BY TypeParts DEF IInv
<1>j. job[j] \in Job /\ Sound(job[j]) /\ job[j].epoch <= epoch /\ job \in [Jobs -> Job]
  BY JobFacts
<1> DEFINE to == IF job[j].pc = "register" THEN "work" ELSE "return"
           r  == [job[j] EXCEPT !.pc = to]
<1>1. /\ job[j].pc \in {"register", "unregister"} /\ job[j].op = "sql"
      /\ UNCHANGED loopVars /\ UNCHANGED busy /\ UNCHANGED <<cmds, evs, poolVars, dumpCancel>>
      /\ job' = [job EXCEPT ![j] = r]
  BY <1>j DEF Register, Unregister, JobStep, Sound
<1>2. /\ r \in Job /\ r.pc = to /\ r.conn = job[j].conn
      /\ r.op = job[j].op /\ r.epoch = job[j].epoch /\ r.server = job[j].server
  BY <1>j DEF Job, Pcs
<1> HIDE DEF r
<1>3. Sound(r) /\ (Guards(r) <=> Guards(job[j]))
  BY <1>j, <1>1, <1>2 DEF Sound, Guards
<1>4. /\ job' \in [Jobs -> Job] /\ \A k \in Jobs : job'[k] = IF k = j THEN r ELSE job[k]
      /\ Place' /\ SessionIsCurrent' /\ Hosted' /\ Shape'
  BY <1>j, <1>1, <1>2, <1>3, Update
<1>5. BusyCount'
  BY <1>1, <1>3, <1>4, SameCount DEF IInv
<1>6. inflight' \in ConnId \cup {0}
  BY <1>j, <1>t DEF Register, Unregister, Job, Tasks
<1>7. InflightSound'
  <2>1. CASE Register(j)
    <3>1. inflight' = r.conn /\ Registered(j)'
      BY <1>1, <1>2, <1>4, <2>1 DEF Register, Registered, JobStep
    <3> QED
      BY <1>4, <3>1 DEF InflightSound
  <2>2. CASE Unregister(j)
    <3> SUFFICES ASSUME inflight' # 0
                 PROVE  \E k \in Jobs : Registered(k)' /\ job'[k].conn = inflight'
      BY DEF InflightSound
    <3>1. inflight' = inflight /\ inflight # job[j].conn
      BY <2>2 DEF Unregister
    <3>2. PICK k \in Jobs : Registered(k) /\ job[k].conn = inflight
      BY <3>1 DEF IInv, InflightSound
    <3>3. Registered(k)' /\ job'[k].conn = inflight'
      BY <1>4, <3>1, <3>2 DEF Registered
    <3> QED
      BY <3>3
  <2> QED
    BY <2>1, <2>2
<1>8. Channels' /\ Pools' /\ Tasks'
  BY <1>1, <1>4, <1>6, <1>t DEF Channels, Pools, Tasks, poolVars
<1>9. Switches'
  BY <1>1, <1>t, SwitchesStay DEF loopVars
<1> QED
  BY <1>4, <1>5, <1>7, <1>8, <1>9, TypeParts
  DEF IInv, TypeOK, Channels, Switches, Pools, Place, Tasks

\* A cancel marks the statements it interrupts and moves on.
LEMMA KillQueryStep == ASSUME IInv, NEW j \in Jobs, KillQuery(j) PROVE IInv'
<1>t. Channels /\ Switches /\ Pools /\ Place /\ Tasks /\ SessionIsCurrent /\ Hosted
  BY TypeParts DEF IInv
<1>j. job[j] \in Job /\ Sound(job[j]) /\ job[j].epoch <= epoch /\ job \in [Jobs -> Job]
  BY JobFacts
<1>u. /\ UNCHANGED <<cmds, evs, loopVars, shared, poolVars>>
      /\ job[j].pc = "work" /\ job[j].op = "cancelsql"
  BY DEF KillQuery, JobStep
<1>1. \A k \in Jobs : /\ job'[k] \in Job
                     /\ job'[k].op = job[k].op /\ job'[k].epoch = job[k].epoch
                     /\ job'[k].conn = job[k].conn /\ job'[k].server = job[k].server
                     /\ job'[k].pc = IF k = j THEN "return" ELSE job[k].pc
  <2> SUFFICES ASSUME NEW k \in Jobs
               PROVE  /\ job'[k] \in Job
                      /\ job'[k].op = job[k].op /\ job'[k].epoch = job[k].epoch
                      /\ job'[k].conn = job[k].conn /\ job'[k].server = job[k].server
                      /\ job'[k].pc = IF k = j THEN "return" ELSE job[k].pc
    OBVIOUS
  <2>1. job'[k] \in IF k = j
                      THEN {[job[j] EXCEPT !.pc = "return"],
                            [job[j] EXCEPT !.ok = FALSE, !.pc = "return"]}
                      ELSE {job[k], [job[k] EXCEPT !.killed = TRUE]}
    BY <1>j DEF KillQuery
  <2>2. job[k] \in Job
    BY <1>j
  <2>3. CASE k = j
    <3>1. \/ job'[k] = [job[k] EXCEPT !.pc = "return"]
          \/ job'[k] = [job[k] EXCEPT !.ok = FALSE, !.pc = "return"]
      BY <2>1, <2>3
    <3> QED
      BY <2>2, <2>3, <3>1 DEF Job, Pcs
  <2>4. CASE k # j
    <3>1. job'[k] = job[k] \/ job'[k] = [job[k] EXCEPT !.killed = TRUE]
      BY <2>1, <2>4
    <3> QED
      BY <2>2, <2>4, <3>1 DEF Job
  <2> QED
    BY <2>3, <2>4
<1>2. job' \in [Jobs -> Job]
  <2>1. job' = [k \in Jobs |-> job'[k]]
    BY <1>j DEF KillQuery
  <2> QED
    BY <1>1, <2>1
<1>3. Channels' /\ Pools' /\ Place' /\ Tasks'
  BY <1>2, <1>t, <1>u DEF Channels, Pools, Place, Tasks, loopVars, shared, poolVars
<1>4. Switches'
  BY <1>t, <1>u, SwitchesStay DEF loopVars, shared
<1>5. SessionIsCurrent' /\ Hosted'
  BY <1>1, <1>t, <1>u DEF SessionIsCurrent, Hosted, loopVars
<1>6. Shape'
  BY <1>1, <1>u DEF IInv, Shape, Sound
<1>7. BusyCount'
  <2>1. \A k \in Jobs : Guarded(k)' <=> Guarded(k)
    BY <1>1, <1>u DEF Guarded, Alive, BusyOps
  <2> QED
    BY <1>u, <2>1 DEF IInv, BusyCount, shared
<1>8. InflightSound'
  <2>1. \A k \in Jobs : Registered(k) => Registered(k)' /\ job'[k].conn = job[k].conn
    BY <1>1, <1>u DEF Registered
  <2> QED
    BY <1>u, <2>1 DEF IInv, InflightSound, shared
<1> QED
  BY <1>3, <1>4, <1>5, <1>6, <1>7, <1>8, TypeParts
  DEF IInv, TypeOK, Channels, Switches, Pools, Place, Tasks

\* The end of a guard: the count goes down with it.
LEMMA ReleaseStep == ASSUME IInv, NEW j \in Jobs, Release(j) PROVE IInv'
<1>t. Channels /\ Switches /\ Pools /\ Tasks
  BY TypeParts DEF IInv
<1>j. job[j] \in Job /\ Sound(job[j]) /\ job[j].epoch <= epoch /\ job \in [Jobs -> Job]
  BY JobFacts
<1>u. /\ job[j].pc = "release" /\ job[j].op \in BusyOps /\ busy' = busy - 1
      /\ UNCHANGED loopVars /\ UNCHANGED inflight /\ UNCHANGED <<cmds, evs, poolVars, dumpCancel>>
  BY <1>j DEF Release, JobStep, Sound
<1> DEFINE r == IF busy = 1 THEN [job[j] EXCEPT !.pc = "lower"] ELSE Idle
<1>1. job' = [job EXCEPT ![j] = r]
  BY <1>j DEF Release
<1>2. r \in Job /\ Sound(r) /\ r.epoch <= epoch /\ ~Guards(r)
  <2>1. CASE busy = 1
    <3>1. /\ r \in Job /\ r.pc = "lower" /\ r.op = job[j].op
          /\ r.epoch = job[j].epoch /\ r.server = job[j].server
      BY <1>j, <2>1 DEF Job, Pcs
    <3> QED
      BY <1>j, <1>u, <3>1 DEF Sound, Guards
  <2>2. CASE busy # 1
    <3>1. r = Idle /\ Idle.epoch = 0 /\ epoch \in Nat
      BY <2>2, JobFacts DEF Idle
    <3>2. Idle.epoch <= epoch
      BY <3>1
    <3> HIDE DEF r
    <3> QED
      BY <3>1, <3>2, IdleIsJob
  <2> QED
    BY <2>1, <2>2
<1> HIDE DEF r
<1>3. /\ job' \in [Jobs -> Job] /\ \A k \in Jobs : job'[k] = IF k = j THEN r ELSE job[k]
      /\ Place' /\ SessionIsCurrent' /\ Hosted' /\ Shape'
  BY <1>1, <1>2, <1>u, Update
<1>4. busy' = Cardinality(GuardSet') /\ busy' \in Nat
  <2>1. IsFiniteSet(GuardSet) /\ j \in GuardSet /\ busy = Cardinality(GuardSet)
    BY <1>u, JobsAssumption, FS_Subset DEF GuardSet, Guarded, Alive, IInv, BusyCount
  <2>2. GuardSet' = GuardSet \ {j}
    BY <1>2, <1>3 DEF GuardSet, Guarded, Guards, Alive
  <2>3. Cardinality(GuardSet') = Cardinality(GuardSet) - 1 /\ IsFiniteSet(GuardSet')
    BY <2>1, <2>2, FS_RemoveElement
  <2>4. Cardinality(GuardSet') \in Nat
    BY <2>3, FS_CardinalityType
  <2> QED
    BY <1>u, <2>1, <2>3, <2>4
<1>5. BusyCount'
  BY <1>4 DEF BusyCount, GuardSet
<1>6. InflightSound'
  <2>1. ~Registers(job[j])
    BY <1>u DEF Registers
  <2> QED
    BY <1>3, <1>u, <2>1, SameSlot DEF IInv
<1>7. Channels' /\ Pools' /\ Tasks'
  BY <1>3, <1>4, <1>t, <1>u DEF Channels, Pools, Tasks, poolVars
<1>8. Switches'
  BY <1>t, <1>u, SwitchesStay DEF loopVars
<1> QED
  BY <1>3, <1>5, <1>6, <1>7, <1>8, TypeParts
  DEF IInv, TypeOK, Channels, Switches, Pools, Place, Tasks

LEMMA LowerStep == ASSUME IInv, NEW j \in Jobs, Lower(j) PROVE IInv'
<1>t. Channels /\ Pools /\ Place
  BY TypeParts DEF IInv
<1>1. /\ job[j].pc = "lower" /\ job' = [job EXCEPT ![j] = Idle]
      /\ UNCHANGED <<loopVars, shared>> /\ Pools'
  BY <1>t DEF Lower, JobStep, Pools, poolVars
<1>2. Channels'
  BY <1>t, EventType DEF Lower, JobStep, Channels, Place, LoopKinds, LoopWords, Tell
<1>3. ~Registers(job[j]) /\ ~Guards(job[j]) /\ Idle.epoch <= epoch
  BY <1>t, <1>1 DEF Registers, Guards, Idle, Place
<1>4. Idle \in Job /\ Sound(Idle) /\ (Guards(Idle) <=> Guards(job[j]))
  BY <1>3, IdleIsJob
<1> QED
  BY <1>1, <1>2, <1>3, <1>4, MoveStep

-----------------------------------------------------------------------------
LEMMA CollectorKeeps == IInv /\ CollectorStep => IInv'
<1> SUFFICES ASSUME IInv, CollectorStep PROVE IInv'
  OBVIOUS
<1>1. CASE \/ Connect \/ ConnectOk \/ ConnectFail \/ Disconnect
           \/ SetViews \/ SetPaused \/ SetWriteMode \/ Tune
           \/ Dropped \/ NothingToCancel \/ Refuse
           \/ Tick \/ SamplerGetConn \/ SampleOk \/ SampleFail
  BY <1>1, LoopCalmStep
<1>2. CASE CancelDump
  BY <1>2, CancelDumpStep
<1>3. CASE \E j \in Jobs : StartJob(j) \/ RunDump(j) \/ CancelSql(j) \/ RunGated(j)
  BY <1>3, SpawningStep
<1>4. ASSUME NEW j \in Jobs, JobRuns(j) PROVE IInv'
  <2>1. CASE CheckEpoch(j) \/ Emit(j)
    BY <2>1, SpeakingStep
  <2>2. CASE \/ Acquire(j) \/ AcquireFail(j) \/ DumpBatch(j) \/ DumpEnds(j) \/ Return(j)
             \/ \E ok \in BOOLEAN : WorkEnds(j, ok)
    BY <2>2, WorkingStep
  <2>3. CASE Register(j) \/ Unregister(j)
    BY <2>3, SlotStep
  <2>4. CASE KillQuery(j)
    BY <2>4, KillQueryStep
  <2>5. CASE Release(j)
    BY <2>5, ReleaseStep
  <2>6. CASE Lower(j)
    BY <2>6, LowerStep
  <2> QED
    BY <1>4, <2>1, <2>2, <2>3, <2>4, <2>5, <2>6 DEF JobRuns
<1> QED
  BY <1>1, <1>2, <1>3, <1>4 DEF CollectorStep, LoopStep

\* The channels change at the GUI's end, and nothing else does.
LEMMA ChannelsOnly ==
  ASSUME IInv, Channels', UNCHANGED <<loopVars, shared, poolVars, job>>
  PROVE  IInv'
<1>t. Switches /\ Pools /\ Place /\ Tasks /\ SessionIsCurrent /\ Hosted
  BY TypeParts DEF IInv
<1>1. Switches'
  BY <1>t, SwitchesStay DEF loopVars, shared
<1>2. Pools' /\ Place' /\ Tasks'
  BY <1>t DEF Pools, Place, Tasks, loopVars, shared, poolVars
<1>3. SessionIsCurrent' /\ Hosted'
  BY <1>t DEF SessionIsCurrent, Hosted, loopVars
<1>4. Shape' /\ BusyCount' /\ InflightSound'
  BY Calm DEF shared
<1> QED
  BY <1>1, <1>2, <1>3, <1>4, TypeParts
  DEF IInv, TypeOK, Channels, Switches, Pools, Place, Tasks

LEMMA NextKeeps == IInv /\ [Next]_vars => IInv'
<1> SUFFICES ASSUME IInv, [Next]_vars PROVE IInv'
  OBVIOUS
<1>t. Channels
  BY TypeParts DEF IInv
<1>1. CASE CollectorStep
  BY <1>1, CollectorKeeps
<1>2. CASE AnyGui
  <2>1. PICK cs \in Seq(Command) : cmds' = cmds \o cs
    BY <1>2 DEF AnyGui
  <2>2. cmds' \in Seq(Command)
    BY <1>t, <2>1 DEF Channels
  <2>3. evs' \in Seq(Event)
    <3>1. CASE evs' = evs
      BY <1>t, <3>1 DEF Channels
    <3>2. CASE evs # <<>> /\ evs' = Tail(evs)
      BY <1>t, <3>2 DEF Channels
    <3> QED
      BY <1>2, <3>1, <3>2 DEF AnyGui
  <2> QED
    BY <1>2, <2>2, <2>3, ChannelsOnly DEF AnyGui, Channels
<1>3. CASE UNCHANGED vars
  <2>1. Channels' /\ UNCHANGED <<loopVars, shared, poolVars, job>>
    BY <1>3, <1>t DEF vars, Channels
  <2> QED
    BY <2>1, ChannelsOnly
<1> QED
  BY <1>1, <1>2, <1>3 DEF Next

\* The invariant of every collector, whatever the GUI sends it.
THEOREM Invariance == Spec => []IInv
  BY InitHolds, NextKeeps, PTL DEF Spec

\* Every variable keeps its type; in particular busy never runs below zero.
THEOREM TypeCorrect == Spec => []TypeOK
<1>1. IInv => TypeOK
  BY DEF IInv
<1> QED
  BY <1>1, Invariance, PTL

\* The session held is the session of the current epoch: a job spawned for it
\* is checked against the epoch it belongs to.
THEOREM SessionStaysCurrent == Spec => []SessionIsCurrent
<1>1. IInv => SessionIsCurrent
  BY DEF IInv
<1> QED
  BY <1>1, Invariance, PTL

\* The busy count is the number of living guards, however jobs end.
THEOREM GuardsAreCounted == Spec => []BusyCount
<1>1. IInv => BusyCount
  BY DEF IInv
<1> QED
  BY <1>1, Invariance, PTL

\* A cancel reads the connection of a console statement that still has its
\* guard, or nothing.
THEOREM SlotIsSound == Spec => []InflightSound
<1>1. IInv => InflightSound
  BY DEF IInv
<1> QED
  BY <1>1, Invariance, PTL

-----------------------------------------------------------------------------
(* Late events.  An event overtaken by the end of its session was sent by a *)
(* task that had been told to go on before that end; sending takes the      *)
(* permission back, and no task of that session is given another.           *)

\* Overtaken, of a queue s.
Behind(s, p, q) ==
  /\ p < q
  /\ s[p].kind \in {"connecting", "disconnected"}
  /\ s[q].job # NoJob /\ s[q].epoch < s[p].epoch

\* Nothing in the queue is of a session still to come; whoever sent something
\* that was overtaken may not send again for that session; and sent it once.
LateOK(s, js, e) ==
  /\ \A i \in 1..Len(s) : s[i].epoch <= e
  /\ \A p, q \in 1..Len(s) :
       Behind(s, p, q) => ~(js[s[q].job].armed /\ js[s[q].job].epoch = s[q].epoch)
  /\ \A p, q, r \in 1..Len(s) :
       /\ Behind(s, p, q) /\ Behind(s, p, r)
       /\ s[q].job = s[r].job /\ s[q].epoch = s[r].epoch
       => q = r

LEMMA LateIsOnce ==
  ASSUME evs \in Seq(Event), LateOK(evs, job, epoch) PROVE OneLateEventPerJob
<1>1. DOMAIN evs = 1..Len(evs)
  OBVIOUS
<1>2. \A p, q : Overtaken(p, q) <=> Behind(evs, p, q)
  BY DEF Overtaken, Behind
<1> QED
  BY <1>1, <1>2 DEF OneLateEventPerJob, LateOK

LEMMA AppendedEvent ==
  ASSUME NEW s \in Seq(Event), NEW x \in Event
  PROVE  /\ Append(s, x) \in Seq(Event) /\ Len(s) \in Nat
         /\ Len(Append(s, x)) = Len(s) + 1 /\ Append(s, x)[Len(s) + 1] = x
         /\ \A i \in 1..Len(s) : Append(s, x)[i] = s[i]
  OBVIOUS

LEMMA EventFields ==
  ASSUME NEW s \in Seq(Event), NEW i \in 1..Len(s)
  PROVE  s[i].epoch \in Nat /\ s[i].job \in Jobs \cup {NoJob}
<1>1. s[i] \in Event
  OBVIOUS
<1> QED
  BY <1>1 DEF Event

\* The loop says something.
LEMMA LateLoop ==
  ASSUME NEW s \in Seq(Event), NEW x \in Event, NEW js, NEW e \in Nat,
         LateOK(s, js, e), x.job = NoJob, x.epoch <= e
  PROVE  LateOK(Append(s, x), js, e)
<1> DEFINE t == Append(s, x)
<1>1. /\ Len(s) \in Nat /\ Len(t) = Len(s) + 1 /\ t[Len(s) + 1] = x
      /\ \A i \in 1..Len(s) : t[i] = s[i]
  BY AppendedEvent
<1> HIDE DEF t
<1>2. \A i \in 1..Len(t) : t[i].epoch <= e
  BY <1>1 DEF LateOK
<1>3. \A p, q \in 1..Len(t) : Behind(t, p, q) => p \in 1..Len(s) /\ q \in 1..Len(s) /\ Behind(s, p, q)
  BY <1>1 DEF Behind
<1>4. \A p, q \in 1..Len(t) :
        Behind(t, p, q) => ~(js[t[q].job].armed /\ js[t[q].job].epoch = t[q].epoch)
  BY <1>1, <1>3 DEF LateOK
<1>5. \A p, q, r \in 1..Len(t) :
        /\ Behind(t, p, q) /\ Behind(t, p, r)
        /\ t[q].job = t[r].job /\ t[q].epoch = t[r].epoch
        => q = r
  BY <1>1, <1>3 DEF LateOK
<1> QED
  BY <1>2, <1>4, <1>5 DEF LateOK, t

\* The GUI takes the oldest event.
LEMMA LateTaken ==
  ASSUME NEW s \in Seq(Event), s # <<>>, NEW js, NEW e, LateOK(s, js, e)
  PROVE  LateOK(Tail(s), js, e)
<1> DEFINE t == Tail(s)
<1>1. Len(s) \in Nat \ {0} /\ Len(t) = Len(s) - 1 /\ \A i \in 1..Len(t) : t[i] = s[i + 1]
  OBVIOUS
<1> HIDE DEF t
<1>2. \A i \in 1..Len(t) : i + 1 \in 1..Len(s)
  BY <1>1
<1>3. \A p, q \in 1..Len(t) : Behind(t, p, q) => Behind(s, p + 1, q + 1)
  BY <1>1 DEF Behind
<1>4. \A p, q \in 1..Len(t) :
        Behind(t, p, q) => ~(js[t[q].job].armed /\ js[t[q].job].epoch = t[q].epoch)
  BY <1>1, <1>2, <1>3 DEF LateOK
<1>5. ASSUME NEW p \in 1..Len(t), NEW q \in 1..Len(t), NEW r \in 1..Len(t),
             Behind(t, p, q), Behind(t, p, r), t[q].job = t[r].job, t[q].epoch = t[r].epoch
      PROVE  q = r
  <2>1. Behind(s, p + 1, q + 1) /\ Behind(s, p + 1, r + 1)
    BY <1>3, <1>5
  <2>2. s[q + 1].job = s[r + 1].job /\ s[q + 1].epoch = s[r + 1].epoch
    BY <1>1, <1>5
  <2>3. q + 1 = r + 1
    BY <1>2, <2>1, <2>2 DEF LateOK
  <2> QED
    BY <2>3
<1> QED
  BY <1>1, <1>2, <1>4, <1>5 DEF LateOK, t

\* The tasks move, and permission is given for the current session only.
LEMMA LateTasks ==
  ASSUME NEW s \in Seq(Event), NEW js, NEW ks, NEW e \in Nat, NEW f \in Nat, e <= f,
         LateOK(s, js, e),
         \A k \in Jobs : ks[k].armed =>
           ks[k].epoch = f \/ (js[k].armed /\ js[k].epoch = ks[k].epoch)
  PROVE  LateOK(s, ks, f)
<1>1. \A i \in 1..Len(s) : s[i].epoch \in Nat /\ s[i].job \in Jobs \cup {NoJob} /\ s[i].epoch <= e
  BY EventFields DEF LateOK
<1>2. \A i \in 1..Len(s) : s[i].epoch <= f
  BY <1>1
<1>3. ASSUME NEW p \in 1..Len(s), NEW q \in 1..Len(s), Behind(s, p, q),
             ks[s[q].job].armed, ks[s[q].job].epoch = s[q].epoch
      PROVE  FALSE
  <2>1. s[q].job \in Jobs /\ s[q].epoch < f
    BY <1>1, <1>3 DEF Behind
  <2>2. js[s[q].job].armed /\ js[s[q].job].epoch = s[q].epoch
    BY <1>1, <1>3, <2>1
  <2> QED
    BY <1>3, <2>2 DEF LateOK
<1> QED
  BY <1>2, <1>3 DEF LateOK

\* A task speaks, as it was permitted to, and has to ask again.
LEMMA LateSpoken ==
  ASSUME NEW s \in Seq(Event), NEW x \in Event, NEW js, NEW ks, NEW e \in Nat,
         NEW j \in Jobs, LateOK(s, js, e),
         x.job = j, x.epoch = js[j].epoch, x.epoch <= e,
         x.kind \notin {"connecting", "disconnected"},
         js[j].armed, ~ks[j].armed, \A k \in Jobs \ {j} : ks[k] = js[k]
  PROVE  LateOK(Append(s, x), ks, e)
<1> DEFINE t == Append(s, x)
<1>1. /\ Len(s) \in Nat /\ Len(t) = Len(s) + 1 /\ t[Len(s) + 1] = x
      /\ \A i \in 1..Len(s) : t[i] = s[i]
  BY AppendedEvent
<1>2. \A i \in 1..Len(s) : s[i].job \in Jobs \cup {NoJob}
  BY EventFields
<1> HIDE DEF t
<1>3. \A i \in 1..Len(t) : t[i].epoch <= e
  BY <1>1 DEF LateOK
<1>4. \A p, q \in 1..Len(t) :
        Behind(t, p, q) => p \in 1..Len(s) /\ ((q \in 1..Len(s) /\ Behind(s, p, q)) \/ q = Len(s) + 1)
  BY <1>1 DEF Behind
\* What j had said before was not overtaken: else it would have no permission.
<1>5. ASSUME NEW p \in 1..Len(s), NEW q \in 1..Len(s), Behind(s, p, q)
      PROVE  ~(s[q].job = j /\ s[q].epoch = x.epoch)
  BY <1>5 DEF LateOK
<1>6. ASSUME NEW p \in 1..Len(t), NEW q \in 1..Len(t), Behind(t, p, q),
             ks[t[q].job].armed, ks[t[q].job].epoch = t[q].epoch
      PROVE  FALSE
  <2>1. q \in 1..Len(s) /\ p \in 1..Len(s) /\ Behind(s, p, q) /\ t[q] = s[q]
    BY <1>1, <1>4, <1>6
  <2>2. s[q].job \in Jobs \ {j}
    BY <1>2, <1>6, <2>1 DEF Behind
  <2>3. js[s[q].job].armed /\ js[s[q].job].epoch = s[q].epoch
    BY <1>6, <2>1, <2>2
  <2> QED
    BY <2>1, <2>3 DEF LateOK
<1>7. ASSUME NEW p \in 1..Len(t), NEW q \in 1..Len(t), NEW r \in 1..Len(t),
             Behind(t, p, q), Behind(t, p, r), t[q].job = t[r].job, t[q].epoch = t[r].epoch
      PROVE  q = r
  <2>1. CASE q \in 1..Len(s) /\ r \in 1..Len(s)
    BY <1>1, <1>4, <1>7, <2>1 DEF LateOK
  <2>2. CASE q = Len(s) + 1 /\ r \in 1..Len(s)
    BY <1>1, <1>4, <1>5, <1>7, <2>2
  <2>3. CASE q \in 1..Len(s) /\ r = Len(s) + 1
    BY <1>1, <1>4, <1>5, <1>7, <2>3
  <2>4. CASE q = Len(s) + 1 /\ r = Len(s) + 1
    BY <2>4
  <2> QED
    BY <1>4, <1>7, <2>1, <2>2, <2>3, <2>4
<1> QED
  BY <1>3, <1>6, <1>7 DEF LateOK, t

\* What the loop and the guards say, and when: up to three events of no job, of
\* the session that is current when they are said.
LoopEvents(e) == {Ev(k, e, NoJob) : k \in LoopKinds}
Longer(s) == {s} \cup {Append(s, x) : x \in LoopEvents(epoch')}
\* Permission to speak is taken from a task, or left with it, or given for the
\* current session.
Permitted == \A k \in Jobs : job'[k].armed =>
               job'[k].epoch = epoch' \/ (job[k].armed /\ job[k].epoch = job'[k].epoch)

LEMMA LongerBy ==
  ASSUME NEW s, NEW k \in LoopKinds
  PROVE  s \in Longer(s) /\ Append(s, Ev(k, epoch', NoJob)) \in Longer(s)
  BY Zenon DEF Longer, LoopEvents

LEMMA LoopSays ==
  ASSUME IInv, LoopStep
  PROVE  /\ epoch \in Nat /\ epoch' \in Nat /\ epoch <= epoch'
         /\ \E s \in Longer(evs) : \E t \in Longer(s) : evs' \in Longer(t)
         /\ Permitted
<1>t. Channels /\ Place /\ Tasks
  BY TypeParts DEF IInv
<1> DEFINE Goal == /\ epoch \in Nat /\ epoch' \in Nat /\ epoch <= epoch'
                   /\ \E s \in Longer(evs) : \E t \in Longer(s) : evs' \in Longer(t)
                   /\ Permitted
<1>1. ASSUME epoch' \in Nat, epoch <= epoch', UNCHANGED job,
             NEW k \in LoopKinds, evs' = Append(evs, Ev(k, epoch', NoJob))
      PROVE  Goal
  BY <1>t, <1>1 DEF Longer, LoopEvents, Permitted, Place
<1>2. ASSUME UNCHANGED <<epoch, evs, job>> PROVE Goal
  BY <1>t, <1>2 DEF Longer, Permitted, Place
<1>3. CASE Connect \/ Disconnect
  BY <1>t, <1>1, <1>3 DEF Connect, Disconnect, LoopKinds, LoopWords, Place
<1>4. CASE ConnectOk \/ Refuse
  BY <1>t, <1>1, <1>4 DEF ConnectOk, Refuse, Tell, LoopKinds, LoopWords, Place, loopVars
<1>5. CASE SetViews \/ SetPaused \/ SetWriteMode \/ Tune \/ Dropped \/ NothingToCancel \/ Tick
           \/ SamplerGetConn
  BY <1>2, <1>5 DEF SetViews, SetPaused, SetWriteMode, Tune, Dropped, NothingToCancel, Tick,
     SamplerGetConn, loopVars
<1>6. CASE ConnectFail \/ SampleFail
  <2>1. PICK k \in LoopKinds, l \in LoopKinds : evs' = evs \o <<Tell(k), Tell(l)>>
    BY <1>6 DEF ConnectFail, SampleFail, LoopKinds, LoopWords
  <2>2. Tell(k) \in Event /\ Tell(l) \in Event
    BY <1>t DEF Tell, Ev, Event, Place
  <2>3. evs' = Append(Append(evs, Tell(k)), Tell(l))
    BY <1>t, <2>1, <2>2 DEF Channels
  <2>4. UNCHANGED <<epoch, job>>
    BY <1>6 DEF ConnectFail, SampleFail
  <2>5. Append(evs, Tell(k)) \in Longer(evs) /\ evs' \in Longer(Append(evs, Tell(k)))
    BY <2>3, <2>4, LongerBy DEF Tell
  <2>6. evs \in Longer(evs)
    BY DEF Longer
  <2> QED
    BY <1>t, <2>4, <2>5, <2>6 DEF Permitted, Place
<1>7. CASE SampleOk
  <2>1. PICK heavy \in {<<>>} \cup {<<Tell(h)>> : h \in needs} :
          evs' = evs \o heavy \o <<Tell("sample"), Tell("load")>>
    BY <1>7 DEF SampleOk
  <2>2. UNCHANGED <<epoch, job>>
    BY <1>7 DEF SampleOk
  <2>3. /\ "sample" \in LoopKinds /\ "load" \in LoopKinds /\ needs \subseteq LoopKinds
        /\ \A k \in LoopKinds : Tell(k) \in Event
    BY <1>t DEF Tell, Ev, Event, LoopKinds, LoopWords, Place
  <2>4. CASE heavy = <<>>
    <3>1. evs' = Append(Append(evs, Tell("sample")), Tell("load"))
      BY <1>t, <2>1, <2>3, <2>4 DEF Channels
    <3>2. /\ evs \in Longer(evs) /\ Append(evs, Tell("sample")) \in Longer(evs)
          /\ evs' \in Longer(Append(evs, Tell("sample")))
      BY <2>2, <2>3, <3>1, LongerBy DEF Tell
    <3> QED
      BY <1>t, <2>2, <3>2 DEF Permitted, Place
  <2>5. CASE heavy # <<>>
    <3>1. PICK h \in needs : heavy = <<Tell(h)>>
      BY <2>1, <2>5
    <3>2. evs' = Append(Append(Append(evs, Tell(h)), Tell("sample")), Tell("load"))
      BY <1>t, <2>1, <2>3, <3>1 DEF Channels
    <3> DEFINE u == Append(evs, Tell(h))
               v == Append(u, Tell("sample"))
    <3>3. u \in Longer(evs) /\ v \in Longer(u) /\ evs' \in Longer(v)
      BY <2>2, <2>3, <3>2, LongerBy DEF Tell
    <3> HIDE DEF u, v
    <3> QED
      BY <1>t, <2>2, <3>3 DEF Permitted, Place
  <2> QED
    BY <2>4, <2>5
<1>8. CASE CancelDump
  <2>1. \A k \in Jobs : job'[k] \in {job[k], [job[k] EXCEPT !.told = TRUE]}
    BY <1>8 DEF CancelDump
  <2>2. \A k \in Jobs : job'[k].armed = job[k].armed /\ job'[k].epoch = job[k].epoch
    BY <1>t, <2>1 DEF Tasks, Job
  <2> QED
    BY <1>8, <1>t, <2>2 DEF CancelDump, Longer, Permitted, Place, loopVars
<1>9. CASE \E j \in Jobs : StartJob(j) \/ RunDump(j) \/ CancelSql(j) \/ RunGated(j)
  <2>1. PICK j \in Jobs : \E op, aim : Spawn(j, op, aim)
    BY <1>9 DEF StartJob, RunDump, CancelSql, RunGated
  <2>0. PICK op, aim : Spawn(j, op, aim)
    BY <2>1
  <2>2. UNCHANGED epoch /\ job' = [job EXCEPT ![j] = Fresh(op, aim)]
    BY <2>0 DEF Spawn, loopVars
  <2>3. Permitted
    BY <1>t, <2>2 DEF Permitted, Fresh, Tasks
  <2>4. evs' = evs \/ evs' = Append(evs, Ev("busy_on", epoch', NoJob))
    BY <2>0, <2>2 DEF Spawn, Tell
  <2> QED
    BY <1>t, <2>2, <2>3, <2>4 DEF Longer, LoopEvents, LoopKinds, LoopWords, Place
<1> QED
  BY <1>3, <1>4, <1>5, <1>6, <1>7, <1>8, <1>9 DEF LoopStep

\* What a job does without speaking: only asking gives it permission.
LEMMA SilentSteps ==
  ASSUME IInv, NEW j \in Jobs, JobRuns(j), ~Emit(j)
  PROVE  UNCHANGED epoch /\ evs' \in Longer(evs) /\ Permitted
<1>t. Channels /\ Place /\ Tasks
  BY TypeParts DEF IInv
<1>j. job \in [Jobs -> Job]
  BY <1>t DEF Tasks
<1>l. evs \in Longer(evs)
  BY DEF Longer
\* One task moves; if it may speak afterwards, it might before or just asked.
<1>1. ASSUME NEW r, job' = [job EXCEPT ![j] = r], UNCHANGED epoch,
             r.armed => r.epoch = epoch \/ (job[j].armed /\ job[j].epoch = r.epoch)
      PROVE  Permitted
  BY <1>j, <1>1 DEF Permitted
<1>2. ASSUME UNCHANGED <<epoch, evs>>, Permitted
      PROVE  UNCHANGED epoch /\ evs' \in Longer(evs) /\ Permitted
  BY <1>l, <1>2
<1>3. CASE CheckEpoch(j)
  <2> DEFINE next == Goes(j, Spoken(j))
  <2>1. next.armed => job[j].armed /\ job[j].epoch = next.epoch
    BY <1>j DEF Goes, Idle, Job
  <2>2. CASE job[j].epoch = epoch
    <3>1. job' = [job EXCEPT ![j] = [job[j] EXCEPT !.armed = TRUE]] /\ UNCHANGED <<epoch, evs>>
      BY <1>3, <1>j, <2>2 DEF CheckEpoch, loopVars
    <3>2. [job[j] EXCEPT !.armed = TRUE].epoch = epoch
      BY <1>j, <2>2 DEF Job
    <3> QED
      BY <1>1, <1>2, <3>1, <3>2
  <2>3. CASE job[j].epoch # epoch
    <3>1. job' = [job EXCEPT ![j] = next] /\ UNCHANGED <<epoch, evs>>
      BY <1>3, <1>j, <2>3 DEF CheckEpoch, loopVars
    <3> HIDE DEF next
    <3> QED
      BY <1>1, <1>2, <2>1, <3>1
  <2> QED
    BY <2>2, <2>3
<1>4. CASE \/ Acquire(j) \/ AcquireFail(j) \/ Register(j) \/ Unregister(j) \/ Return(j)
           \/ DumpBatch(j) \/ DumpEnds(j) \/ Release(j) \/ \E ok \in BOOLEAN : WorkEnds(j, ok)
  <2>1. PICK r : job' = [job EXCEPT ![j] = r] /\ (r = Idle \/ (r.armed = job[j].armed /\ r.epoch = job[j].epoch))
    <3>1. job[j] \in Job
      BY <1>j
    <3>2. CASE Acquire(j)
      <4>1. PICK id \in ConnId :
              job' = [job EXCEPT ![j].conn = id,
                                 ![j].pc = IF job[j].op = "sql" THEN "register" ELSE "work"]
        BY <3>2 DEF Acquire
      <4> DEFINE r == [job[j] EXCEPT !.conn = id, !.pc = IF job[j].op = "sql" THEN "register" ELSE "work"]
      <4>2. job' = [job EXCEPT ![j] = r] /\ r.armed = job[j].armed /\ r.epoch = job[j].epoch
        BY <1>j, <3>1, <4>1 DEF Job
      <4> QED
        BY <4>2
    <3>3. CASE AcquireFail(j)
      <4> DEFINE r == [job[j] EXCEPT !.ok = ~Failed(j, FALSE), !.pc = "report"]
      <4>1. job' = [job EXCEPT ![j] = r] /\ r.armed = job[j].armed /\ r.epoch = job[j].epoch
        BY <1>j, <3>1, <3>3 DEF AcquireFail, Job
      <4> QED
        BY <4>1
    <3>4. CASE Register(j) \/ Unregister(j)
      BY <1>j, <3>1, <3>4 DEF Register, Unregister, Job
    <3>5. CASE DumpBatch(j) \/ DumpEnds(j)
      BY <1>j, <3>1, <3>5 DEF DumpBatch, DumpEnds, Job
    <3>6. CASE Return(j)
      <4> DEFINE r == [job[j] EXCEPT !.conn = 0, !.pc = "report"]
      <4>1. job' = [job EXCEPT ![j] = Idle] \/ job' = [job EXCEPT ![j] = r]
        BY <1>j, <3>6 DEF Return
      <4>2. r.armed = job[j].armed /\ r.epoch = job[j].epoch
        BY <3>1 DEF Job
      <4> QED
        BY <4>1, <4>2
    <3>7. CASE Release(j)
      <4> DEFINE r == [job[j] EXCEPT !.pc = "lower"]
      <4>1. job' = [job EXCEPT ![j] = Idle] \/ job' = [job EXCEPT ![j] = r]
        BY <1>j, <3>7 DEF Release
      <4>2. r.armed = job[j].armed /\ r.epoch = job[j].epoch
        BY <3>1 DEF Job
      <4> QED
        BY <4>1, <4>2
    <3>8. CASE \E ok \in BOOLEAN : WorkEnds(j, ok)
      <4>1. PICK ok \in BOOLEAN : WorkEnds(j, ok)
        BY <3>8
      <4> DEFINE r == [job[j] EXCEPT !.ok = ~Failed(j, ok), !.killed = FALSE,
                         !.pc = IF job[j].op = "sql" THEN "unregister" ELSE "return"]
      <4>2. job' = [job EXCEPT ![j] = r] /\ r.armed = job[j].armed /\ r.epoch = job[j].epoch
        BY <1>j, <3>1, <4>1 DEF WorkEnds, Job
      <4> QED
        BY <4>2
    <3> QED
      BY <1>4, <3>2, <3>3, <3>4, <3>5, <3>6, <3>7, <3>8
  <2>2. UNCHANGED <<epoch, evs>>
    BY <1>4 DEF Acquire, AcquireFail, Register, Unregister, Return, DumpBatch, DumpEnds, Release,
       WorkEnds, JobStep, loopVars
  <2>3. Permitted
    BY <1>1, <2>1, <2>2 DEF Idle
  <2> QED
    BY <1>2, <2>2, <2>3
<1>5. CASE KillQuery(j)
  <2>1. \A k \in Jobs : job'[k].armed = job[k].armed /\ job'[k].epoch = job[k].epoch
    <3> SUFFICES ASSUME NEW k \in Jobs
                 PROVE  job'[k].armed = job[k].armed /\ job'[k].epoch = job[k].epoch
      OBVIOUS
    <3>1. job'[k] \in {job[k], [job[k] EXCEPT !.killed = TRUE], [job[k] EXCEPT !.pc = "return"],
                       [job[k] EXCEPT !.ok = FALSE, !.pc = "return"]}
      BY <1>5, <1>j DEF KillQuery
    <3>2. job[k] \in Job
      BY <1>j
    <3> QED
      BY <3>1, <3>2 DEF Job
  <2>2. UNCHANGED <<epoch, evs>> /\ Permitted
    BY <1>5, <2>1 DEF KillQuery, JobStep, loopVars, Permitted
  <2> QED
    BY <1>2, <2>2
<1>6. CASE Lower(j)
  <2>1. UNCHANGED epoch /\ job' = [job EXCEPT ![j] = Idle]
    BY <1>6 DEF Lower, JobStep, loopVars
  <2>2. evs' = Append(evs, Ev("busy_off", epoch', NoJob)) /\ "busy_off" \in LoopKinds
    BY <1>6, <2>1 DEF Lower, Tell, LoopKinds, LoopWords
  <2>3. evs' \in Longer(evs)
    BY <2>2, LongerBy
  <2>4. Permitted
    BY <1>1, <2>1 DEF Idle
  <2> QED
    BY <2>1, <2>3, <2>4
<1> QED
  BY <1>3, <1>4, <1>5, <1>6 DEF JobRuns

LEMMA LateLonger ==
  ASSUME NEW s \in Seq(Event), epoch' \in Nat, LateOK(s, job', epoch'), NEW t \in Longer(s)
  PROVE  t \in Seq(Event) /\ LateOK(t, job', epoch')
<1>1. CASE t = s
  BY <1>1
<1>2. CASE t # s
  <2>1. PICK k \in LoopKinds : t = Append(s, Ev(k, epoch', NoJob))
    BY <1>2 DEF Longer, LoopEvents
  <2> DEFINE x == Ev(k, epoch', NoJob)
  <2>2. x \in Event /\ x.job = NoJob /\ x.epoch <= epoch'
    BY DEF Ev, Event
  <2> HIDE DEF x
  <2>3. t = Append(s, x)
    BY <2>1 DEF x
  <2>4. LateOK(Append(s, x), job', epoch')
    BY <2>2, LateLoop
  <2> QED
    BY <2>2, <2>3, <2>4
<1> QED
  BY <1>1, <1>2

LEMMA LateNext ==
  ASSUME IInv, LateOK(evs, job, epoch), [Next]_vars PROVE LateOK(evs, job, epoch)'
<1>t. evs \in Seq(Event) /\ epoch \in Nat /\ job \in [Jobs -> Job]
  BY DEF IInv, TypeOK
<1>1. CASE LoopStep
  <2>1. /\ epoch' \in Nat /\ epoch <= epoch' /\ Permitted
        /\ \E s \in Longer(evs) : \E t \in Longer(s) : evs' \in Longer(t)
    BY <1>1, LoopSays
  <2>2. LateOK(evs, job', epoch')
    BY <1>t, <2>1, LateTasks DEF Permitted
  <2>3. PICK s \in Longer(evs) : \E t \in Longer(s) : evs' \in Longer(t)
    BY <2>1
  <2>6. PICK t \in Longer(s) : evs' \in Longer(t)
    BY <2>3
  <2>4. s \in Seq(Event) /\ LateOK(s, job', epoch')
    BY <1>t, <2>1, <2>2, LateLonger
  <2>5. t \in Seq(Event) /\ LateOK(t, job', epoch')
    BY <2>1, <2>6, <2>4, LateLonger
  <2> QED
    BY <2>1, <2>6, <2>5, LateLonger
<1>2. ASSUME NEW j \in Jobs, Emit(j) PROVE LateOK(evs, job, epoch)'
  <2> DEFINE x == Ev(Words(j), job[j].epoch, j)
             r == [Goes(j, Spoken(j)) EXCEPT !.armed = FALSE]
  <2>1. /\ UNCHANGED epoch /\ job[j].armed /\ evs' = Append(evs, x)
        /\ job' = [job EXCEPT ![j] = r]
    BY <1>2 DEF Emit, loopVars
  <2>2. Words(j) \in JobKinds /\ Words(j) \notin {"connecting", "disconnected"}
    BY DEF Words, Report, JobKinds
  <2>3. job[j] \in Job /\ job[j].epoch <= epoch
    BY JobFacts
  <2>4. /\ x \in Event /\ x.job = j /\ x.epoch = job[j].epoch /\ x.epoch <= epoch
        /\ x.kind \notin {"connecting", "disconnected"}
    BY <2>2, <2>3 DEF Ev, Event, Job
  <2>5. Goes(j, Spoken(j)) \in Job
    BY <1>2, SpokenRec DEF Emit
  <2>6. ~r.armed
    BY <2>5 DEF Job
  <2> HIDE DEF x, r
  <2>7. ~job'[j].armed /\ \A k \in Jobs \ {j} : job'[k] = job[k]
    BY <1>t, <2>1, <2>6
  <2>8. LateOK(Append(evs, x), job', epoch)
    BY <1>t, <2>1, <2>4, <2>7, LateSpoken
  <2> QED
    BY <2>1, <2>8
<1>3. ASSUME NEW j \in Jobs, JobRuns(j), ~Emit(j) PROVE LateOK(evs, job, epoch)'
  <2>1. UNCHANGED epoch /\ evs' \in Longer(evs) /\ Permitted
    BY <1>3, SilentSteps
  <2>2. LateOK(evs, job', epoch')
    BY <1>t, <2>1, LateTasks DEF Permitted
  <2> QED
    BY <1>t, <2>1, <2>2, LateLonger
<1>4. CASE AnyGui
  <2>1. UNCHANGED <<epoch, job>> /\ (evs' = evs \/ (evs # <<>> /\ evs' = Tail(evs)))
    BY <1>4 DEF AnyGui, loopVars
  <2> QED
    BY <1>t, <2>1, LateTaken
<1>5. CASE UNCHANGED vars
  BY <1>5 DEF vars, loopVars
<1> QED
  BY <1>1, <1>2, <1>3, <1>4, <1>5 DEF Next, CollectorStep

\* However late a result is, no more than one of each job passes the end of its
\* session: the check in JobEv::send is one step ahead of the send, not more.
THEOREM LateIsAtMostOne == Spec => []OneLateEventPerJob
<1>1. Init => LateOK(evs, job, epoch)
  BY DEF Init, LateOK
<1>2. IInv /\ LateOK(evs, job, epoch) => OneLateEventPerJob
  BY LateIsOnce DEF IInv, TypeOK
<1>3. IInv /\ LateOK(evs, job, epoch) /\ [Next]_vars => LateOK(evs, job, epoch)'
  BY LateNext
<1> QED
  BY <1>1, <1>2, <1>3, Invariance, PTL DEF Spec

-----------------------------------------------------------------------------
(* The connections.  A task keeps the session it captured at its spawn, and *)
(* the pool and the server of that session, while the loop moves on; so     *)
(* who holds which connection needs an invariant over all sessions at once. *)

\* The sessions known, each with the server it is on: those with a pool, those
\* of a living task and the one held.
Bound ==
  {<<o.epoch, o.server>> : o \in opened}
    \cup {<<job[j].epoch, job[j].server>> : j \in {k \in Jobs : Alive(k)}}
    \cup (IF session # 0 THEN {<<session, server>>} ELSE {})

\* A session is on one server, and the one being made is not known yet.
OneServerEach ==
  /\ \A b, c \in Bound : b[1] = c[1] => b = c
  /\ \A b \in Bound : b[1] <= epoch /\ (at = "connecting" => b[1] # epoch)

\* A server gives an id to one connection, and no pool is over its maximum.
IdsAreOnce == \A o, p \in opened : o.server = p.server /\ o.id = p.id => o = p
PoolsAreBounded ==
  \A e \in Nat : IsFiniteSet(PoolOf(e)) /\ Cardinality(PoolOf(e)) <= PoolMax

\* A connection a task holds is of its own session's pool; a statement that is
\* or will be in the slot holds one.
Wired(r, pool) ==
  /\ r.op = "sql" /\ r.pc \in {"register", "work", "unregister"} => r.conn # 0
  /\ r.conn # 0 => [epoch |-> r.epoch, server |-> r.server, id |-> r.conn] \in pool

\* Nobody else holds it.
Mine(j) ==
  job[j].conn # 0 =>
    \A k \in Jobs \ {j} : Alive(k) /\ job[k].epoch = job[j].epoch => job[k].conn # job[j].conn
TasksAreWired == \A j \in Jobs : Alive(j) => Wired(job[j], opened) /\ Mine(j)
SamplerIsWired ==
  sampler # 0 =>
    /\ at = "sampling"
    /\ [epoch |-> session, server |-> server, id |-> sampler] \in opened
    /\ \A k \in Jobs : Alive(k) /\ job[k].epoch = session => job[k].conn # sampler

Wiring == OneServerEach /\ IdsAreOnce /\ PoolsAreBounded /\ TasksAreWired /\ SamplerIsWired

\* Wiring is inductive on top of IInv: a task is of the session it captured, so
\* what the loop connects to afterwards moves neither its pool nor its server.
LEMMA BoundType == ASSUME IInv PROVE \A b \in Bound : b[1] \in Nat
<1>1. opened \in SUBSET [epoch : Nat, server : Server, id : ConnId] /\ session \in Nat
  BY DEF IInv, TypeOK
<1>2. \A j \in Jobs : job[j].epoch \in Nat
  BY DEF IInv, TypeOK, Job
<1> QED
  BY <1>1, <1>2 DEF Bound

LEMMA BoundHas ==
  /\ \A o \in opened : <<o.epoch, o.server>> \in Bound
  /\ \A j \in Jobs : Alive(j) => <<job[j].epoch, job[j].server>> \in Bound
  /\ session # 0 => <<session, server>> \in Bound
  BY DEF Bound

\* No step but the end of a connect makes a session known.
LEMMA BoundStays ==
  ASSUME IInv, OneServerEach, Bound' \subseteq Bound, epoch' \in Nat, epoch <= epoch',
         at' = "connecting" => epoch' > epoch \/ (at = "connecting" /\ epoch' = epoch)
  PROVE  OneServerEach'
<1>1. epoch \in Nat /\ \A b \in Bound : b[1] \in Nat /\ b[1] <= epoch /\ (at = "connecting" => b[1] # epoch)
  BY BoundType DEF IInv, TypeOK, OneServerEach
<1>2. \A b \in Bound' : b \in Bound /\ b[1] <= epoch' /\ (at' = "connecting" => b[1] # epoch')
  BY <1>1
<1> QED
  BY <1>2 DEF OneServerEach

\* The pools and the tasks stay as they are.
LEMMA PoolsStay ==
  ASSUME Wiring, UNCHANGED <<opened, job>>
  PROVE  IdsAreOnce' /\ PoolsAreBounded' /\ TasksAreWired'
<1>1. IdsAreOnce'
  BY DEF Wiring, IdsAreOnce
<1>2. PoolsAreBounded'
  BY DEF Wiring, PoolsAreBounded, PoolOf
<1>3. TasksAreWired'
  BY DEF Wiring, TasksAreWired, Wired, Mine, Alive
<1> QED
  BY <1>1, <1>2, <1>3

\* The loop: only a connect that succeeds makes a session known.
LEMMA WiresOfLoop ==
  ASSUME IInv, Wiring,
         \/ Connect \/ ConnectOk \/ ConnectFail \/ Disconnect
         \/ SetViews \/ SetPaused \/ SetWriteMode \/ Tune
         \/ Dropped \/ NothingToCancel \/ Refuse
         \/ Tick \/ SampleOk \/ SampleFail
  PROVE  Wiring'
<1>t. epoch \in Nat /\ session \in {0, epoch} /\ (at = "connecting" => session = 0)
  BY DEF IInv, TypeOK, SessionIsCurrent
<1>1. UNCHANGED <<opened, job>>
  BY DEF Connect, ConnectOk, ConnectFail, Disconnect, SetViews, SetPaused,
         SetWriteMode, Tune, Dropped, NothingToCancel, Refuse, Tick,
         SampleOk, SampleFail, poolVars, Receive
<1>2. IdsAreOnce' /\ PoolsAreBounded' /\ TasksAreWired'
  BY <1>1, PoolsStay
<1>3. SamplerIsWired'
  <2>1. sampler' = 0 \/ (sampler' = sampler /\ (at # "sampling" \/ UNCHANGED <<at, session, server>>))
    BY DEF Connect, ConnectOk, ConnectFail, Disconnect, SetViews, SetPaused,
           SetWriteMode, Tune, Dropped, NothingToCancel, Refuse, Tick,
           SampleOk, SampleFail, poolVars, loopVars, Receive
  <2> QED
    BY <1>1, <2>1 DEF Wiring, SamplerIsWired, Alive
<1>4. CASE ~ConnectOk
  <2>1. /\ session' # 0 => session' = session /\ server' = server
        /\ epoch' \in Nat /\ epoch <= epoch'
        /\ at' = "connecting" => epoch' > epoch \/ (at = "connecting" /\ epoch' = epoch)
    BY <1>4, <1>t DEF Connect, ConnectFail, Disconnect, SetViews, SetPaused,
           SetWriteMode, Tune, Dropped, NothingToCancel, Refuse, Tick,
           SampleOk, SampleFail, loopVars, Receive
  <2>2. session' # 0 => <<session', server'>> \in Bound
    BY <2>1, BoundHas
  <2>3. Bound' \subseteq Bound
    BY <1>1, <2>2 DEF Bound, Alive
  <2>4. OneServerEach'
    BY <2>1, <2>3, BoundStays DEF Wiring
  <2> QED
    BY <1>2, <1>3, <2>4 DEF Wiring
<1>5. CASE ConnectOk
  <2>1. /\ at = "connecting" /\ at' = "select" /\ UNCHANGED <<epoch, server>>
        /\ session' = epoch /\ session = 0
    BY <1>5, <1>t DEF ConnectOk
  <2>2. Bound' \subseteq Bound \cup {<<epoch, server>>}
    BY <1>1, <2>1 DEF Bound, Alive
  <2>3. \A b \in Bound : b[1] \in Nat /\ b[1] <= epoch /\ b[1] # epoch
    BY <2>1, BoundType DEF Wiring, OneServerEach
  <2>4. \A b \in Bound' : b[1] <= epoch
    BY <1>t, <2>2, <2>3
  <2>5. \A b, c \in Bound' : b[1] = c[1] => b = c
    BY <2>2, <2>3 DEF Wiring, OneServerEach
  <2>6. OneServerEach'
    BY <2>1, <2>4, <2>5 DEF OneServerEach
  <2> QED
    BY <1>2, <1>3, <2>6 DEF Wiring
<1> QED
  BY <1>4, <1>5
\* What the pool of a session gives out: a connection of that pool that nobody
\* holds, and no other pool changes.
LEMMA GotConn ==
  ASSUME IInv, Wiring, NEW e \in Nat, NEW srv \in Server, <<e, srv>> \in Bound,
         NEW id \in ConnId, GetConn(e, srv, id)
  PROVE  /\ [epoch |-> e, server |-> srv, id |-> id] \in opened'
         /\ opened \subseteq opened'
         /\ \A o \in opened' : o \in opened \/ o = [epoch |-> e, server |-> srv, id |-> id]
         /\ id \notin Held(e) /\ id # 0
         /\ IdsAreOnce' /\ PoolsAreBounded'
<1> DEFINE new == [epoch |-> e, server |-> srv, id |-> id]
<1>t. /\ opened \in SUBSET [epoch : Nat, server : Server, id : ConnId]
      /\ id \in Nat /\ id # 0
  BY ConnIdAssumption DEF IInv, TypeOK
<1>o. /\ OneServerEach /\ IdsAreOnce /\ PoolsAreBounded /\ TasksAreWired /\ SamplerIsWired
  BY DEF Wiring
<1>1. CASE id \in IdleConns(e) /\ UNCHANGED opened
  <2>1. PICK o \in opened : o.epoch = e /\ o.id = id
    BY <1>1 DEF IdleConns, PoolOf
  <2>2. o.server = srv
    BY <1>o, BoundHas, <2>1 DEF OneServerEach
  <2>3. o = new
    BY <1>t, <2>1, <2>2
  <2>4. id \notin Held(e)
    BY <1>1 DEF IdleConns
  <2>5. IdsAreOnce' /\ PoolsAreBounded'
    BY <1>1, <1>o DEF IdsAreOnce, PoolsAreBounded, PoolOf
  <2> QED
    BY <1>1, <1>t, <2>1, <2>3, <2>4, <2>5
<1>2. CASE /\ Cardinality(PoolOf(e)) < PoolMax /\ NextId(srv, id)
           /\ opened' = opened \cup {new}
  <2>1. \A o \in opened : o.server = srv => o.id < id
    BY <1>2 DEF NextId, UsedIds
  <2>2. IdsAreOnce'
    <3>1. \A o \in opened : o.server = srv => o.id # id
      BY <1>t, <2>1
    <3> QED
      BY <1>2, <1>o, <3>1 DEF IdsAreOnce
  <2>3. id \notin Held(e)
    <3>1. ASSUME NEW k \in Jobs, Alive(k), job[k].epoch = e, job[k].conn = id PROVE FALSE
      <4>1. [epoch |-> e, server |-> job[k].server, id |-> id] \in opened
        BY <1>o, <1>t, <3>1 DEF TasksAreWired, Wired
      <4>2. job[k].server = srv
        BY <1>o, <3>1, BoundHas DEF OneServerEach
      <4> QED
        BY <1>t, <2>1, <4>1, <4>2
    <3>2. ASSUME e = session, sampler = id PROVE FALSE
      <4>1. [epoch |-> e, server |-> server, id |-> id] \in opened
        BY <1>o, <1>t, <3>2 DEF SamplerIsWired
      <4>2. server = srv
        <5>1. <<e, server>> \in Bound
          BY <4>1, BoundHas
        <5> QED
          BY <1>o, <5>1 DEF OneServerEach
      <4> QED
        BY <1>t, <2>1, <4>1, <4>2
    <3> QED
      BY <3>1, <3>2 DEF Held
  <2>4. PoolsAreBounded'
    <3> SUFFICES ASSUME NEW f \in Nat
                 PROVE  IsFiniteSet(PoolOf(f)') /\ Cardinality(PoolOf(f)') <= PoolMax
      BY DEF PoolsAreBounded
    <3>1. IsFiniteSet(PoolOf(f)) /\ Cardinality(PoolOf(f)) <= PoolMax
      BY <1>o DEF PoolsAreBounded
    <3>2. CASE f # e
      <4>1. PoolOf(f)' = PoolOf(f)
        BY <1>2, <3>2 DEF PoolOf
      <4> QED
        BY <3>1, <4>1
    <3>3. CASE f = e
      <4>1. PoolOf(f)' = PoolOf(f) \cup {new} /\ new \notin PoolOf(f)
        <5>1. new \notin opened
          BY <1>t, <2>1
        <5> QED
          BY <1>2, <3>3, <5>1 DEF PoolOf
      <4>2. IsFiniteSet(PoolOf(f)') /\ Cardinality(PoolOf(f)') = Cardinality(PoolOf(f)) + 1
        BY <3>1, <4>1, FS_AddElement
      <4>3. Cardinality(PoolOf(f)) \in Nat
        BY <3>1, FS_CardinalityType
      <4> QED
        BY <1>2, <3>3, <4>2, <4>3, SizeAssumption
    <3> QED
      BY <3>2, <3>3
  <2> QED
    BY <1>2, <1>t, <2>2, <2>3, <2>4
<1> QED
  BY <1>1, <1>2 DEF GetConn

LEMMA WiresOfSampler == ASSUME IInv, Wiring, SamplerGetConn PROVE Wiring'
<1>1. /\ at = "sampling" /\ UNCHANGED <<loopVars, job>> /\ session # 0
      /\ session \in Nat /\ server \in Server /\ epoch \in Nat
  BY DEF SamplerGetConn, IInv, TypeOK, SessionIsCurrent, Hosted
<1>2. PICK id \in ConnId : GetConn(session, server, id) /\ sampler' = id
  BY DEF SamplerGetConn
<1> DEFINE new == [epoch |-> session, server |-> server, id |-> id]
<1>3. <<session, server>> \in Bound
  BY <1>1, BoundHas
<1>4. /\ new \in opened' /\ opened \subseteq opened'
      /\ \A o \in opened' : o \in opened \/ o = new
      /\ id \notin Held(session) /\ id # 0
      /\ IdsAreOnce' /\ PoolsAreBounded'
  BY <1>1, <1>2, <1>3, GotConn
<1>5. Bound' \subseteq Bound
  BY <1>1, <1>3, <1>4 DEF Bound, Alive, loopVars
<1>6. OneServerEach'
  BY <1>1, <1>5, BoundStays DEF Wiring, loopVars
<1>7. TasksAreWired'
  BY <1>1, <1>4 DEF Wiring, TasksAreWired, Wired, Mine, Alive
<1>8. SamplerIsWired'
  BY <1>1, <1>2, <1>4 DEF SamplerIsWired, Held, Alive, loopVars
<1> QED
  BY <1>4, <1>6, <1>7, <1>8 DEF Wiring

\* A task that goes on keeps its session, and its connection until it has none.
Carries(j) ==
  Alive(j)' =>
    /\ Alive(j)
    /\ job'[j].epoch = job[j].epoch /\ job'[j].server = job[j].server
    /\ job'[j].conn \in {0, job[j].conn}
    /\ job'[j].op = "sql" /\ job'[j].pc \in {"register", "work", "unregister"}
       => job'[j].conn # 0

LEMMA WiresOfTasks ==
  ASSUME IInv, Wiring, \A j \in Jobs : Carries(j), UNCHANGED <<loopVars, poolVars>>
  PROVE  Wiring'
<1>1. IdsAreOnce' /\ PoolsAreBounded'
  BY DEF Wiring, IdsAreOnce, PoolsAreBounded, PoolOf, poolVars
<1>2. Bound' \subseteq Bound
  BY DEF Bound, Carries, loopVars, poolVars
<1>3. OneServerEach'
  BY <1>2, BoundStays DEF Wiring, loopVars, IInv, TypeOK
<1>4. TasksAreWired'
  <2> SUFFICES ASSUME NEW j \in Jobs, Alive(j)'
               PROVE  Wired(job[j], opened)' /\ Mine(j)'
    BY DEF TasksAreWired
  <2>1. Carries(j) /\ Alive(j) /\ Wired(job[j], opened) /\ Mine(j)
    BY DEF Wiring, TasksAreWired, Carries
  <2>2. Wired(job[j], opened)'
    BY <2>1 DEF Wired, Carries, poolVars
  <2>3. Mine(j)'
    BY <2>1 DEF Mine, Carries
  <2> QED
    BY <2>2, <2>3
<1>5. SamplerIsWired'
  BY DEF Wiring, SamplerIsWired, Carries, loopVars, poolVars
<1> QED
  BY <1>1, <1>3, <1>4, <1>5 DEF Wiring

\* A new task is of the session held.
LEMMA WiresOfSpawn ==
  ASSUME IInv, Wiring, NEW j \in Jobs, NEW op, NEW aim, Spawn(j, op, aim)
  PROVE  Wiring'
<1>1. /\ session # 0 /\ ~Alive(j) /\ UNCHANGED <<loopVars, poolVars>>
      /\ job \in [Jobs -> Job] /\ job' = [job EXCEPT ![j] = Fresh(op, aim)]
      /\ session = epoch /\ epoch \in Nat
  BY DEF Spawn, IInv, TypeOK, SessionIsCurrent
<1>2. /\ \A k \in Jobs \ {j} : job'[k] = job[k]
      /\ job'[j].epoch = session /\ job'[j].server = server /\ job'[j].conn = 0
      /\ job'[j].pc \in {"announce", "acquire"}
  BY <1>1 DEF Fresh
<1>3. IdsAreOnce' /\ PoolsAreBounded'
  BY <1>1 DEF Wiring, IdsAreOnce, PoolsAreBounded, PoolOf, poolVars
<1>4. Bound' \subseteq Bound
  <2>1. <<session, server>> \in Bound
    BY <1>1, BoundHas
  <2>2. \A k \in Jobs : Alive(k)' => <<job'[k].epoch, job'[k].server>> \in Bound
    BY <1>2, <2>1, BoundHas DEF Alive
  <2> QED
    BY <1>1, <2>2 DEF Bound, loopVars, poolVars
<1>5. OneServerEach'
  BY <1>1, <1>4, BoundStays DEF Wiring, loopVars
<1>6. TasksAreWired'
  <2> SUFFICES ASSUME NEW k \in Jobs, Alive(k)'
               PROVE  Wired(job[k], opened)' /\ Mine(k)'
    BY DEF TasksAreWired
  <2>1. CASE k = j
    BY <1>2, <2>1 DEF Wired, Mine
  <2>2. CASE k # j
    <3>1. job'[k] = job[k] /\ Wired(job[k], opened) /\ Mine(k)
      BY <1>2, <2>2 DEF Wiring, TasksAreWired, Alive
    <3>2. Wired(job[k], opened)'
      BY <1>1, <3>1 DEF poolVars
    <3>3. Mine(k)'
      BY <1>2, <3>1 DEF Mine, Alive
    <3> QED
      BY <3>2, <3>3
  <2> QED
    BY <2>1, <2>2
<1>7. SamplerIsWired'
  BY <1>1, <1>2 DEF Wiring, SamplerIsWired, Alive, loopVars, poolVars
<1> QED
  BY <1>3, <1>5, <1>6, <1>7 DEF Wiring

LEMMA WiresOfAcquire == ASSUME IInv, Wiring, NEW j \in Jobs, Acquire(j) PROVE Wiring'
<1>1. /\ Alive(j) /\ UNCHANGED <<loopVars, sampler>> /\ epoch \in Nat
      /\ job[j].epoch \in Nat /\ job[j].server \in Server /\ job \in [Jobs -> Job]
  BY JobFacts DEF Acquire, JobStep, Alive, Sound, Job
<1>2. PICK id \in ConnId :
        /\ GetConn(job[j].epoch, job[j].server, id)
        /\ job' = [job EXCEPT ![j].conn = id,
                              ![j].pc = IF job[j].op = "sql" THEN "register" ELSE "work"]
  BY DEF Acquire
<1> DEFINE new == [epoch |-> job[j].epoch, server |-> job[j].server, id |-> id]
<1>3. <<job[j].epoch, job[j].server>> \in Bound
  BY <1>1, BoundHas
<1>4. /\ new \in opened' /\ opened \subseteq opened'
      /\ \A o \in opened' : o \in opened \/ o = new
      /\ id \notin Held(job[j].epoch) /\ id # 0
      /\ IdsAreOnce' /\ PoolsAreBounded'
  BY <1>1, <1>2, <1>3, GotConn
<1>5. /\ \A k \in Jobs \ {j} : job'[k] = job[k]
      /\ job'[j].epoch = job[j].epoch /\ job'[j].server = job[j].server
      /\ job'[j].conn = id /\ \A k \in Jobs : Alive(k)' <=> Alive(k)
  <2>1. job[j] \in Job
    BY <1>1
  <2>2. /\ \A k \in Jobs \ {j} : job'[k] = job[k]
        /\ job'[j].epoch = job[j].epoch /\ job'[j].server = job[j].server
        /\ job'[j].conn = id /\ job'[j].pc \in {"register", "work"}
    BY <1>1, <1>2, <2>1 DEF Job
  <2> QED
    BY <1>1, <2>2 DEF Alive
<1>6. Bound' \subseteq Bound
  <2>1. \A k \in Jobs : Alive(k)' => <<job'[k].epoch, job'[k].server>> \in Bound
    BY <1>3, <1>5, BoundHas
  <2>2. ASSUME NEW o \in opened' PROVE <<o.epoch, o.server>> \in Bound
    <3>1. CASE o \in opened
      BY <3>1, BoundHas
    <3>2. CASE o = new
      BY <1>3, <3>2
    <3> QED
      BY <1>4, <3>1, <3>2
  <2> QED
    BY <1>1, <2>1, <2>2 DEF Bound, loopVars
<1>7. OneServerEach'
  BY <1>1, <1>6, BoundStays DEF Wiring, loopVars
<1>8. \A k \in Jobs : Alive(k) /\ job[k].epoch = job[j].epoch => job[k].conn # id
  BY <1>4 DEF Held
<1>9. TasksAreWired'
  <2> SUFFICES ASSUME NEW k \in Jobs, Alive(k)'
               PROVE  Wired(job[k], opened)' /\ Mine(k)'
    BY DEF TasksAreWired
  <2>1. CASE k = j
    BY <1>4, <1>5, <1>8, <2>1 DEF Wired, Mine
  <2>2. CASE k # j
    <3>1. job'[k] = job[k] /\ Wired(job[k], opened) /\ Mine(k) /\ Alive(k)
      BY <1>5, <2>2 DEF Wiring, TasksAreWired
    <3>2. Wired(job[k], opened)'
      BY <1>4, <3>1 DEF Wired
    <3>3. Mine(k)'
      BY <1>5, <1>8, <3>1 DEF Mine
    <3> QED
      BY <3>2, <3>3
  <2> QED
    BY <2>1, <2>2
<1>10. SamplerIsWired'
  <2>1. sampler # 0 /\ job[j].epoch = session => id # sampler
    BY <1>4 DEF Held
  <2> QED
    BY <1>1, <1>4, <1>5, <2>1 DEF Wiring, SamplerIsWired, loopVars
<1> QED
  BY <1>4, <1>7, <1>9, <1>10 DEF Wiring

\* Tasks that move without taking a connection.
LEMMA CarriesSame ==
  ASSUME Wiring,
         \/ UNCHANGED job
         \/ \A k \in Jobs : /\ job'[k].pc = job[k].pc /\ job'[k].op = job[k].op
                           /\ job'[k].epoch = job[k].epoch /\ job'[k].conn = job[k].conn
                           /\ job'[k].server = job[k].server
  PROVE  \A j \in Jobs : Carries(j)
  BY DEF Wiring, TasksAreWired, Wired, Carries, Alive

LEMMA CarriesOne ==
  ASSUME Wiring, NEW j \in Jobs, NEW r,
         \A k \in Jobs \ {j} : job'[k] = job[k], job'[j] = r,
         r.pc # "none" =>
           /\ Alive(j) /\ r.epoch = job[j].epoch /\ r.server = job[j].server
           /\ r.conn \in {0, job[j].conn}
           /\ r.op = "sql" /\ r.pc \in {"register", "work", "unregister"}
              => r.conn # 0
  PROVE  \A k \in Jobs : Carries(k)
  BY DEF Wiring, TasksAreWired, Wired, Carries, Alive

\* Every step of a task but Acquire.
LEMMA WiresOfRuns ==
  ASSUME IInv, Wiring, NEW j \in Jobs, JobRuns(j), ~Acquire(j) PROVE Wiring'
<1>j. job[j] \in Job /\ Sound(job[j]) /\ job \in [Jobs -> Job]
  BY JobFacts
<1>u. UNCHANGED <<loopVars, poolVars>>
  BY DEF JobRuns, CheckEpoch, Emit, AcquireFail, Register, WorkEnds, Unregister, Return,
         KillQuery, DumpBatch, DumpEnds, Release, Lower, JobStep
<1>w. Alive(j) => Wired(job[j], opened)
  BY DEF Wiring, TasksAreWired
<1> SUFFICES \A k \in Jobs : Carries(k)
  BY <1>u, WiresOfTasks
<1>1. CASE CheckEpoch(j) \/ Emit(j)
  <2>1. job[j].pc \in Speaks /\ Alive(j)
    BY <1>1 DEF CheckEpoch, Emit, Speaks, Alive
  <2>2. /\ Spoken(j) \in {"acquire", "work", "quiet", "release", "none"}
        /\ Spoken(j) = "work" => job[j].op = "dump"
    BY <1>j DEF Spoken, Sound
  <2>3. PICK r \in {[job[j] EXCEPT !.armed = TRUE], Goes(j, Spoken(j)),
                    [Goes(j, Spoken(j)) EXCEPT !.armed = FALSE]} : job' = [job EXCEPT ![j] = r]
    BY <1>1, <1>j DEF CheckEpoch, Emit
  <2>4. /\ r.pc = "none" \/ r.pc = job[j].pc \/ r.pc = Spoken(j)
        /\ r.pc # "none" => /\ r.op = job[j].op /\ r.epoch = job[j].epoch
                            /\ r.server = job[j].server /\ r.conn = job[j].conn
    BY <1>j, <2>3 DEF Goes, Idle, Job
  <2>5. \A k \in Jobs : job'[k] = IF k = j THEN r ELSE job[k]
    BY <1>j, <2>3
  <2>6. r.op = "sql" /\ r.pc # "none" => r.pc \notin {"register", "work", "unregister"}
    BY <2>1, <2>2, <2>4 DEF Speaks
  <2> QED
    BY <2>1, <2>4, <2>5, <2>6, CarriesOne
<1>2. CASE \/ AcquireFail(j) \/ Register(j) \/ Unregister(j) \/ DumpBatch(j) \/ DumpEnds(j)
           \/ \E ok \in BOOLEAN : WorkEnds(j, ok)
  <2>1. /\ \A k \in Jobs \ {j} : job'[k] = job[k]
        /\ job'[j].op = job[j].op /\ job'[j].epoch = job[j].epoch
        /\ job'[j].server = job[j].server /\ job'[j].conn = job[j].conn
        /\ \/ job'[j].pc \in {"report", "return", "progress"}
           \/ job[j].pc \in {"register", "work"} /\ job'[j].pc \in {"work", "unregister"}
    <3>1. CASE AcquireFail(j)
      BY <3>1, <1>j DEF AcquireFail, JobStep, Job
    <3>2. CASE Register(j)
      BY <3>2, <1>j DEF Register, JobStep, Job
    <3>3. CASE Unregister(j)
      BY <3>3, <1>j DEF Unregister, JobStep, Job
    <3>4. CASE DumpBatch(j)
      BY <3>4, <1>j DEF DumpBatch, JobStep, Job
    <3>5. CASE DumpEnds(j)
      BY <3>5, <1>j DEF DumpEnds, JobStep, Job
    <3>6. ASSUME NEW ok \in BOOLEAN, WorkEnds(j, ok)
          PROVE  /\ \A k \in Jobs \ {j} : job'[k] = job[k]
                 /\ job'[j].op = job[j].op /\ job'[j].epoch = job[j].epoch
                 /\ job'[j].server = job[j].server /\ job'[j].conn = job[j].conn
                 /\ \/ job'[j].pc = "return"
                    \/ job[j].pc = "work" /\ job'[j].pc = "unregister"
      BY <3>6, <1>j DEF WorkEnds, JobStep, Job
    <3> QED
      BY <1>2, <3>1, <3>2, <3>3, <3>4, <3>5, <3>6
  <2>2. job[j].pc # "none"
    BY <1>2 DEF AcquireFail, Register, Unregister, DumpBatch, DumpEnds, WorkEnds, JobStep
  <2> QED
    BY <1>w, <2>1, <2>2, CarriesOne DEF Alive, Wired
<1>3. CASE Return(j) \/ Release(j) \/ Lower(j)
  <2>1. PICK r \in {Idle, [job[j] EXCEPT !.conn = 0, !.pc = "report"], [job[j] EXCEPT !.pc = "lower"]} :
          job' = [job EXCEPT ![j] = r]
    BY <1>3, <1>j DEF Return, Release, Lower
  <2>2. /\ r.pc \in {"none", "report", "lower"}
        /\ r.pc # "none" => /\ r.epoch = job[j].epoch /\ r.server = job[j].server
                            /\ r.conn \in {0, job[j].conn}
    <3>1. CASE r = Idle
      BY <3>1 DEF Idle
    <3>2. CASE r = [job[j] EXCEPT !.conn = 0, !.pc = "report"]
      BY <1>j, <3>2 DEF Job
    <3>3. CASE r = [job[j] EXCEPT !.pc = "lower"]
      BY <1>j, <3>3 DEF Job
    <3> QED
      BY <2>1, <3>1, <3>2, <3>3
  <2>3. \A k \in Jobs : job'[k] = IF k = j THEN r ELSE job[k]
    BY <1>j, <2>1
  <2>4. Alive(j)
    BY <1>3 DEF Return, Release, Lower, JobStep, Alive
  <2> QED
    BY <2>2, <2>3, <2>4, CarriesOne
<1>4. CASE KillQuery(j)
  <2>1. job[j].pc = "work" /\ job[j].op = "cancelsql"
    BY <1>4 DEF KillQuery, JobStep
  <2>2. \A k \in Jobs : job'[k] \in IF k = j
                      THEN {[job[j] EXCEPT !.pc = "return"],
                            [job[j] EXCEPT !.ok = FALSE, !.pc = "return"]}
                      ELSE {job[k], [job[k] EXCEPT !.killed = TRUE]}
    BY <1>4, <1>j DEF KillQuery
  <2>3. \A k \in Jobs : /\ job'[k].op = job[k].op /\ job'[k].epoch = job[k].epoch
                       /\ job'[k].conn = job[k].conn /\ job'[k].server = job[k].server
                       /\ job'[k].pc = IF k = j THEN "return" ELSE job[k].pc
    <3> SUFFICES ASSUME NEW k \in Jobs
                 PROVE  /\ job'[k].op = job[k].op /\ job'[k].epoch = job[k].epoch
                        /\ job'[k].conn = job[k].conn /\ job'[k].server = job[k].server
                        /\ job'[k].pc = IF k = j THEN "return" ELSE job[k].pc
      OBVIOUS
    <3>1. CASE k = j
      <4>1. \/ job'[k] = [job[j] EXCEPT !.pc = "return"]
            \/ job'[k] = [job[j] EXCEPT !.ok = FALSE, !.pc = "return"]
        BY <2>2, <3>1
      <4> QED
        BY <1>j, <3>1, <4>1 DEF Job
    <3>2. CASE k # j
      <4>1. job'[k] = job[k] \/ job'[k] = [job[k] EXCEPT !.killed = TRUE]
        BY <2>2, <3>2
      <4>2. job[k] \in Job
        BY <1>j
      <4> QED
        BY <3>2, <4>1, <4>2 DEF Job
    <3> QED
      BY <3>1, <3>2
  <2> QED
    BY <2>1, <2>3 DEF Carries, Alive, Wiring, TasksAreWired, Wired
<1> QED
  BY <1>1, <1>2, <1>3, <1>4 DEF JobRuns

LEMMA WiresNext == ASSUME IInv, Wiring, [Next]_vars PROVE Wiring'
<1>t. job \in [Jobs -> Job]
  BY DEF IInv, TypeOK
<1>1. CASE \/ Connect \/ ConnectOk \/ ConnectFail \/ Disconnect
           \/ SetViews \/ SetPaused \/ SetWriteMode \/ Tune
           \/ Dropped \/ NothingToCancel \/ Refuse
           \/ Tick \/ SampleOk \/ SampleFail
  BY <1>1, WiresOfLoop
<1>2. CASE SamplerGetConn
  BY <1>2, WiresOfSampler
<1>3. ASSUME NEW j \in Jobs, StartJob(j) \/ RunDump(j) \/ CancelSql(j) \/ RunGated(j)
      PROVE  Wiring'
  <2>1. \E op, aim : Spawn(j, op, aim)
    BY <1>3 DEF StartJob, RunDump, CancelSql, RunGated
  <2> QED
    BY <2>1, WiresOfSpawn
<1>4. CASE CancelDump
  <2>1. UNCHANGED <<loopVars, poolVars>>
    BY <1>4 DEF CancelDump
  <2>2. \A k \in Jobs : /\ job'[k].pc = job[k].pc /\ job'[k].op = job[k].op
                       /\ job'[k].epoch = job[k].epoch /\ job'[k].conn = job[k].conn
                       /\ job'[k].server = job[k].server
    <3>1. \A k \in Jobs : job'[k] = job[k] \/ job'[k] = [job[k] EXCEPT !.told = TRUE]
      BY <1>4 DEF CancelDump
    <3> QED
      BY <1>t, <3>1 DEF Job
  <2> QED
    BY <2>1, <2>2, CarriesSame, WiresOfTasks
<1>5. ASSUME NEW j \in Jobs, JobRuns(j), ~Acquire(j) PROVE Wiring'
  BY <1>5, WiresOfRuns
<1>6. ASSUME NEW j \in Jobs, Acquire(j) PROVE Wiring'
  BY <1>6, WiresOfAcquire
<1>7. CASE AnyGui \/ UNCHANGED vars
  <2>1. UNCHANGED <<loopVars, poolVars, job>>
    BY <1>7 DEF AnyGui, vars
  <2> QED
    BY <2>1, CarriesSame, WiresOfTasks
<1> QED
  BY <1>1, <1>2, <1>3, <1>4, <1>5, <1>6, <1>7 DEF Next, CollectorStep, LoopStep

\* Only Register and Unregister touch the slot.
LEMMA SlotMoves ==
  ASSUME [Next]_vars, inflight' # inflight
  PROVE  \E j \in Jobs : Register(j) \/ Unregister(j)
<1>1. ~LoopStep
  BY DEF LoopStep, Connect, ConnectOk, ConnectFail, Disconnect, SetViews, SetPaused,
         SetWriteMode, Tune, CancelDump, Dropped, NothingToCancel, Refuse, StartJob, RunDump,
         CancelSql, RunGated, Spawn, Tick, SamplerGetConn, SampleOk, SampleFail, shared
<1>2. ~AnyGui /\ ~UNCHANGED vars
  BY DEF AnyGui, vars, shared
<1>3. ASSUME NEW j \in Jobs, JobRuns(j) PROVE Register(j) \/ Unregister(j)
  BY <1>3 DEF JobRuns, CheckEpoch, Emit, Acquire, AcquireFail, WorkEnds, Return, KillQuery,
              DumpBatch, DumpEnds, Release, Lower, JobStep, shared
<1> QED
  BY <1>1, <1>2, <1>3 DEF Next, CollectorStep

\* The statements that run on another server under the id of the one of j.
Rivals(j) ==
  {k \in Jobs : Registered(k) /\ job[k].conn = job[j].conn /\ job[k].server # job[j].server}

\* What a step can do to the slot of a statement that goes on.
LEMMA SlotLost ==
  ASSUME IInv, Wiring, [Next]_vars, NEW j \in Jobs,
         Registered(j), Registered(j)', inflight = job[j].conn
  PROVE  \/ inflight' = inflight
         \/ \E k \in Jobs : ~Registered(k) /\ Registered(k)' /\ inflight' = job'[k].conn
         \/ Rivals(j) # {}
<1> SUFFICES ASSUME inflight' # inflight
             PROVE  \/ \E k \in Jobs : ~Registered(k) /\ Registered(k)' /\ inflight' = job'[k].conn
                    \/ Rivals(j) # {}
  OBVIOUS
<1>1. PICK k \in Jobs : Register(k) \/ Unregister(k)
  BY SlotMoves
<1>k. job[k] \in Job /\ Sound(job[k]) /\ job \in [Jobs -> Job]
  BY JobFacts
<1>2. CASE Register(k)
  <2>1. ~Registered(k) /\ job[k].op = "sql"
    BY <1>2, <1>k DEF Register, JobStep, Registered, Sound
  <2>2. job'[k].pc = "work" /\ job'[k].op = "sql" /\ job'[k].conn = job[k].conn
    BY <1>2, <1>k, <2>1 DEF Register, Job
  <2> QED
    BY <1>2, <2>1, <2>2 DEF Register, Registered
<1>3. CASE Unregister(k)
  <2>1. /\ inflight = job[k].conn /\ job[k].pc = "unregister" /\ job[k].op = "sql"
        /\ job'[k].pc = "return"
    BY <1>3, <1>k DEF Unregister, JobStep, Sound, Job
  <2>2. k # j /\ Registered(k) /\ Alive(k) /\ Alive(j) /\ job[k].conn = job[j].conn
    BY <2>1 DEF Registered, Alive
  <2>3. job[j].conn # 0 /\ Wired(job[j], opened) /\ Wired(job[k], opened) /\ Mine(j)
    BY <2>2 DEF Wiring, TasksAreWired, Wired, Registered
  <2>4. job[k].epoch # job[j].epoch
    BY <2>2, <2>3 DEF Mine
  <2>5. job[k].server # job[j].server
    BY <2>2, <2>3, <2>4 DEF Wiring, IdsAreOnce, Wired
  <2> QED
    BY <2>2, <2>5 DEF Rivals
<1> QED
  BY <1>1, <1>2, <1>3

LEMMA InitWires == Init => Wiring
<1> SUFFICES ASSUME Init PROVE Wiring
  OBVIOUS
<1>1. opened = {} /\ session = 0 /\ sampler = 0 /\ \A j \in Jobs : ~Alive(j)
  BY DEF Init, Alive, Idle
<1>2. Bound = {}
  BY <1>1 DEF Bound
<1>3. PoolsAreBounded
  <2>1. \A e \in Nat : PoolOf(e) = {}
    BY <1>1 DEF PoolOf
  <2> QED
    BY <2>1, FS_EmptySet, SizeAssumption DEF PoolsAreBounded
<1> QED
  BY <1>1, <1>2, <1>3 DEF Wiring, OneServerEach, IdsAreOnce, TasksAreWired, SamplerIsWired

\* A connection is in one pool, no pool has more than its maximum, and at most
\* one task or the sampler holds it: what the session captured at a spawn is
\* worth as long as the task lives, whatever the loop has connected to since.
THEOREM ConnectionsAreTheirOwn == Spec => []Wiring
<1>1. IInv /\ Wiring /\ [Next]_vars => Wiring'
  BY WiresNext
<1> QED
  BY <1>1, InitWires, Invariance, PTL DEF Spec

SlotIsLostToRivals ==
  [][\A j \in Jobs :
       /\ Registered(j) /\ Registered(j)'
       /\ inflight = job[j].conn
       => \/ inflight' = inflight
          \/ \E k \in Jobs : ~Registered(k) /\ Registered(k)' /\ inflight' = job'[k].conn
          \/ Rivals(j) # {}
    ]_vars

\* A statement that holds the cancel slot loses it only to one that claims it,
\* or to the guard of one that runs on another server under the same id: the
\* guard compares connection ids, and only one server makes them unique.
THEOREM SlotIsKeptFromOthers == Spec => SlotIsLostToRivals
<1>1. IInv /\ Wiring /\ [Next]_vars =>
        [\A j \in Jobs :
           /\ Registered(j) /\ Registered(j)'
           /\ inflight = job[j].conn
           => \/ inflight' = inflight
              \/ \E k \in Jobs : ~Registered(k) /\ Registered(k)' /\ inflight' = job'[k].conn
              \/ Rivals(j) # {}]_vars
  BY SlotLost
<1> QED
  BY <1>1, ConnectionsAreTheirOwn, Invariance, PTL DEF Spec, SlotIsLostToRivals

OneServerAtATime ==
  \A j, k \in Jobs : Registered(j) /\ Registered(k) => job[j].server = job[k].server

\* As long as no statements of two servers are under way together, a statement
\* keeps the slot until its own guard drops or another statement claims it.

THEOREM SlotIsKeptOnOneServer == Spec /\ []OneServerAtATime => SlotIsKept
<1>1. IInv /\ Wiring /\ OneServerAtATime /\ [Next]_vars =>
        [\A j \in Jobs :
           /\ Registered(j) /\ Registered(j)'
           /\ inflight = job[j].conn
           => \/ inflight' = inflight
              \/ \E k \in Jobs : ~Registered(k) /\ Registered(k)' /\ inflight' = job'[k].conn]_vars
  BY SlotLost DEF OneServerAtATime, Rivals
<1> QED
  BY <1>1, ConnectionsAreTheirOwn, Invariance, PTL DEF Spec, SlotIsKept
=============================================================================
