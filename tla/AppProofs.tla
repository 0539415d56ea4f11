------------------------------- MODULE AppProofs -------------------------------
(***************************************************************************)
(* The GUI of App is one of the GUIs that Collector allows, so what is     *)
(* proved of Collector holds in App; and the write gate of the collector   *)
(* follows the switch of the GUI through the command queue.  Then, what the *)
(* screen shows: types, the busy indicator, the session a sample belongs    *)
(* to, and the flags of the console and the dump.                          *)
(***************************************************************************)
EXTENDS App, CollectorProofs

\* The switches and the tab, as the commands carry them.
GuiOK == writeMode \in BOOLEAN /\ pauseBox \in BOOLEAN /\ view \in Views
AppInv == IInv /\ GuiOK

-----------------------------------------------------------------------------
(* Every step of App is a step of Collector or leaves it alone.            *)

\* A click or a frame sends one command.
LEMMA SubmitIsAnyGui ==
  ASSUME Channels, NEW c \in Command, Submit(c) PROVE AnyGui
<1>1. <<c>> \in Seq(Command) /\ cmds' = cmds \o <<c>>
  BY DEF Submit, Channels
<1> QED
  BY <1>1 DEF Submit, AnyGui

\* Taking an event may send a few.
LEMMA TakeIsAnyGui ==
  ASSUME NEW kinds, Take(kinds), NEW cs \in Seq(Command), cmds' = cmds \o cs
  PROVE  AnyGui
  BY DEF Take, AnyGui

LEMMA PlainCommands == ASSUME NEW op \in PlainOps PROVE [op |-> op] \in Command
  BY DEF Command

LEMMA UserIsAnyGui == ASSUME AppInv, UserStep \/ SyncViews PROVE [Next]_vars
<1>c. Channels /\ GuiOK
  BY TypeParts DEF AppInv, IInv
<1>1. CASE \E c \in Command : Submit(c)
  BY <1>1, <1>c, SubmitIsAnyGui DEF Next
<1>2. CASE UNCHANGED vars
  BY <1>2
<1>3. CASE ClickConnect
  <2>1. PICK s \in Server : Submit([op |-> "connect", server |-> s])
    BY <1>3 DEF ClickConnect, Click
  <2>2. [op |-> "connect", server |-> s] \in Command
    BY DEF Command
  <2> QED
    BY <1>1, <2>1, <2>2
<1>4. CASE ClickDisconnect
  BY <1>1, <1>4, PlainCommands DEF ClickDisconnect, Click, PlainOps
<1>5. CASE ClickRun
  <2>1. PICK w \in BOOLEAN : Submit([op |-> "sql", writes |-> w])
    BY <1>5 DEF ClickRun, Click
  <2>2. [op |-> "sql", writes |-> w] \in Command
    BY DEF Command
  <2> QED
    BY <1>1, <2>1, <2>2
<1>6. CASE ClickCancelSql
  BY <1>1, <1>6, PlainCommands DEF ClickCancelSql, Click, PlainOps
<1>7. CASE StartDump \/ CancelDumpClick
  BY <1>1, <1>7, PlainCommands DEF StartDump, CancelDumpClick, Click, PlainOps
<1>8. CASE SetWriteModeClick
  <2>1. Submit([op |-> "write", on |-> ~writeMode])
    BY <1>8 DEF SetWriteModeClick, Click
  <2>2. [op |-> "write", on |-> ~writeMode] \in Command
    BY <1>c DEF Command, GuiOK
  <2> QED
    BY <1>1, <2>1, <2>2
<1>9. CASE ClickApply
  BY <1>1, <1>9, PlainCommands DEF ClickApply, Click, PlainOps
<1>10. CASE SetPausedClick
  <2>1. Submit([op |-> "pause", on |-> ~pauseBox])
    BY <1>10 DEF SetPausedClick, Click
  <2>2. [op |-> "pause", on |-> ~pauseBox] \in Command
    BY <1>c DEF Command, GuiOK
  <2> QED
    BY <1>1, <2>1, <2>2
<1>11. CASE ClickOther
  <2>1. PICK op \in QuietOps \cup {"advisor", "browse", "kill", "tune"} : Submit([op |-> op])
    BY <1>11 DEF ClickOther, Click
  <2>2. op \in PlainOps
    BY DEF PlainOps
  <2> QED
    BY <1>1, <2>1, <2>2, PlainCommands
<1>12. CASE SwitchTab
  BY <1>2, <1>12 DEF SwitchTab
<1>13. CASE SyncViews
  <2>1. Submit([op |-> "views", needs |-> view])
    BY <1>13 DEF SyncViews
  <2>2. [op |-> "views", needs |-> view] \in Command
    BY <1>c, ViewsAssumption DEF Command, GuiOK
  <2> QED
    BY <1>1, <2>1, <2>2
<1> QED
  BY <1>3, <1>4, <1>5, <1>6, <1>7, <1>8, <1>9, <1>10, <1>11, <1>12, <1>13 DEF UserStep

LEMMA PumpIsAnyGui == ASSUME AppInv, Pump PROVE Next
<1>c. Channels /\ GuiOK
  BY TypeParts DEF AppInv, IInv
<1>s. cmds = cmds \o <<>> /\ <<>> \in Seq(Command)
  BY <1>c DEF Channels
<1>1. CASE OnConnecting \/ OnDisconnected \/ OnBusy \/ OnSqlBusy \/ OnDump \/ OnOther
  BY <1>1, <1>s, TakeIsAnyGui
  DEF OnConnecting, OnDisconnected, OnBusy, OnSqlBusy, OnDump, OnOther, Next
<1>2. CASE OnConnected
  <2>1. [op |-> "write", on |-> writeMode] \in Command /\ [op |-> "schemas"] \in Command
    BY <1>c DEF Command, PlainOps, QuietOps, GuiOK
  <2>2. <<[op |-> "write", on |-> writeMode], [op |-> "schemas"]>> \in Seq(Command)
    BY <2>1
  <2> QED
    BY <1>2, <2>2, TakeIsAnyGui DEF OnConnected, Next
<1>3. CASE OnApplied
  <2>1. [op |-> "browse"] \in Command
    BY PlainCommands DEF PlainOps
  <2>2. cmds' = cmds \o <<>> \/ cmds' = cmds \o <<[op |-> "browse"]>>
    BY <1>3, <1>c, <1>s, <2>1 DEF OnApplied, Channels
  <2>3. <<[op |-> "browse"]>> \in Seq(Command)
    BY <2>1
  <2> QED
    BY <1>3, <1>s, <2>2, <2>3, TakeIsAnyGui DEF OnApplied, Next
<1> QED
  BY <1>1, <1>2, <1>3 DEF Pump

LEMMA AppStepIsStep == ASSUME AppInv, [AppNext]_appVars PROVE [Next]_vars
<1>1. CASE UserStep \/ SyncViews
  BY <1>1, UserIsAnyGui
<1>2. CASE Pump
  BY <1>2, PumpIsAnyGui
<1>3. CASE Paced
  BY <1>3 DEF Paced, Next
<1>4. CASE UNCHANGED appVars
  BY <1>4 DEF appVars
<1> QED
  BY <1>1, <1>2, <1>3, <1>4 DEF AppNext

LEMMA GuiKeepsOK == ASSUME AppInv, [AppNext]_appVars PROVE GuiOK'
<1>1. UNCHANGED writeMode \/ writeMode' = ~writeMode
  BY DEF AppNext, UserStep, ClickConnect, ClickDisconnect, ClickRun, ClickCancelSql, StartDump,
     CancelDumpClick, SetWriteModeClick, ClickApply, SetPausedClick, ClickOther, SwitchTab,
     SyncViews, Pump, OnConnecting, OnConnected, OnDisconnected, OnBusy, OnSqlBusy, OnDump,
     OnApplied, OnOther, Paced, guiVars, appVars
<1>2. UNCHANGED pauseBox \/ pauseBox' = ~pauseBox
  BY DEF AppNext, UserStep, ClickConnect, ClickDisconnect, ClickRun, ClickCancelSql, StartDump,
     CancelDumpClick, SetWriteModeClick, ClickApply, SetPausedClick, ClickOther, SwitchTab,
     SyncViews, Pump, OnConnecting, OnConnected, OnDisconnected, OnBusy, OnSqlBusy, OnDump,
     OnApplied, OnOther, Paced, guiVars, appVars
<1>3. UNCHANGED view \/ view' \in Views
  BY DEF AppNext, UserStep, ClickConnect, ClickDisconnect, ClickRun, ClickCancelSql, StartDump,
     CancelDumpClick, SetWriteModeClick, ClickApply, SetPausedClick, ClickOther, SwitchTab,
     SyncViews, Pump, OnConnecting, OnConnected, OnDisconnected, OnBusy, OnSqlBusy, OnDump,
     OnApplied, OnOther, Paced, guiVars, appVars
<1> QED
  BY <1>1, <1>2, <1>3, Zenon DEF AppInv, GuiOK

LEMMA AppInvariance == AppSpec => []AppInv
<1>1. AppInit => AppInv
  BY InitHolds DEF AppInit, AppInv, GuiOK
<1>2. AppInv /\ [AppNext]_appVars => AppInv'
  BY AppStepIsStep, GuiKeepsOK, NextKeeps DEF AppInv
<1> QED
  BY <1>1, <1>2, PTL DEF AppSpec

\* The application is a collector with one particular GUI.
THEOREM AppImplementsCollector == AppSpec => Spec
<1>1. AppInit => Init
  BY DEF AppInit
<1>2. AppInv /\ [AppNext]_appVars => [Next]_vars
  BY AppStepIsStep
<1> QED
  BY <1>1, <1>2, AppInvariance, PTL DEF AppSpec, Spec

\* So in the application, too, a statement keeps the cancel slot from the late
\* end of an earlier one, while no other server's statements are under way.
THEOREM AppKeepsTheSlot == AppSpec /\ []OneServerAtATime => SlotIsKept
  BY AppImplementsCollector, SlotIsKeptOnOneServer, PTL

-----------------------------------------------------------------------------
(* The write gate.                                                         *)

\* GateIs of a queue q and a gate g, free of the state.
Sets(q, k, i) == /\ k = 0 \/ q[k].op = "write"
                 /\ \A m \in k+1 .. i-1 : q[m].op # "write"
Meets(q, g, i, b) == \A k \in 0..i-1 : Sets(q, k, i) => (IF k = 0 THEN g ELSE q[k].on) = b
InStep(q, g, w) == /\ \A i \in 1..Len(q) : Writes(q[i]) => Meets(q, g, i, TRUE)
                   /\ Meets(q, g, Len(q) + 1, w)

LEMMA GateInStep ==
  cmds \in Seq(Command) => (GateFollowsSwitch <=> InStep(cmds, allowWrites, writeMode))
<1> SUFFICES ASSUME cmds \in Seq(Command)
             PROVE  GateFollowsSwitch <=> InStep(cmds, allowWrites, writeMode)
  OBVIOUS
<1>1. ASSUME NEW i, NEW b PROVE GateIs(i, b) <=> Meets(cmds, allowWrites, i, b)
  <2>1. \A k : Setter(k, i) <=> Sets(cmds, k, i)
    BY DEF Setter, Sets
  <2> QED
    BY <2>1, Zenon DEF GateIs, Meets
<1>2. DOMAIN cmds = 1..Len(cmds)
  OBVIOUS
<1> QED
  BY <1>1, <1>2, Zenon DEF GateFollowsSwitch, InStep

\* What is queued behind a command does not concern it.
LEMMA AppendBehind ==
  ASSUME NEW q \in Seq(Command), NEW c \in Command, NEW g, NEW b,
         NEW i \in 1..Len(q)+1, Meets(q, g, i, b)
  PROVE  Meets(Append(q, c), g, i, b)
<1>1. \A k \in 1..Len(q) : Append(q, c)[k] = q[k]
  OBVIOUS
<1> QED
  BY <1>1 DEF Meets, Sets

\* The gate behind a command that leaves it alone.
LEMMA AppendPlain ==
  ASSUME NEW q \in Seq(Command), NEW c \in Command, NEW g, NEW b,
         c.op # "write", Meets(q, g, Len(q) + 1, b)
  PROVE  Meets(Append(q, c), g, Len(q) + 2, b)
<1> DEFINE p == Append(q, c)
<1>1. Len(q) \in Nat /\ p[Len(q) + 1] = c /\ \A k \in 1..Len(q) : p[k] = q[k]
  OBVIOUS
<1> HIDE DEF p
<1> SUFFICES ASSUME NEW k \in 0..Len(q)+1, Sets(p, k, Len(q) + 2)
             PROVE  (IF k = 0 THEN g ELSE p[k].on) = b
  BY DEF Meets, p
<1>2. k # Len(q) + 1
  BY <1>1 DEF Sets
<1>3. k \in 0..Len(q) /\ Sets(q, k, Len(q) + 1)
  BY <1>1, <1>2 DEF Sets
<1> QED
  BY <1>1, <1>3 DEF Meets

\* The gate behind a command that sets it.
LEMMA AppendWrite ==
  ASSUME NEW q \in Seq(Command), NEW c \in Command, NEW g, c.op = "write"
  PROVE  Meets(Append(q, c), g, Len(q) + 2, c.on)
<1> DEFINE p == Append(q, c)
<1>1. Len(q) \in Nat /\ p[Len(q) + 1] = c
  OBVIOUS
<1> HIDE DEF p
<1> SUFFICES ASSUME NEW k \in 0..Len(q)+1, Sets(p, k, Len(q) + 2)
             PROVE  (IF k = 0 THEN g ELSE p[k].on) = c.on
  BY DEF Meets, p
<1>2. k = Len(q) + 1
  BY <1>1 DEF Sets
<1> QED
  BY <1>1, <1>2

\* The head is taken, and sets the gate if it says so.
LEMMA TakeHead ==
  ASSUME NEW q \in Seq(Command), q # <<>>, NEW g, NEW h, NEW b,
         h = IF Head(q).op = "write" THEN Head(q).on ELSE g,
         NEW i \in 1..Len(q), Meets(q, g, i + 1, b)
  PROVE  Meets(Tail(q), h, i, b)
<1> DEFINE p == Tail(q)
<1>1. Len(q) \in Nat /\ Head(q) = q[1] /\ \A k \in 1..Len(q)-1 : p[k] = q[k + 1]
  OBVIOUS
<1> HIDE DEF p
<1> SUFFICES ASSUME NEW k \in 0..i-1, Sets(p, k, i)
             PROVE  (IF k = 0 THEN h ELSE p[k].on) = b
  BY DEF Meets, p
<1>2. \A m \in k+2 .. i : q[m].op # "write"
  <2> SUFFICES ASSUME NEW m \in k+2 .. i PROVE q[m].op # "write"
    OBVIOUS
  <2>1. m - 1 \in k+1 .. i-1 /\ p[m - 1] = q[m]
    BY <1>1
  <2> QED
    BY <2>1 DEF Sets
<1>3. CASE k # 0
  <2>1. k + 1 \in 0..i /\ p[k] = q[k + 1] /\ Sets(q, k + 1, i + 1)
    BY <1>1, <1>2, <1>3 DEF Sets
  <2> QED
    BY <1>3, <2>1 DEF Meets
<1>4. CASE k = 0 /\ q[1].op = "write"
  <2>1. 1 \in 0..i /\ Sets(q, 1, i + 1)
    BY <1>2, <1>4 DEF Sets
  <2> QED
    BY <1>1, <1>4, <2>1 DEF Meets
<1>5. CASE k = 0 /\ q[1].op # "write"
  <2>1. 0 \in 0..i /\ Sets(q, 0, i + 1)
    BY <1>2, <1>5 DEF Sets
  <2> QED
    BY <1>1, <1>5, <2>1 DEF Meets
<1> QED
  BY <1>3, <1>4, <1>5

LEMMA InStepAppend ==
  ASSUME NEW q \in Seq(Command), NEW c \in Command, NEW g, NEW w, InStep(q, g, w),
         c.op # "write", Writes(c) => w = TRUE
  PROVE  InStep(Append(q, c), g, w)
<1> DEFINE p == Append(q, c)
<1>1. Len(q) \in Nat /\ Len(p) = Len(q) + 1 /\ p[Len(q) + 1] = c /\ \A k \in 1..Len(q) : p[k] = q[k]
  OBVIOUS
<1>2. Meets(p, g, Len(q) + 2, w)
  BY AppendPlain DEF InStep
<1>3. \A i \in 1..Len(q) : Writes(q[i]) => Meets(p, g, i, TRUE)
  <2> SUFFICES ASSUME NEW i \in 1..Len(q), Writes(q[i]) PROVE Meets(p, g, i, TRUE)
    OBVIOUS
  <2>1. Meets(q, g, i, TRUE)
    BY DEF InStep
  <2>2. i \in 1..Len(q)+1
    BY <1>1
  <2> QED
    BY <2>1, <2>2, AppendBehind, Zenon
<1>4. Writes(c) => Meets(p, g, Len(q) + 1, TRUE)
  <2> SUFFICES ASSUME Writes(c) PROVE Meets(p, g, Len(q) + 1, TRUE)
    OBVIOUS
  <2>1. w = TRUE /\ Meets(q, g, Len(q) + 1, w)
    BY DEF InStep
  <2>2. Meets(q, g, Len(q) + 1, TRUE)
    BY <2>1, Zenon
  <2>3. Len(q) + 1 \in 1..Len(q)+1
    BY <1>1
  <2> QED
    BY <2>2, <2>3, AppendBehind, Zenon
<1>5. Len(p) + 1 = Len(q) + 2 /\ \A i \in 1..Len(p) : i \in 1..Len(q) \/ i = Len(q) + 1
  BY <1>1
<1> HIDE DEF p
<1>6. \A i \in 1..Len(p) : Writes(p[i]) => Meets(p, g, i, TRUE)
  BY <1>1, <1>3, <1>4, <1>5
<1> QED
  BY <1>2, <1>5, <1>6 DEF InStep, p

LEMMA InStepWrite ==
  ASSUME NEW q \in Seq(Command), NEW c \in Command, NEW g, NEW w, InStep(q, g, w),
         c.op = "write"
  PROVE  InStep(Append(q, c), g, c.on)
<1> DEFINE p == Append(q, c)
<1>1. Len(q) \in Nat /\ Len(p) = Len(q) + 1 /\ p[Len(q) + 1] = c /\ \A k \in 1..Len(q) : p[k] = q[k]
  OBVIOUS
<1>2. Meets(p, g, Len(q) + 2, c.on)
  BY AppendWrite
<1>3. \A i \in 1..Len(q) : Writes(q[i]) => Meets(p, g, i, TRUE)
  <2> SUFFICES ASSUME NEW i \in 1..Len(q), Writes(q[i]) PROVE Meets(p, g, i, TRUE)
    OBVIOUS
  <2>1. Meets(q, g, i, TRUE)
    BY DEF InStep
  <2>2. i \in 1..Len(q)+1
    BY <1>1
  <2> QED
    BY <2>1, <2>2, AppendBehind, Zenon
<1>4. ~Writes(c)
  BY DEF Writes
<1>5. Len(p) + 1 = Len(q) + 2 /\ \A i \in 1..Len(p) : i \in 1..Len(q) \/ i = Len(q) + 1
  BY <1>1
<1> HIDE DEF p
<1>6. \A i \in 1..Len(p) : Writes(p[i]) => Meets(p, g, i, TRUE)
  BY <1>1, <1>3, <1>4, <1>5
<1> QED
  BY <1>2, <1>5, <1>6 DEF InStep, p

LEMMA InStepTake ==
  ASSUME NEW q \in Seq(Command), q # <<>>, NEW g, NEW h, NEW w, InStep(q, g, w),
         h = IF Head(q).op = "write" THEN Head(q).on ELSE g
  PROVE  InStep(Tail(q), h, w)
<1> DEFINE p == Tail(q)
<1>1. Len(q) \in Nat \ {0} /\ Len(p) = Len(q) - 1 /\ \A k \in 1..Len(q)-1 : p[k] = q[k + 1]
  OBVIOUS
<1>2. Meets(p, h, Len(p) + 1, w)
  BY <1>1, TakeHead DEF InStep
<1>3. \A i \in 1..Len(p) : i \in 1..Len(q) /\ i + 1 \in 1..Len(q) /\ p[i] = q[i + 1]
  BY <1>1
<1>4. \A i \in 1..Len(p) : Writes(p[i]) => Meets(p, h, i, TRUE)
  BY <1>3, TakeHead DEF InStep
<1> QED
  BY <1>2, <1>4 DEF InStep

\* What the collector does with the head of the queue and the gate.
LEMMA CollectorTakes ==
  ASSUME CollectorStep
  PROVE  \/ UNCHANGED <<cmds, allowWrites>>
         \/ /\ cmds # <<>> /\ cmds' = Tail(cmds)
            /\ allowWrites' = IF Head(cmds).op = "write" THEN Head(cmds).on ELSE allowWrites
<1>1. CASE SetWriteMode
  BY <1>1 DEF SetWriteMode, Receive
<1>2. CASE Connect \/ Disconnect \/ SetViews \/ SetPaused
  BY <1>2 DEF Connect, Disconnect, SetViews, SetPaused, Receive
<1>3. CASE Tune \/ CancelDump \/ NothingToCancel \/ Refuse
  BY <1>3 DEF Tune, CancelDump, NothingToCancel, Refuse, Receive, loopVars
<1>4. CASE Dropped
  BY <1>4 DEF Dropped, Receive, loopVars, JobOps, QuietOps, BusyOps
<1>5. CASE ConnectOk \/ ConnectFail \/ Tick \/ SamplerGetConn \/ SampleOk \/ SampleFail
  BY <1>5 DEF ConnectOk, ConnectFail, Tick, SamplerGetConn, SampleOk, SampleFail, loopVars
<1>6. CASE \E j \in Jobs : StartJob(j) \/ RunDump(j) \/ CancelSql(j) \/ RunGated(j)
  BY <1>6 DEF StartJob, RunDump, CancelSql, RunGated, Receive, Spawn, loopVars,
     JobOps, QuietOps, BusyOps
<1>7. CASE \E j \in Jobs : JobRuns(j)
  <2>1. PICK j \in Jobs : JobRuns(j)
    BY <1>7
  <2> QED
    BY <2>1 DEF JobRuns, JobStep, CheckEpoch, Emit, Acquire, AcquireFail, Register, WorkEnds,
       Unregister, Return, KillQuery, DumpBatch, DumpEnds, Release, Lower, loopVars
<1> QED
  BY <1>1, <1>2, <1>3, <1>4, <1>5, <1>6, <1>7 DEF CollectorStep, LoopStep

LEMMA GateStep ==
  ASSUME AppInv, GateFollowsSwitch, [AppNext]_appVars PROVE GateFollowsSwitch'
<1>c. cmds \in Seq(Command) /\ GuiOK
  BY DEF AppInv, IInv, TypeOK
<1>n. cmds' \in Seq(Command)
  BY AppStepIsStep, NextKeeps DEF AppInv, IInv, TypeOK
<1>g. InStep(cmds, allowWrites, writeMode)
  BY <1>c, GateInStep
<1> SUFFICES InStep(cmds', allowWrites', writeMode')
  <2>1. (cmds \in Seq(Command) => (GateFollowsSwitch <=> InStep(cmds, allowWrites, writeMode)))'
    BY GateInStep, PTL
  <2> QED
    BY <1>n, <2>1
<1>1. CASE UNCHANGED <<cmds, allowWrites, writeMode>>
  BY <1>g, <1>1
\* A command that neither sets the gate nor needs it open while it is not.
<1>2. ASSUME NEW c \in Command, cmds' = Append(cmds, c), UNCHANGED <<allowWrites, writeMode>>,
             c.op # "write", Writes(c) => writeMode = TRUE
      PROVE  InStep(cmds', allowWrites', writeMode')
  BY <1>2, <1>c, <1>g, InStepAppend
<1>3. CASE CollectorStep /\ UNCHANGED writeMode
  <2>1. CASE UNCHANGED <<cmds, allowWrites>>
    BY <1>1, <1>3, <2>1
  <2>2. CASE /\ cmds # <<>> /\ cmds' = Tail(cmds)
             /\ allowWrites' = IF Head(cmds).op = "write" THEN Head(cmds).on ELSE allowWrites
    BY <1>3, <1>c, <1>g, <2>2, InStepTake
  <2> QED
    BY <1>3, <2>1, <2>2, CollectorTakes
<1>4. CASE Paced
  BY <1>3, <1>4 DEF Paced, guiVars
<1>5. CASE ClickRun
  <2>1. PICK w \in BOOLEAN :
          (w => writeMode) /\ Submit([op |-> "sql", writes |-> w]) /\ UNCHANGED writeMode
    BY <1>5 DEF ClickRun, Click, guiVars
  <2> DEFINE c == [op |-> "sql", writes |-> w]
  <2>2. c \in Command /\ c.op = "sql" /\ c.writes = w
    BY DEF Command
  <2>3. Writes(c) => writeMode = TRUE
    BY <1>c, <2>1, <2>2 DEF Writes, GuiOK
  <2> HIDE DEF c
  <2>4. cmds' = Append(cmds, c) /\ UNCHANGED <<allowWrites, writeMode>>
    BY <2>1 DEF Submit, loopVars, c
  <2> QED
    BY <1>2, <2>2, <2>3, <2>4
<1>6. CASE ClickApply
  <2>1. [op |-> "apply"] \in Command /\ writeMode = TRUE
    BY <1>6, <1>c, PlainCommands DEF ClickApply, PlainOps, GuiOK
  <2>2. cmds' = Append(cmds, [op |-> "apply"]) /\ UNCHANGED <<allowWrites, writeMode>>
    BY <1>6 DEF ClickApply, Click, Submit, loopVars, guiVars
  <2> QED
    BY <1>2, <2>1, <2>2
\* The plain commands need no gate.
<1>7. ASSUME NEW op \in PlainOps \ {"apply"}, Submit([op |-> op]), UNCHANGED writeMode
      PROVE  InStep(cmds', allowWrites', writeMode')
  <2>1. [op |-> op] \in Command /\ op # "write" /\ ~Writes([op |-> op])
    BY PlainCommands DEF PlainOps, QuietOps, Writes
  <2>2. cmds' = Append(cmds, [op |-> op]) /\ UNCHANGED <<allowWrites, writeMode>>
    BY <1>7 DEF Submit, loopVars
  <2> QED
    BY <1>2, <2>1, <2>2
<1>8. CASE ClickDisconnect \/ ClickCancelSql \/ StartDump \/ CancelDumpClick
  BY <1>7, <1>8 DEF ClickDisconnect, ClickCancelSql, StartDump, CancelDumpClick, Click,
     guiVars, PlainOps
<1>9. CASE ClickOther
  <2>1. PICK op \in QuietOps \cup {"advisor", "browse", "kill", "tune"} :
          Submit([op |-> op]) /\ UNCHANGED writeMode
    BY <1>9 DEF ClickOther, Click, guiVars
  <2>2. op \in PlainOps \ {"apply"}
    BY DEF PlainOps, QuietOps
  <2> QED
    BY <1>7, <2>1, <2>2
<1>10. CASE ClickConnect
  <2>1. PICK s \in Server : Submit([op |-> "connect", server |-> s]) /\ UNCHANGED writeMode
    BY <1>10 DEF ClickConnect, Click, guiVars
  <2> DEFINE c == [op |-> "connect", server |-> s]
  <2>2. c \in Command /\ c.op = "connect" /\ ~Writes(c)
    BY DEF Command, Writes
  <2>3. cmds' = Append(cmds, c) /\ UNCHANGED <<allowWrites, writeMode>>
    BY <2>1 DEF Submit, loopVars
  <2> HIDE DEF c
  <2> QED
    BY <1>2, <2>2, <2>3
<1>11. CASE SetPausedClick
  <2> DEFINE c == [op |-> "pause", on |-> ~pauseBox]
  <2>1. c \in Command /\ c.op = "pause" /\ ~Writes(c)
    BY <1>c DEF Command, Writes, GuiOK
  <2>2. cmds' = Append(cmds, c) /\ UNCHANGED <<allowWrites, writeMode>>
    BY <1>11 DEF SetPausedClick, Click, Submit, loopVars
  <2> HIDE DEF c
  <2> QED
    BY <1>2, <2>1, <2>2
<1>12. CASE SyncViews
  <2> DEFINE c == [op |-> "views", needs |-> view]
  <2>1. c \in Command /\ c.op = "views" /\ ~Writes(c)
    BY <1>c, ViewsAssumption DEF Command, Writes, GuiOK
  <2>2. cmds' = Append(cmds, c) /\ UNCHANGED <<allowWrites, writeMode>>
    BY <1>12 DEF SyncViews, Submit, loopVars
  <2> HIDE DEF c
  <2> QED
    BY <1>2, <2>1, <2>2
<1>13. CASE SetWriteModeClick
  <2> DEFINE c == [op |-> "write", on |-> ~writeMode]
  <2>1. c \in Command /\ c.op = "write" /\ c.on = ~writeMode
    BY <1>c DEF Command, GuiOK
  <2>2. cmds' = Append(cmds, c) /\ UNCHANGED allowWrites /\ writeMode' = ~writeMode
    BY <1>13 DEF SetWriteModeClick, Click, Submit, loopVars
  <2> HIDE DEF c
  <2>3. InStep(Append(cmds, c), allowWrites, c.on)
    BY <1>c, <1>g, <2>1, InStepWrite
  <2>4. c.on = writeMode'
    BY <2>1, <2>2, Zenon
  <2> QED
    BY <2>2, <2>3, <2>4
<1>14. CASE SwitchTab
  BY <1>1, <1>14 DEF SwitchTab, vars, loopVars
<1>15. CASE OnConnecting \/ OnDisconnected \/ OnBusy \/ OnSqlBusy \/ OnDump \/ OnOther
  BY <1>1, <1>15
  DEF OnConnecting, OnDisconnected, OnBusy, OnSqlBusy, OnDump, OnOther, Take, loopVars
<1>16. CASE OnConnected
  <2> DEFINE c == [op |-> "write", on |-> writeMode]
             d == [op |-> "schemas"]
  <2>1. c \in Command /\ c.op = "write" /\ c.on = writeMode
    BY <1>c DEF Command, GuiOK
  <2>2. d \in Command /\ d.op # "write" /\ ~Writes(d)
    BY PlainCommands DEF PlainOps, QuietOps, Writes
  <2>3. cmds' = cmds \o <<c, d>> /\ UNCHANGED <<allowWrites, writeMode>>
    BY <1>16 DEF OnConnected, Take, loopVars
  <2> HIDE DEF c, d
  <2>4. Append(cmds, c) \in Seq(Command) /\ cmds' = Append(Append(cmds, c), d)
    BY <1>c, <2>1, <2>2, <2>3
  <2>5. InStep(Append(cmds, c), allowWrites, c.on)
    BY <1>c, <1>g, <2>1, InStepWrite
  <2>6. InStep(Append(Append(cmds, c), d), allowWrites, c.on)
    BY <2>2, <2>4, <2>5, InStepAppend
  <2> QED
    BY <2>1, <2>3, <2>4, <2>6
<1>17. CASE OnApplied
  <2>1. /\ cmds' = cmds \/ cmds' = Append(cmds, [op |-> "browse"])
        /\ UNCHANGED <<allowWrites, writeMode>>
    BY <1>17 DEF OnApplied, Take, loopVars
  <2>2. [op |-> "browse"] \in Command /\ ~Writes([op |-> "browse"])
    BY PlainCommands DEF PlainOps, Writes
  <2> QED
    BY <1>1, <1>2, <2>1, <2>2
<1>18. CASE UNCHANGED appVars
  BY <1>1, <1>18 DEF appVars, vars, loopVars, guiVars
<1> QED
  BY <1>4, <1>5, <1>6, <1>8, <1>9, <1>10, <1>11, <1>12, <1>13, <1>14, <1>15, <1>16, <1>17,
     <1>18 DEF AppNext, UserStep, Pump

\* Whatever is queued, a write meets the gate its sender saw open, and the gate
\* ends up where the switch is.
THEOREM GateFollows == AppSpec => []GateFollowsSwitch
<1>1. AppInit => GateFollowsSwitch
  <2> SUFFICES ASSUME AppInit PROVE GateFollowsSwitch
    OBVIOUS
  <2>1. cmds = <<>> /\ allowWrites = FALSE /\ writeMode = FALSE
    BY DEF AppInit, Init
  <2>2. cmds \in Seq(Command) /\ Len(cmds) = 0
    BY <2>1
  <2>3. InStep(cmds, allowWrites, writeMode)
    <3>1. Meets(cmds, FALSE, 1, FALSE)
      BY DEF Meets, Sets
    <3>2. Len(cmds) + 1 = 1 /\ 1..Len(cmds) = {}
      BY <2>2
    <3>3. Meets(cmds, allowWrites, Len(cmds) + 1, writeMode)
      BY <2>1, <3>1, <3>2, Zenon
    <3> QED
      BY <3>2, <3>3 DEF InStep
  <2> QED
    BY <2>2, <2>3, GateInStep
<1> QED
  BY <1>1, GateStep, AppInvariance, PTL DEF AppSpec

\* So the collector refuses nothing that this GUI sends: its own check of the
\* write mode never fires, and is there for a GUI that forgets the first.
THEOREM NothingIsRefused == AppSpec => [][~Refuse]_appVars
<1>1. AppInv /\ GateFollowsSwitch => ~Refuse
  <2> SUFFICES ASSUME AppInv, GateFollowsSwitch, Refuse PROVE FALSE
    OBVIOUS
  <2>1. cmds \in Seq(Command) /\ cmds # <<>> /\ Writes(cmds[1]) /\ ~allowWrites
    BY DEF AppInv, IInv, TypeOK, Refuse, Receive
  <2>2. 1 \in DOMAIN cmds
    BY <2>1
  <2>3. GateIs(1, TRUE)
    BY <2>1, <2>2, Zenon DEF GateFollowsSwitch
  <2>4. Setter(0, 1)
    BY DEF Setter
  <2>5. 0 \in 0..1-1
    OBVIOUS
  <2>6. allowWrites = TRUE
    BY <2>3, <2>4, <2>5 DEF GateIs
  <2> QED
    BY <2>1, <2>6
<1> QED
  BY <1>1, AppInvariance, GateFollows, PTL DEF AppSpec

-----------------------------------------------------------------------------
(* Flags that events set.  Reading the queue s from the front, each event x *)
(* of a kind in K sets a flag to F[x]; it is v at first.                   *)

\* The flag that entry i meets was set by entry k, or by none if k = 0.
Decides(s, K, k, i) ==
  /\ k \in 0..i-1 /\ (k = 0 \/ s[k].kind \in K)
  /\ \A m \in k+1 .. i-1 : s[m].kind \notin K
Flag(s, K, F, v, i, e) == \E k \in 0..i-1 : Decides(s, K, k, i) /\ e = IF k = 0 THEN v ELSE F[s[k]]

LEMMA FlagStart ==
  ASSUME NEW s, NEW K, NEW F, NEW v
  PROVE  Flag(s, K, F, v, 1, v) /\ \A e : Flag(s, K, F, v, 1, e) => e = v
<1>1. Decides(s, K, 0, 1) /\ 0..1-1 = {0}
  BY DEF Decides
<1> QED
  BY <1>1 DEF Flag

LEMMA FlagUnique ==
  ASSUME NEW s, NEW K, NEW F, NEW v, NEW i \in Nat, NEW e, NEW f,
         Flag(s, K, F, v, i, e), Flag(s, K, F, v, i, f)
  PROVE  e = f
<1>1. PICK k \in 0..i-1 : Decides(s, K, k, i) /\ e = IF k = 0 THEN v ELSE F[s[k]]
  BY DEF Flag
<1>2. PICK l \in 0..i-1 : Decides(s, K, l, i) /\ f = IF l = 0 THEN v ELSE F[s[l]]
  BY DEF Flag
<1>3. k = l
  BY <1>1, <1>2 DEF Decides
<1> QED
  BY <1>1, <1>2, <1>3

\* What is appended changes the flag of no earlier entry.
LEMMA FlagBefore ==
  ASSUME NEW s \in Seq(Event), NEW x \in Event, NEW K, NEW F, NEW v, NEW e,
         NEW i \in 1..Len(s)+1
  PROVE  Flag(Append(s, x), K, F, v, i, e) <=> Flag(s, K, F, v, i, e)
<1> DEFINE t == Append(s, x)
<1>1. Len(s) \in Nat /\ \A k \in 1..Len(s) : t[k] = s[k]
  BY AppendedEvent
<1> HIDE DEF t
<1>2. \A k \in 0..i-1 : k # 0 => k \in 1..Len(s)
  BY <1>1
<1>3. \A k \in 0..i-1 : Decides(t, K, k, i) <=> Decides(s, K, k, i)
  BY <1>1, <1>2 DEF Decides
<1> QED
  BY <1>1, <1>2, <1>3 DEF Flag, t

LEMMA FlagSet ==
  ASSUME NEW s \in Seq(Event), NEW x \in Event, NEW K, NEW F, NEW v, x.kind \in K
  PROVE  Flag(Append(s, x), K, F, v, Len(s) + 2, F[x])
<1> DEFINE t == Append(s, x)
<1>1. Len(s) \in Nat /\ t[Len(s) + 1] = x
  BY AppendedEvent
<1> HIDE DEF t
<1>2. Decides(t, K, Len(s) + 1, Len(s) + 2) /\ Len(s) + 1 \in 0..(Len(s) + 2)-1 /\ Len(s) + 1 # 0
  BY <1>1 DEF Decides
<1> QED
  BY <1>1, <1>2 DEF Flag, t

LEMMA FlagStays ==
  ASSUME NEW s \in Seq(Event), NEW x \in Event, NEW K, NEW F, NEW v, NEW e, x.kind \notin K,
         Flag(s, K, F, v, Len(s) + 1, e)
  PROVE  Flag(Append(s, x), K, F, v, Len(s) + 2, e)
<1> DEFINE t == Append(s, x)
<1>1. Len(s) \in Nat /\ t[Len(s) + 1] = x /\ \A k \in 1..Len(s) : t[k] = s[k]
  BY AppendedEvent
<1>2. PICK k \in 0..(Len(s) + 1)-1 :
        Decides(s, K, k, Len(s) + 1) /\ e = IF k = 0 THEN v ELSE F[s[k]]
  BY DEF Flag
<1> HIDE DEF t
<1>3. k \in 0..(Len(s) + 2)-1 /\ (k # 0 => t[k] = s[k])
  BY <1>1
<1>4. Decides(t, K, k, Len(s) + 2)
  BY <1>1, <1>2, <1>3 DEF Decides
<1> QED
  BY <1>2, <1>3, <1>4 DEF Flag, t

\* The head is taken, and sets the flag if it is of such a kind.
LEMMA FlagTail ==
  ASSUME NEW s \in Seq(Event), s # <<>>, NEW K, NEW F, NEW v, NEW w, NEW e,
         w = IF Head(s).kind \in K THEN F[Head(s)] ELSE v,
         NEW i \in 1..Len(s)
  PROVE  Flag(Tail(s), K, F, w, i, e) <=> Flag(s, K, F, v, i + 1, e)
<1> DEFINE t == Tail(s)
<1>1. /\ Len(s) \in Nat \ {0} /\ Head(s) = s[1]
      /\ \A k \in 1..Len(s)-1 : t[k] = s[k + 1]
  OBVIOUS
<1> HIDE DEF t
<1>2. \A m \in 1..i-1 : t[m] = s[m + 1]
  BY <1>1
<1>3. ASSUME NEW k \in 1..i-1
      PROVE  Decides(t, K, k, i) <=> Decides(s, K, k + 1, i + 1)
  <2>1. (\A m \in k+1 .. i-1 : t[m].kind \notin K) <=> (\A m \in k+2 .. i : s[m].kind \notin K)
    <3>1. ASSUME \A m \in k+1 .. i-1 : t[m].kind \notin K, NEW m \in k+2 .. i
          PROVE  s[m].kind \notin K
      <4>1. m - 1 \in k+1 .. i-1 /\ m - 1 \in 1..i-1 /\ (m - 1) + 1 = m
        OBVIOUS
      <4> QED
        BY <1>2, <3>1, <4>1
    <3>2. ASSUME \A m \in k+2 .. i : s[m].kind \notin K, NEW m \in k+1 .. i-1
          PROVE  t[m].kind \notin K
      BY <1>2, <3>2
    <3> QED
      BY <3>1, <3>2
  <2> QED
    BY <1>2, <2>1 DEF Decides
<1>4. Decides(t, K, 0, i) <=>
        (Head(s).kind \in K /\ Decides(s, K, 1, i + 1)) \/ (Head(s).kind \notin K /\ Decides(s, K, 0, i + 1))
  <2>1. (\A m \in 1 .. i-1 : t[m].kind \notin K) <=> (\A m \in 2 .. i : s[m].kind \notin K)
    <3>1. ASSUME \A m \in 1 .. i-1 : t[m].kind \notin K, NEW m \in 2 .. i
          PROVE  s[m].kind \notin K
      <4>1. m - 1 \in 1 .. i-1 /\ (m - 1) + 1 = m
        OBVIOUS
      <4> QED
        BY <1>2, <3>1, <4>1
    <3>2. ASSUME \A m \in 2 .. i : s[m].kind \notin K, NEW m \in 1 .. i-1
          PROVE  t[m].kind \notin K
      BY <1>2, <3>2
    <3> QED
      BY <3>1, <3>2
  <2> QED
    BY <1>1, <2>1 DEF Decides
<1>5. ASSUME Flag(t, K, F, w, i, e) PROVE Flag(s, K, F, v, i + 1, e)
  <2>1. PICK k \in 0..i-1 : Decides(t, K, k, i) /\ e = IF k = 0 THEN w ELSE F[t[k]]
    BY <1>5 DEF Flag
  <2>2. CASE k # 0
    BY <1>2, <1>3, <2>1, <2>2 DEF Flag
  <2>3. CASE k = 0
    BY <1>1, <1>4, <2>1, <2>3 DEF Flag
  <2> QED
    BY <2>2, <2>3
<1>6. ASSUME Flag(s, K, F, v, i + 1, e) PROVE Flag(t, K, F, w, i, e)
  <2>1. PICK k \in 0..i : Decides(s, K, k, i + 1) /\ e = IF k = 0 THEN v ELSE F[s[k]]
    BY <1>6 DEF Flag
  <2>2. CASE k \in 2..i
    <3>1. k - 1 \in 1..i-1 /\ (k - 1) + 1 = k /\ k - 1 # 0
      BY <2>2
    <3>2. Decides(t, K, k - 1, i) /\ t[k - 1] = s[k]
      BY <1>2, <1>3, <2>1, <3>1
    <3> QED
      BY <2>1, <2>2, <3>1, <3>2 DEF Flag
  <2>3. CASE k = 1
    <3>1. Head(s).kind \in K
      BY <1>1, <2>1, <2>3 DEF Decides
    <3> QED
      BY <1>1, <1>4, <2>1, <2>3, <3>1 DEF Flag
  <2>4. CASE k = 0
    <3>1. Head(s).kind \notin K
      BY <1>1, <2>1, <2>4 DEF Decides
    <3> QED
      BY <1>4, <2>1, <2>4, <3>1 DEF Flag
  <2> QED
    BY <2>2, <2>3, <2>4
<1> QED
  BY <1>5, <1>6 DEF t

-----------------------------------------------------------------------------
(* The types of what the screen shows, and that it shows a session only     *)
(* while it says so.                                                       *)

ScreenOK == /\ state \in {"disconnected", "connecting", "connected"}
            /\ light \in BOOLEAN /\ consoleRunning \in BOOLEAN /\ dumpRunning \in BOOLEAN
            /\ sentViews \in {<<>>} \cup {<<v>> : v \in Views}
            /\ shown \in Nat /\ late \in BOOLEAN /\ replaced \in BOOLEAN
            /\ state # "connected" => shown = 0

\* The entry a pump takes is an event.
LEMMA Taken ==
  ASSUME AppInv, NEW kinds, Take(kinds)
  PROVE  /\ evs \in Seq(Event) /\ evs # <<>> /\ evs' = Tail(evs)
         /\ Head(evs) = evs[1] /\ Head(evs) \in Event
         /\ Head(evs).kind \in kinds /\ Head(evs).epoch \in Nat
         /\ UNCHANGED <<loopVars, shared, poolVars, job>>
<1>1. evs \in Seq(Event)
  BY DEF AppInv, IInv, TypeOK
<1>2. evs # <<>> /\ Head(evs).kind \in kinds
  BY DEF Take
<1>3. Head(evs) = evs[1] /\ Head(evs) \in Event
  BY <1>1, <1>2
<1>4. Head(evs).epoch \in Nat
  BY <1>3 DEF Event
<1> QED
  BY <1>1, <1>2, <1>3, <1>4 DEF Take

\* Whatever the user does: nothing is pumped, and at most the dump's flag goes up.
LEMMA UserLeaves ==
  ASSUME UserStep \/ SyncViews
  PROVE  /\ UNCHANGED <<evs, loopVars, shared, poolVars, job>>
         /\ UNCHANGED <<state, light, consoleRunning, shown, late, replaced>>
  BY DEF UserStep, ClickConnect, ClickDisconnect, ClickRun, ClickCancelSql, StartDump,
     CancelDumpClick, SetWriteModeClick, ClickApply, SetPausedClick, ClickOther, SwitchTab,
     SyncViews, Click, Submit, guiVars, vars

LEMMA ScreenKept == ASSUME AppInv, ScreenOK, [AppNext]_appVars PROVE ScreenOK'
<1>1. CASE UserStep \/ SyncViews
  <2>1. UNCHANGED dumpRunning \/ dumpRunning' = TRUE
    BY <1>1 DEF UserStep, ClickConnect, ClickDisconnect, ClickRun, ClickCancelSql, StartDump,
       CancelDumpClick, SetWriteModeClick, ClickApply, SetPausedClick, ClickOther, SwitchTab,
       SyncViews, guiVars
  <2>2. UNCHANGED sentViews \/ sentViews' = <<view>>
    BY <1>1 DEF UserStep, ClickConnect, ClickDisconnect, ClickRun, ClickCancelSql, StartDump,
       CancelDumpClick, SetWriteModeClick, ClickApply, SetPausedClick, ClickOther, SwitchTab,
       SyncViews, guiVars
  <2> QED
    BY <1>1, <2>1, <2>2, UserLeaves DEF ScreenOK, AppInv, GuiOK
<1>2. CASE OnConnecting \/ OnConnected \/ OnDisconnected
  <2>1. late' \in BOOLEAN /\ replaced' \in BOOLEAN
    BY <1>2 DEF OnConnecting, OnConnected, OnDisconnected, ScreenOK, Take
  <2>2. CASE OnConnecting
    BY <2>1, <2>2 DEF OnConnecting, ScreenOK
  <2>3. CASE OnConnected
    <3>1. Head(evs).epoch \in Nat
      BY <2>3, Taken DEF OnConnected
    <3> QED
      BY <2>1, <2>3, <3>1 DEF OnConnected, ScreenOK
  <2>4. CASE OnDisconnected
    BY <2>1, <2>4 DEF OnDisconnected, ScreenOK
  <2> QED
    BY <1>2, <2>2, <2>3, <2>4
<1>3. CASE OnBusy \/ OnSqlBusy \/ OnDump
  BY <1>3 DEF OnBusy, OnSqlBusy, OnDump, ScreenOK, Take
<1>4. CASE OnApplied \/ OnOther
  BY <1>4 DEF OnApplied, OnOther, ScreenOK, Take
<1>5. CASE Paced \/ UNCHANGED appVars
  BY <1>5 DEF Paced, guiVars, appVars, ScreenOK
<1> QED
  BY <1>1, <1>2, <1>3, <1>4, <1>5 DEF AppNext, Pump

LEMMA ScreenInvariance == AppSpec => []ScreenOK
<1>1. AppInit => ScreenOK
  <2> SUFFICES ASSUME AppInit PROVE ScreenOK
    OBVIOUS
  <2>1. sentViews \in {<<>>} \cup {<<v>> : v \in Views}
    BY DEF AppInit
  <2> QED
    BY <2>1 DEF AppInit, ScreenOK
<1> QED
  BY <1>1, ScreenKept, AppInvariance, PTL DEF AppSpec

\* Every variable of the application keeps its type.
THEOREM AppTypeCorrect == AppSpec => []AppTypeOK
<1>1. AppInv /\ ScreenOK => AppTypeOK
  BY DEF AppInv, IInv, GuiOK, ScreenOK, AppTypeOK
<1> QED
  BY <1>1, ScreenInvariance, AppInvariance, PTL

-----------------------------------------------------------------------------
(* What the steps of the collector say.                                    *)

\* The queue grows by at most three events of X.
More(s, X) == {s} \cup {Append(s, x) : x \in X}
Adds(X) == \E s \in More(evs, X) : \E t \in More(s, X) : evs' \in More(t, X)

\* What the loop says while it turns to no other session.
Murmurs == {x \in Event : /\ x.job = NoJob
                          /\ \/ x.kind \in {"error", "refused", "load"}
                             \/ /\ x.kind \in {"sample"} \cup Heavy
                                /\ session # 0 /\ x.epoch = session}
Murmuring ==
  \/ SetViews \/ SetPaused \/ SetWriteMode \/ Tune \/ CancelDump
  \/ Dropped \/ NothingToCancel \/ Refuse
  \/ Tick \/ SamplerGetConn \/ SampleOk \/ SampleFail
Spawning == \E j \in Jobs : StartJob(j) \/ RunDump(j) \/ CancelSql(j) \/ RunGated(j)

LEMMA CollectorCases ==
  CollectorStep => \/ Connect \/ ConnectOk \/ ConnectFail \/ Disconnect
                   \/ Murmuring \/ Spawning \/ \E j \in Jobs : JobRuns(j)
  BY DEF CollectorStep, LoopStep, Murmuring, Spawning

LEMMA MoreBy ==
  ASSUME NEW s, NEW X, NEW x \in X PROVE s \in More(s, X) /\ Append(s, x) \in More(s, X)
  BY Zenon DEF More

LEMMA MurmursAre ==
  ASSUME IInv
  PROVE  /\ \A k \in {"error", "refused", "load"} : Tell(k) \in Murmurs
         /\ at = "sampling" => \A k \in {"sample"} \cup Heavy : Tell(k) \in Murmurs
<1>1. epoch \in Nat /\ session \in {0, epoch} /\ (at = "sampling" => session # 0)
  BY DEF IInv, TypeOK, SessionIsCurrent
<1>2. ASSUME NEW k \in LoopKinds
      PROVE  Tell(k) \in Event /\ Tell(k).job = NoJob /\ Tell(k).kind = k /\ Tell(k).epoch = epoch
  BY <1>1 DEF Tell, Ev, Event
<1> QED
  BY <1>1, <1>2 DEF Murmurs, LoopKinds, LoopWords

LEMMA MurmuringSays ==
  ASSUME IInv, Murmuring
  PROVE  /\ UNCHANGED <<session, epoch>> /\ Adds(Murmurs)
         /\ \A k \in Jobs : job'[k] \in {job[k], [job[k] EXCEPT !.told = TRUE]}
<1>t. Channels
  BY TypeParts DEF IInv
<1>0. \A s \in Seq(Event), x \in Murmurs : Append(s, x) \in Seq(Event)
  BY DEF Murmurs
<1>e. evs \in More(evs, Murmurs)
  BY DEF More
<1>1. CASE SetViews \/ SetPaused \/ SetWriteMode \/ Tune \/ CancelDump \/ Dropped
           \/ NothingToCancel \/ Tick \/ SamplerGetConn
  <2>1. UNCHANGED <<evs, session, epoch>>
    BY <1>1 DEF SetViews, SetPaused, SetWriteMode, Tune, CancelDump, Dropped, NothingToCancel,
       Tick, SamplerGetConn, loopVars
  <2>2. \A k \in Jobs : job'[k] \in {job[k], [job[k] EXCEPT !.told = TRUE]}
    BY <1>1 DEF SetViews, SetPaused, SetWriteMode, Tune, CancelDump, Dropped, NothingToCancel,
       Tick, SamplerGetConn
  <2> QED
    BY <1>e, <2>1, <2>2 DEF Adds
<1>2. CASE Refuse
  <2>1. evs' = Append(evs, Tell("refused")) /\ UNCHANGED <<session, epoch, job>>
    BY <1>2 DEF Refuse, loopVars
  <2>2. evs' \in More(evs, Murmurs)
    BY <2>1, MurmursAre, MoreBy
  <2> QED
    BY <1>e, <2>1, <2>2 DEF Adds
<1>3. CASE SampleFail
  <2>1. evs' = evs \o <<Tell("error"), Tell("load")>> /\ UNCHANGED <<session, epoch, job>>
    BY <1>3 DEF SampleFail
  <2>2. Tell("error") \in Murmurs /\ Tell("load") \in Murmurs
    BY MurmursAre
  <2>3. evs' = Append(Append(evs, Tell("error")), Tell("load"))
    BY <1>t, <2>1, <2>2 DEF Channels, Murmurs
  <2>4. Append(evs, Tell("error")) \in More(evs, Murmurs)
        /\ evs' \in More(Append(evs, Tell("error")), Murmurs)
    BY <2>2, <2>3, MoreBy
  <2> QED
    BY <1>e, <2>1, <2>4 DEF Adds
<1>4. CASE SampleOk
  <2>1. PICK heavy \in {<<>>} \cup {<<Tell(h)>> : h \in needs} :
          evs' = evs \o heavy \o <<Tell("sample"), Tell("load")>>
    BY <1>4 DEF SampleOk
  <2>2. UNCHANGED <<session, epoch, job>> /\ at = "sampling" /\ needs \subseteq Heavy
    BY <1>4 DEF SampleOk, IInv, TypeOK
  <2>3. Tell("sample") \in Murmurs /\ Tell("load") \in Murmurs /\ \A h \in needs : Tell(h) \in Murmurs
    BY <2>2, MurmursAre
  <2>4. CASE heavy = <<>>
    <3>1. evs' = Append(Append(evs, Tell("sample")), Tell("load"))
      BY <1>t, <2>1, <2>3, <2>4 DEF Channels, Murmurs
    <3>2. Append(evs, Tell("sample")) \in More(evs, Murmurs)
          /\ evs' \in More(Append(evs, Tell("sample")), Murmurs)
      BY <2>3, <3>1, MoreBy
    <3> QED
      BY <1>e, <2>2, <3>2 DEF Adds
  <2>5. CASE heavy # <<>>
    <3>1. PICK h \in needs : heavy = <<Tell(h)>>
      BY <2>1, <2>5
    <3>2. evs' = Append(Append(Append(evs, Tell(h)), Tell("sample")), Tell("load"))
      BY <1>t, <2>1, <2>3, <3>1 DEF Channels, Murmurs
    <3> DEFINE u == Append(evs, Tell(h))
               v == Append(u, Tell("sample"))
    <3>3. u \in More(evs, Murmurs) /\ v \in More(u, Murmurs) /\ evs' \in More(v, Murmurs)
      BY <2>3, <3>2, MoreBy
    <3> HIDE DEF u, v
    <3> QED
      BY <2>2, <3>3 DEF Adds
  <2> QED
    BY <2>4, <2>5
<1> QED
  BY <1>1, <1>2, <1>3, <1>4 DEF Murmuring

\* The four steps that turn to another session, or to none.
LEMMA TurningSays ==
  ASSUME IInv
  PROVE  /\ Connect => /\ UNCHANGED job /\ session' = 0
                       /\ evs' = Append(evs, Ev("connecting", epoch', NoJob))
         /\ Disconnect => /\ UNCHANGED job /\ session' = 0
                          /\ evs' = Append(evs, Ev("disconnected", epoch', NoJob))
         /\ ConnectOk => /\ UNCHANGED <<job, epoch>> /\ session = 0 /\ session' = epoch
                         /\ evs' = Append(evs, Tell("connected"))
         /\ ConnectFail => /\ UNCHANGED <<job, epoch, session>> /\ session = 0
                           /\ evs' = Append(Append(evs, Tell("error")), Tell("disconnected"))
<1>1. ConnectFail => evs' = Append(Append(evs, Tell("error")), Tell("disconnected"))
  <2>1. Tell("error") \in Event /\ Tell("disconnected") \in Event /\ evs \in Seq(Event)
    BY DEF Tell, Ev, Event, LoopKinds, LoopWords, IInv, TypeOK
  <2> QED
    BY <2>1 DEF ConnectFail
<1> QED
  BY <1>1 DEF Connect, Disconnect, ConnectOk, ConnectFail, IInv, SessionIsCurrent

LEMMA SpawningSays ==
  ASSUME IInv, Spawning
  PROVE  /\ cmds # <<>> /\ cmds' = Tail(cmds) /\ session # 0 /\ UNCHANGED <<epoch, session>>
         /\ \E j \in Jobs : /\ ~Alive(j)
                            /\ \E aim : job' = [job EXCEPT ![j] = Fresh(Head(cmds).op, aim)]
         /\ \/ UNCHANGED evs
            \/ Head(cmds).op \in BusyOps /\ evs' = Append(evs, Tell("busy_on"))
<1>1. PICK j \in Jobs : StartJob(j) \/ RunDump(j) \/ CancelSql(j) \/ RunGated(j)
  BY DEF Spawning
<1>2. PICK aim : Spawn(j, Head(cmds).op, aim)
  BY <1>1 DEF StartJob, RunDump, CancelSql, RunGated, Receive
<1>3. cmds # <<>> /\ cmds' = Tail(cmds)
  BY <1>1 DEF StartJob, RunDump, CancelSql, RunGated, Receive
<1> QED
  BY <1>2, <1>3 DEF Spawn, loopVars

\* A job speaks in two of its steps.
LEMMA JobSays ==
  ASSUME NEW j \in Jobs, JobRuns(j)
  PROVE  /\ UNCHANGED <<epoch, session, cmds>>
         /\ \/ UNCHANGED evs
            \/ Emit(j)
            \/ Lower(j) /\ evs' = Append(evs, Tell("busy_off"))
  BY DEF JobRuns, JobStep, CheckEpoch, Emit, Acquire, AcquireFail, Register, WorkEnds,
     Unregister, Return, KillQuery, DumpBatch, DumpEnds, Release, Lower, loopVars

-----------------------------------------------------------------------------
(* How a task moves.                                                       *)

\* The steps of a task that are not about saying something.
Moves == {<<"acquire", "register">>, <<"acquire", "work">>, <<"acquire", "report">>,
          <<"register", "work">>, <<"work", "unregister">>, <<"work", "return">>,
          <<"work", "progress">>, <<"unregister", "return">>, <<"return", "report">>,
          <<"release", "lower">>}
\* A task goes on as the task it was.
SameTask(k) == job'[k].op = job[k].op /\ job'[k].epoch = job[k].epoch

\* A task that goes on without speaking does one of Moves, and one that ends
\* without speaking is no busy one, or leaves another guard behind.
LEMMA WorksOn ==
  ASSUME IInv, NEW j \in Jobs, JobRuns(j), ~CheckEpoch(j), ~Emit(j)
  PROVE  \/ job'[j] = Idle /\ Lower(j)
         \/ job'[j] = Idle /\ Release(j) /\ busy # 1
         \/ job'[j] = Idle /\ job[j].op \in {"kill", "cancelsql"}
         \/ SameTask(j) /\ <<job[j].pc, job'[j].pc>> \in Moves
<1>j. job \in [Jobs -> Job] /\ job[j] \in Job
  BY DEF IInv, TypeOK
<1>1. CASE Acquire(j)
  <2>1. PICK id \in ConnId :
          job' = [job EXCEPT ![j].conn = id,
                             ![j].pc = IF job[j].op = "sql" THEN "register" ELSE "work"]
    BY <1>1 DEF Acquire
  <2>2. job[j].pc = "acquire"
    BY <1>1 DEF Acquire, JobStep
  <2> QED
    BY <1>j, <2>1, <2>2 DEF Job, Moves, SameTask
<1>2. CASE AcquireFail(j)
  BY <1>2, <1>j DEF AcquireFail, JobStep, Job, Moves, SameTask
<1>3. CASE Register(j) \/ Unregister(j)
  BY <1>3, <1>j DEF Register, Unregister, JobStep, Job, Moves, SameTask
<1>4. CASE \E ok \in BOOLEAN : WorkEnds(j, ok)
  <2>1. PICK ok \in BOOLEAN : WorkEnds(j, ok)
    BY <1>4
  <2> QED
    BY <2>1, <1>j DEF WorkEnds, JobStep, Job, Moves, SameTask
<1>5. CASE Return(j)
  <2>1. CASE job[j].op \in {"kill", "cancelsql"} /\ job[j].ok
    BY <1>5, <1>j, <2>1 DEF Return
  <2>2. CASE ~(job[j].op \in {"kill", "cancelsql"} /\ job[j].ok)
    <3>1. job' = [job EXCEPT ![j] = [job[j] EXCEPT !.conn = 0, !.pc = "report"]]
      BY <1>5, <1>j, <2>2 DEF Return
    <3> QED
      BY <1>5, <1>j, <3>1 DEF Return, JobStep, Job, Moves, SameTask
  <2> QED
    BY <2>1, <2>2
<1>6. CASE KillQuery(j)
  <2>1. job'[j] \in {[job[j] EXCEPT !.pc = "return"], [job[j] EXCEPT !.ok = FALSE, !.pc = "return"]}
    BY <1>6, <1>j DEF KillQuery
  <2> QED
    BY <1>6, <1>j, <2>1 DEF KillQuery, JobStep, Job, Moves, SameTask
<1>7. CASE DumpBatch(j) \/ DumpEnds(j)
  BY <1>7, <1>j DEF DumpBatch, DumpEnds, JobStep, Job, Moves, SameTask
<1>8. CASE Release(j)
  BY <1>8, <1>j DEF Release, JobStep, Job, Moves, SameTask
<1>9. CASE Lower(j)
  BY <1>9, <1>j DEF Lower
<1> QED
  BY <1>1, <1>2, <1>3, <1>4, <1>5, <1>6, <1>7, <1>8, <1>9 DEF JobRuns

\* A task that asks or speaks.
LEMMA SpeaksOn ==
  ASSUME IInv, NEW j \in Jobs, CheckEpoch(j) \/ Emit(j)
  PROVE  \/ /\ Emit(j) \/ job[j].epoch # epoch
            /\ \/ job'[j] = Idle /\ Spoken(j) = "none"
               \/ SameTask(j) /\ job'[j].pc = Spoken(j) /\ Spoken(j) # "none"
         \/ CheckEpoch(j) /\ job[j].epoch = epoch /\ SameTask(j) /\ job'[j].pc = job[j].pc
<1>j. job \in [Jobs -> Job] /\ job[j] \in Job
  BY DEF IInv, TypeOK
<1>1. CASE CheckEpoch(j)
  <2>1. CASE job[j].epoch = epoch
    <3>1. job' = [job EXCEPT ![j] = [job[j] EXCEPT !.armed = TRUE]]
      BY <1>1, <1>j, <2>1 DEF CheckEpoch
    <3> QED
      BY <1>1, <1>j, <2>1, <3>1 DEF Job, SameTask
  <2>2. CASE job[j].epoch # epoch
    <3>1. job' = [job EXCEPT ![j] = Goes(j, Spoken(j))]
      BY <1>1, <1>j, <2>2 DEF CheckEpoch
    <3> QED
      BY <1>j, <2>2, <3>1 DEF Goes, Job, SameTask
  <2> QED
    BY <2>1, <2>2
<1>2. CASE Emit(j)
  <2> DEFINE r == Goes(j, Spoken(j))
  <2>1. job' = [job EXCEPT ![j] = [r EXCEPT !.armed = FALSE]]
    BY <1>2 DEF Emit
  <2>2. CASE Spoken(j) = "none"
    <3>1. r = Idle
      BY <2>2 DEF Goes
    <3> HIDE DEF r
    <3>2. [Idle EXCEPT !.armed = FALSE] = Idle
      <4>1. Idle \in Job /\ Idle.armed = FALSE
        BY IdleIsJob DEF Idle
      <4> QED
        BY <4>1 DEF Job
    <3> QED
      BY <1>2, <1>j, <2>1, <2>2, <3>1, <3>2
  <2>3. CASE Spoken(j) # "none"
    <3>1. r = [job[j] EXCEPT !.pc = Spoken(j)]
      BY <2>3 DEF Goes
    <3> HIDE DEF r
    <3> QED
      BY <1>2, <1>j, <2>1, <2>3, <3>1 DEF Job, SameTask
  <2> QED
    BY <2>2, <2>3
<1> QED
  BY <1>1, <1>2

\* The others stay where they are.
LEMMA OthersStay ==
  ASSUME IInv, NEW j \in Jobs, JobRuns(j), NEW k \in Jobs \ {j}
  PROVE  SameTask(k) /\ job'[k].pc = job[k].pc
<1>j. job \in [Jobs -> Job] /\ job[k] \in Job
  BY DEF IInv, TypeOK
<1>1. CASE KillQuery(j)
  <2>1. job'[k] \in {job[k], [job[k] EXCEPT !.killed = TRUE]}
    BY <1>1, <1>j DEF KillQuery
  <2> QED
    BY <1>j, <2>1 DEF Job, SameTask
<1>2. CASE ~KillQuery(j)
  <2>1. job'[k] = job[k]
    BY <1>2, <1>j DEF JobRuns, CheckEpoch, Emit, Acquire, AcquireFail, Register, WorkEnds,
       Unregister, Return, DumpBatch, DumpEnds, Release, Lower
  <2> QED
    BY <2>1 DEF SameTask
<1> QED
  BY <1>1, <1>2

-----------------------------------------------------------------------------
(* The busy indicator.  Guards and events part for a while: the last guard *)
(* drops one step before its event is sent.  But as long as the events on  *)
(* their way end with the light on, a task that will say more is alive.    *)

LightKinds == {"busy_on", "busy_off", "disconnected"}
Lit == [x \in Event |-> x.kind = "busy_on"]

Showing(k) == Alive(k) /\ job[k].op \in BusyOps
EndsDark(s) == Flag(s, LightKinds, Lit, light, Len(s) + 1, FALSE)
LightOK == EndsDark(evs) \/ \E k \in Jobs : Showing(k)

LEMMA DarkStays ==
  ASSUME NEW s \in Seq(Event), EndsDark(s), NEW x \in Event, x.kind # "busy_on"
  PROVE  Append(s, x) \in Seq(Event) /\ EndsDark(Append(s, x))
<1>1. Append(s, x) \in Seq(Event) /\ Len(Append(s, x)) + 1 = Len(s) + 2
  BY AppendedEvent
<1>2. CASE x.kind \in LightKinds
  <2>1. Lit[x] = FALSE
    BY DEF Lit
  <2>2. Flag(Append(s, x), LightKinds, Lit, light, Len(s) + 2, Lit[x])
    BY <1>2, FlagSet
  <2> QED
    BY <1>1, <2>1, <2>2 DEF EndsDark
<1>3. CASE x.kind \notin LightKinds
  BY <1>1, <1>3, FlagStays DEF EndsDark
<1> QED
  BY <1>1, <1>2, <1>3

LEMMA DarkMore ==
  ASSUME NEW s \in Seq(Event), EndsDark(s), NEW t \in More(s, Murmurs)
  PROVE  t \in Seq(Event) /\ EndsDark(t)
<1>1. CASE t = s
  BY <1>1
<1>2. CASE t # s
  <2>1. PICK x \in Murmurs : t = Append(s, x)
    BY <1>2 DEF More
  <2>2. x \in Event /\ x.kind # "busy_on"
    BY HeavyAssumption DEF Murmurs, LoopWords
  <2> QED
    BY <2>1, <2>2, DarkStays
<1> QED
  BY <1>1, <1>2

\* The pump sets the light as the event it takes says.
LEMMA LightPumped ==
  ASSUME AppInv, Pump
  PROVE  light' = IF Head(evs).kind \in LightKinds THEN Lit[Head(evs)] ELSE light
<1>1. CASE OnBusy
  BY <1>1, Taken DEF OnBusy, LightKinds, Lit
<1>2. CASE OnDisconnected
  <2>1. Head(evs) \in Event /\ Head(evs).kind = "disconnected" /\ light' = FALSE
    BY <1>2, Taken DEF OnDisconnected
  <2>2. Lit[Head(evs)] = FALSE
    BY <2>1 DEF Lit
  <2> QED
    BY <2>1, <2>2 DEF LightKinds
<1>3. CASE OnConnecting \/ OnConnected \/ OnSqlBusy \/ OnDump \/ OnApplied
  BY <1>3 DEF OnConnecting, OnConnected, OnSqlBusy, OnDump, OnApplied, Take, LightKinds
<1>4. CASE OnOther
  BY <1>4, HeavyAssumption DEF OnOther, Take, LightKinds, LoopWords
<1> QED
  BY <1>1, <1>2, <1>3, <1>4 DEF Pump

\* Two guards: if one drops and is not the last, another task has one.
LEMMA AnotherGuard ==
  ASSUME IInv, NEW j \in Jobs, Guarded(j), busy # 1
  PROVE  \E k \in Jobs \ {j} : Showing(k)
<1>1. IsFiniteSet(GuardSet) /\ j \in GuardSet /\ busy = Cardinality(GuardSet)
  <2>1. IsFiniteSet(Jobs) /\ GuardSet \subseteq Jobs
    BY JobsAssumption DEF GuardSet
  <2> QED
    BY <2>1, FS_Subset DEF GuardSet, IInv, BusyCount
<1>2. GuardSet # {j}
  BY <1>1, FS_Singleton
<1>3. PICK k \in GuardSet : k # j
  BY <1>1, <1>2
<1> QED
  BY <1>3 DEF GuardSet, Guarded, Showing

LEMMA LightJobs == ASSUME IInv, LightOK, NEW j \in Jobs, JobRuns(j), UNCHANGED light PROVE LightOK'
<1>s. evs \in Seq(Event) /\ Sound(job[j])
  BY DEF IInv, TypeOK, Shape
<1>o. \A k \in Jobs \ {j} : Showing(k) => Showing(k)'
  BY OthersStay DEF Showing, Alive, SameTask
<1>1. CASE Lower(j)
  <2>1. Tell("busy_off") \in Event /\ Tell("busy_off").kind = "busy_off"
    BY DEF Tell, Ev, Event, LoopKinds, LoopWords, IInv, TypeOK
  <2>2. evs' = Append(evs, Tell("busy_off")) /\ Len(evs') + 1 = Len(evs) + 2
    BY <1>1, <1>s, <2>1, AppendedEvent DEF Lower
  <2>3. Flag(evs', LightKinds, Lit, light, Len(evs') + 1, Lit[Tell("busy_off")])
    <3>1. Tell("busy_off").kind \in LightKinds
      BY <2>1 DEF LightKinds
    <3> QED
      BY <1>s, <2>1, <2>2, <3>1, FlagSet
  <2>4. Lit[Tell("busy_off")] = FALSE
    BY <2>1 DEF Lit
  <2> QED
    BY <2>3, <2>4 DEF LightOK, EndsDark
\* j goes on, or was not the last.
<1>2. CASE ~Lower(j) /\ Showing(j)
  <2>1. CASE CheckEpoch(j) \/ Emit(j)
    <3>1. Spoken(j) # "none"
      BY <1>2, <2>1 DEF CheckEpoch, Emit, Speaks, Spoken, Showing, BusyOps
    <3>2. Showing(j)'
      BY <1>2, <2>1, <3>1, SpeaksOn DEF Showing, Alive, SameTask
    <3> QED
      BY <3>2 DEF LightOK
  <2>2. CASE ~CheckEpoch(j) /\ ~Emit(j)
    <3>1. CASE SameTask(j) /\ <<job[j].pc, job'[j].pc>> \in Moves
      <4>1. job'[j].pc # "none"
        BY <3>1 DEF Moves
      <4> QED
        BY <1>2, <3>1, <4>1 DEF LightOK, Showing, Alive, SameTask
    <3>2. CASE Release(j) /\ busy # 1
      <4>1. Guarded(j)
        BY <1>2, <3>2 DEF Release, JobStep, Guarded, Showing
      <4> QED
        BY <1>o, <3>2, <4>1, AnotherGuard DEF LightOK
    <3>3. job[j].op \notin {"kill", "cancelsql"}
      BY <1>2 DEF Showing, BusyOps
    <3> QED
      BY <1>2, <2>2, <3>1, <3>2, <3>3, WorksOn
  <2> QED
    BY <2>1, <2>2
<1>3. CASE ~Lower(j) /\ ~Showing(j)
  <2>1. CASE \E k \in Jobs : Showing(k)
    BY <1>3, <1>o, <2>1 DEF LightOK
  <2>2. CASE EndsDark(evs) /\ Emit(j)
    <3> DEFINE x == Ev(Words(j), job[j].epoch, j)
    <3>1. evs' = Append(evs, x)
      BY <2>2 DEF Emit
    <3>2. x \in Event /\ x.kind # "busy_on"
      BY JobFacts DEF Ev, Event, Job, Words, Report, JobKinds
    <3> HIDE DEF x
    <3> QED
      BY <1>s, <2>2, <3>1, <3>2, DarkStays DEF LightOK, EndsDark
  <2>3. CASE EndsDark(evs) /\ ~Emit(j)
    BY <1>3, <2>3, JobSays DEF LightOK, EndsDark
  <2> QED
    BY <2>1, <2>2, <2>3 DEF LightOK
<1> QED
  BY <1>1, <1>2, <1>3

LEMMA LightNext == ASSUME AppInv, ScreenOK, LightOK, [AppNext]_appVars PROVE LightOK'
<1>i. IInv /\ evs \in Seq(Event) /\ epoch \in Nat /\ epoch + 1 \in Nat
  BY DEF AppInv, IInv, TypeOK
<1>p. CollectorStep => epoch' \in Nat
  BY <1>i, CollectorKeeps DEF IInv, TypeOK
<1>0. ASSUME UNCHANGED <<evs, light, job>> PROVE LightOK'
  BY <1>0 DEF LightOK, EndsDark, Showing, Alive
<1>1. CASE UserStep \/ SyncViews \/ UNCHANGED appVars
  BY <1>0, <1>1, UserLeaves DEF appVars, vars, guiVars
<1>2. CASE Pump
  <2>1. /\ evs # <<>> /\ evs' = Tail(evs) /\ UNCHANGED job
    BY <1>2 DEF Pump, OnConnecting, OnConnected, OnDisconnected, OnBusy, OnSqlBusy, OnDump,
       OnApplied, OnOther, Take
  <2>2. Len(evs) \in 1..Len(evs) /\ Len(Tail(evs)) + 1 = Len(evs)
    BY <1>i, <2>1
  <2>3. EndsDark(evs) => Flag(evs', LightKinds, Lit, light', Len(evs') + 1, FALSE)
    BY <1>2, <1>i, <2>1, <2>2, LightPumped, FlagTail DEF EndsDark
  <2> QED
    BY <2>1, <2>3 DEF LightOK, EndsDark, Showing, Alive
<1>3. CASE CollectorStep /\ UNCHANGED light
  <2>1. CASE \E j \in Jobs : JobRuns(j)
    BY <1>3, <1>i, <2>1, LightJobs
  <2>2. CASE Spawning
    <3>1. PICK j \in Jobs : ~Alive(j) /\ \E aim : job' = [job EXCEPT ![j] = Fresh(Head(cmds).op, aim)]
      BY <1>i, <2>2, SpawningSays
    <3>2. job \in [Jobs -> Job]
      BY <1>i DEF IInv, TypeOK
    <3>3. CASE \E k \in Jobs : Showing(k)
      BY <3>1, <3>2, <3>3 DEF LightOK, Showing, Alive
    <3>4. CASE Head(cmds).op \in BusyOps
      <4>1. Showing(j)'
        BY <3>1, <3>2, <3>4 DEF Showing, Alive, Fresh
      <4> QED
        BY <4>1 DEF LightOK
    <3>5. CASE EndsDark(evs) /\ UNCHANGED evs
      BY <1>3, <3>5 DEF LightOK, EndsDark
    <3> QED
      BY <1>i, <2>2, <3>3, <3>4, <3>5, SpawningSays DEF LightOK
  <2>3. CASE Murmuring
    <3>1. /\ \E s \in More(evs, Murmurs) : \E t \in More(s, Murmurs) : evs' \in More(t, Murmurs)
          /\ \A k \in Jobs : job'[k] \in {job[k], [job[k] EXCEPT !.told = TRUE]}
      BY <1>i, <2>3, MurmuringSays DEF Adds
    <3>2. job \in [Jobs -> Job]
      BY <1>i DEF IInv, TypeOK
    <3>3. \A k \in Jobs : Showing(k) => Showing(k)'
      BY <3>1, <3>2 DEF Showing, Alive, Job
    <3>4. PICK s \in More(evs, Murmurs) : \E t \in More(s, Murmurs) : evs' \in More(t, Murmurs)
      BY <3>1
    <3>5. PICK t \in More(s, Murmurs) : evs' \in More(t, Murmurs)
      BY <3>4
    <3>6. EndsDark(evs) => EndsDark(evs')
      BY <1>i, <3>4, <3>5, DarkMore
    <3> QED
      BY <1>3, <3>3, <3>6 DEF LightOK, EndsDark
  <2>4. CASE Connect \/ ConnectOk \/ Disconnect
    <3>1. PICK k \in {"connecting", "connected", "disconnected"} :
            UNCHANGED job /\ evs' = Append(evs, Ev(k, epoch', NoJob))
      BY <1>i, <2>4, TurningSays DEF Tell
    <3>2. Ev(k, epoch', NoJob) \in Event /\ Ev(k, epoch', NoJob).kind # "busy_on"
      BY <1>3, <1>p DEF Ev, Event, LoopKinds, LoopWords
    <3>3. EndsDark(evs) => EndsDark(evs')
      BY <1>i, <3>1, <3>2, DarkStays
    <3> QED
      BY <1>3, <3>1, <3>3 DEF LightOK, EndsDark, Showing, Alive
  <2>5. CASE ConnectFail
    <3> DEFINE x == Tell("error")
               y == Tell("disconnected")
    <3>1. UNCHANGED job /\ evs' = Append(Append(evs, x), y)
      BY <1>i, <2>5, TurningSays
    <3>2. x \in Event /\ y \in Event /\ x.kind # "busy_on" /\ y.kind # "busy_on"
      BY <1>i DEF Tell, Ev, Event, LoopKinds, LoopWords
    <3> HIDE DEF x, y
    <3>3. EndsDark(evs) => EndsDark(evs')
      BY <1>i, <3>1, <3>2, DarkStays
    <3> QED
      BY <1>3, <3>1, <3>3 DEF LightOK, EndsDark, Showing, Alive
  <2> QED
    BY <1>3, <2>1, <2>2, <2>3, <2>4, <2>5, CollectorCases
<1> QED
  BY <1>1, <1>2, <1>3 DEF AppNext, Paced, guiVars

\* Whatever order the guards drop and their events are sent in, nothing is left
\* that keeps the indicator on when all is done.
THEOREM SpinnerGoesOut == AppSpec => []SpinnerSettles
<1>1. AppInit => LightOK
  <2> SUFFICES ASSUME AppInit PROVE LightOK
    OBVIOUS
  <2>1. evs = <<>> /\ light = FALSE
    BY DEF AppInit, Init
  <2>2. Flag(evs, LightKinds, Lit, FALSE, 1, FALSE)
    BY FlagStart
  <2>3. Len(evs) + 1 = 1
    BY <2>1
  <2> QED
    BY <2>1, <2>2, <2>3 DEF LightOK, EndsDark
<1>2. LightOK => SpinnerSettles
  <2> SUFFICES ASSUME LightOK, Settled PROVE ~light
    BY DEF SpinnerSettles
  <2>1. Flag(evs, LightKinds, Lit, light, 1, FALSE)
    <3>1. Len(evs) + 1 = 1
      BY DEF Settled
    <3> QED
      BY <3>1 DEF Settled, NoJobs, LightOK, Showing, EndsDark
  <2>2. FALSE = light
    BY <2>1, FlagStart
  <2> QED
    BY <2>2
<1> QED
  BY <1>1, <1>2, LightNext, ScreenInvariance, AppInvariance, PTL DEF AppSpec

-----------------------------------------------------------------------------
(* The screen.  Reading the events on their way, the session on screen ends *)
(* up to be the one the loop holds, and each sample is met by its own.      *)

TurnKinds == {"connecting", "connected", "disconnected"}
SampleKinds == {"sample"} \cup Heavy
ScreenOf == [x \in Event |-> IF x.kind = "connected" THEN x.epoch ELSE 0]

\* Behind the screen v, entry i of s finds session e on it.
On(s, v, i, e) == Flag(s, TurnKinds, ScreenOf, v, i, e)
Ahead(s, v, e) ==
  /\ On(s, v, Len(s) + 1, e)
  /\ \A i \in 1..Len(s) : s[i].kind \in SampleKinds => s[i].epoch # 0 /\ On(s, v, i, s[i].epoch)

LEMMA KindsApart == SampleKinds \cap (TurnKinds \cup JobKinds) = {}
  BY HeavyAssumption DEF SampleKinds, TurnKinds, LoopWords, JobKinds

LEMMA OnAppend ==
  ASSUME NEW s \in Seq(Event), NEW v, NEW e, On(s, v, Len(s) + 1, e), NEW x \in Event
  PROVE  On(Append(s, x), v, Len(s) + 2, IF x.kind \in TurnKinds THEN ScreenOf[x] ELSE e)
<1>1. CASE x.kind \in TurnKinds
  BY <1>1, FlagSet DEF On
<1>2. CASE x.kind \notin TurnKinds
  BY <1>2, FlagStays DEF On
<1> QED
  BY <1>1, <1>2

LEMMA AheadAppend ==
  ASSUME NEW s \in Seq(Event), NEW v, NEW e, Ahead(s, v, e), NEW x \in Event,
         x.kind \in SampleKinds => x.epoch = e /\ e # 0
  PROVE  /\ Append(s, x) \in Seq(Event)
         /\ Ahead(Append(s, x), v, IF x.kind \in TurnKinds THEN ScreenOf[x] ELSE e)
<1> DEFINE t == Append(s, x)
<1>1. /\ t \in Seq(Event) /\ Len(s) \in Nat /\ Len(t) = Len(s) + 1 /\ t[Len(s) + 1] = x
      /\ \A i \in 1..Len(s) : t[i] = s[i]
  BY AppendedEvent
<1>2. On(t, v, Len(t) + 1, IF x.kind \in TurnKinds THEN ScreenOf[x] ELSE e)
  <2>1. Len(t) + 1 = Len(s) + 2
    BY <1>1
  <2> QED
    BY <2>1, OnAppend DEF Ahead
<1>3. \A i \in 1..Len(s)+1 : \A f : On(t, v, i, f) <=> On(s, v, i, f)
  BY FlagBefore DEF On
<1> HIDE DEF t
<1>4. ASSUME NEW i \in 1..Len(t), t[i].kind \in SampleKinds
      PROVE  t[i].epoch # 0 /\ On(t, v, i, t[i].epoch)
  <2>1. CASE i = Len(s) + 1
    BY <1>1, <1>3, <1>4, <2>1 DEF Ahead
  <2>2. CASE i # Len(s) + 1
    <3>1. i \in 1..Len(s) /\ i \in 1..Len(s)+1
      BY <1>1, <2>2
    <3> QED
      BY <1>1, <1>3, <1>4, <3>1 DEF Ahead
  <2> QED
    BY <2>1, <2>2
<1> QED
  BY <1>1, <1>2, <1>4 DEF Ahead, t

LEMMA AheadTail ==
  ASSUME NEW s \in Seq(Event), s # <<>>, NEW v, NEW w, NEW e, Ahead(s, v, e),
         w = IF Head(s).kind \in TurnKinds THEN ScreenOf[Head(s)] ELSE v
  PROVE  Ahead(Tail(s), w, e)
<1> DEFINE t == Tail(s)
<1>1. /\ Len(s) \in Nat \ {0} /\ Len(t) = Len(s) - 1 /\ Len(t) + 1 \in 1..Len(s)
      /\ \A i \in 1..Len(t) : i \in 1..Len(s) /\ i + 1 \in 1..Len(s) /\ t[i] = s[i + 1]
  OBVIOUS
<1>2. \A i \in 1..Len(s) : \A f : On(t, w, i, f) <=> On(s, v, i + 1, f)
  BY FlagTail DEF On
<1> HIDE DEF t
<1>3. On(t, w, Len(t) + 1, e)
  <2>1. (Len(t) + 1) + 1 = Len(s) + 1
    BY <1>1
  <2> QED
    BY <1>1, <1>2, <2>1 DEF Ahead
<1>4. \A i \in 1..Len(t) : t[i].kind \in SampleKinds => t[i].epoch # 0 /\ On(t, w, i, t[i].epoch)
  BY <1>1, <1>2 DEF Ahead
<1> QED
  BY <1>3, <1>4 DEF Ahead, t

\* The pump shows what the event it takes says.
LEMMA ScreenPumped ==
  ASSUME AppInv, Pump
  PROVE  shown' = IF Head(evs).kind \in TurnKinds THEN ScreenOf[Head(evs)] ELSE shown
<1>1. CASE OnConnecting \/ OnDisconnected
  <2>1. /\ Head(evs) \in Event /\ Head(evs).kind \in {"connecting", "disconnected"} /\ shown' = 0
    BY <1>1, Taken DEF OnConnecting, OnDisconnected
  <2> QED
    BY <2>1 DEF TurnKinds, ScreenOf
<1>2. CASE OnConnected
  <2>1. /\ Head(evs) \in Event /\ Head(evs).kind = "connected" /\ shown' = Head(evs).epoch
    BY <1>2, Taken DEF OnConnected
  <2> QED
    BY <2>1 DEF TurnKinds, ScreenOf
<1>3. CASE OnBusy \/ OnSqlBusy \/ OnDump \/ OnApplied
  BY <1>3 DEF OnBusy, OnSqlBusy, OnDump, OnApplied, Take, TurnKinds
<1>4. CASE OnOther
  BY <1>4, KindsApart DEF OnOther, Take, TurnKinds, SampleKinds
<1> QED
  BY <1>1, <1>2, <1>3, <1>4 DEF Pump

LEMMA AheadMore ==
  ASSUME NEW s \in Seq(Event), Ahead(s, shown, session), NEW t \in More(s, Murmurs)
  PROVE  t \in Seq(Event) /\ Ahead(t, shown, session)
<1>1. CASE t = s
  BY <1>1
<1>2. CASE t # s
  <2>1. PICK x \in Murmurs : t = Append(s, x)
    BY <1>2 DEF More
  <2>2. x \in Event /\ x.kind \notin TurnKinds
    BY HeavyAssumption DEF Murmurs, LoopWords, TurnKinds
  <2>3. x.kind \in SampleKinds => x.epoch = session /\ session # 0
    BY HeavyAssumption DEF Murmurs, LoopWords, SampleKinds
  <2>4. Append(s, x) \in Seq(Event) /\ Ahead(Append(s, x), shown, session)
    BY <2>2, <2>3, AheadAppend
  <2> QED
    BY <2>1, <2>4
<1> QED
  BY <1>1, <1>2

LEMMA AheadCollector ==
  ASSUME IInv, Ahead(evs, shown, session), CollectorStep, UNCHANGED shown
  PROVE  Ahead(evs, shown, session)'
<1>i. evs \in Seq(Event) /\ epoch \in Nat /\ epoch' \in Nat
  BY CollectorKeeps DEF IInv, TypeOK
\* An event of another kind is no matter; one that turns says where to.
<1>1. ASSUME NEW x \in Event, evs' = Append(evs, x), x.kind \notin SampleKinds,
             session' = IF x.kind \in TurnKinds THEN ScreenOf[x] ELSE session
      PROVE  Ahead(evs, shown, session)'
  BY <1>i, <1>1, AheadAppend
<1>2. ASSUME UNCHANGED <<evs, session>> PROVE Ahead(evs, shown, session)'
  BY <1>2
<1>3. CASE \E j \in Jobs : JobRuns(j)
  <2>1. PICK j \in Jobs : JobRuns(j)
    BY <1>3
  <2>2. CASE Emit(j)
    <3> DEFINE x == Ev(Words(j), job[j].epoch, j)
    <3>1. evs' = Append(evs, x) /\ UNCHANGED session
      BY <2>2 DEF Emit, loopVars
    <3>2. x \in Event /\ x.kind \in JobKinds
      BY JobFacts DEF Ev, Event, Job, Words, Report, JobKinds
    <3>3. x.kind \notin SampleKinds \cup TurnKinds
      BY <3>2, KindsApart DEF TurnKinds, JobKinds
    <3> HIDE DEF x
    <3> QED
      BY <1>1, <3>1, <3>2, <3>3
  <2>3. CASE Lower(j) /\ evs' = Append(evs, Tell("busy_off"))
    <3>1. Tell("busy_off") \in Event /\ Tell("busy_off").kind = "busy_off" /\ UNCHANGED session
      BY <1>i, <2>1, JobSays DEF Tell, Ev, Event, LoopKinds, LoopWords
    <3>2. "busy_off" \notin SampleKinds \cup TurnKinds
      BY HeavyAssumption DEF SampleKinds, TurnKinds, LoopWords
    <3> QED
      BY <1>1, <2>3, <3>1, <3>2
  <2> QED
    BY <1>2, <2>1, <2>2, <2>3, JobSays
<1>4. CASE Spawning
  <2>1. Tell("busy_on") \in Event /\ Tell("busy_on").kind = "busy_on"
    BY <1>i DEF Tell, Ev, Event, LoopKinds, LoopWords
  <2>2. "busy_on" \notin SampleKinds \cup TurnKinds
    BY HeavyAssumption DEF SampleKinds, TurnKinds, LoopWords
  <2>3. UNCHANGED session /\ (UNCHANGED evs \/ evs' = Append(evs, Tell("busy_on")))
    BY <1>4, SpawningSays
  <2> QED
    BY <1>1, <1>2, <2>1, <2>2, <2>3
<1>5. CASE Murmuring
  <2>1. /\ \E s \in More(evs, Murmurs) : \E t \in More(s, Murmurs) : evs' \in More(t, Murmurs)
        /\ UNCHANGED session
    BY <1>5, MurmuringSays DEF Adds
  <2>2. PICK s \in More(evs, Murmurs) : \E t \in More(s, Murmurs) : evs' \in More(t, Murmurs)
    BY <2>1
  <2>3. PICK t \in More(s, Murmurs) : evs' \in More(t, Murmurs)
    BY <2>2
  <2>4. s \in Seq(Event) /\ Ahead(s, shown, session)
    BY <1>i, <2>2, AheadMore
  <2>5. t \in Seq(Event) /\ Ahead(t, shown, session)
    BY <2>3, <2>4, AheadMore
  <2>6. Ahead(evs', shown, session)
    BY <2>3, <2>5, AheadMore
  <2> QED
    BY <2>1, <2>6
\* What an event of a turn says.
<1>6. ASSUME NEW k \in TurnKinds, NEW e \in Nat
      PROVE  /\ Ev(k, e, NoJob) \in Event /\ Ev(k, e, NoJob).kind = k /\ k \notin SampleKinds
             /\ ScreenOf[Ev(k, e, NoJob)] = IF k = "connected" THEN e ELSE 0
  <2>1. Ev(k, e, NoJob) \in Event /\ Ev(k, e, NoJob).kind = k /\ Ev(k, e, NoJob).epoch = e
    BY DEF Ev, Event, TurnKinds, LoopKinds, LoopWords
  <2> QED
    BY <2>1, KindsApart DEF ScreenOf
<1>7. CASE Connect
  <2>1. session' = 0 /\ evs' = Append(evs, Ev("connecting", epoch', NoJob)) /\ "connecting" \in TurnKinds
    BY <1>7, TurningSays DEF TurnKinds
  <2> QED
    BY <1>1, <1>6, <1>i, <2>1
<1>8. CASE Disconnect
  <2>1. session' = 0 /\ evs' = Append(evs, Ev("disconnected", epoch', NoJob)) /\ "disconnected" \in TurnKinds
    BY <1>8, TurningSays DEF TurnKinds
  <2> QED
    BY <1>1, <1>6, <1>i, <2>1
<1>9. CASE ConnectOk
  <2>1. session' = epoch /\ evs' = Append(evs, Ev("connected", epoch, NoJob)) /\ "connected" \in TurnKinds
    BY <1>9, TurningSays DEF TurnKinds, Tell
  <2> QED
    BY <1>1, <1>6, <1>i, <2>1
<1>10. CASE ConnectFail
  <2> DEFINE x == Tell("error")
             y == Ev("disconnected", epoch, NoJob)
  <2>1. session = 0 /\ session' = 0 /\ evs' = Append(Append(evs, x), y) /\ "disconnected" \in TurnKinds
    BY <1>10, TurningSays DEF TurnKinds, Tell
  <2>2. x \in Event /\ x.kind = "error" /\ "error" \notin SampleKinds \cup TurnKinds
    BY <1>i, HeavyAssumption DEF Tell, Ev, Event, LoopKinds, LoopWords, TurnKinds, SampleKinds
  <2>3. y \in Event /\ y.kind \in TurnKinds /\ y.kind \notin SampleKinds /\ ScreenOf[y] = 0
    BY <1>6, <1>i, <2>1
  <2> HIDE DEF x, y
  <2>4. Append(evs, x) \in Seq(Event) /\ Ahead(Append(evs, x), shown, session)
    BY <1>i, <2>2, AheadAppend
  <2>5. Ahead(Append(Append(evs, x), y), shown, 0)
    BY <2>3, <2>4, AheadAppend
  <2> QED
    BY <2>1, <2>5
<1> QED
  BY <1>3, <1>4, <1>5, <1>7, <1>8, <1>9, <1>10, CollectorCases

LEMMA AheadNext ==
  ASSUME AppInv, Ahead(evs, shown, session), [AppNext]_appVars PROVE Ahead(evs, shown, session)'
<1>1. CASE UserStep \/ SyncViews \/ UNCHANGED appVars
  BY <1>1, UserLeaves DEF appVars, vars, guiVars, loopVars
<1>2. CASE Pump
  <2>1. evs \in Seq(Event) /\ evs # <<>> /\ evs' = Tail(evs) /\ UNCHANGED session
    BY <1>2 DEF Pump, OnConnecting, OnConnected, OnDisconnected, OnBusy, OnSqlBusy, OnDump,
       OnApplied, OnOther, Take, loopVars, AppInv, IInv, TypeOK
  <2> QED
    BY <1>2, <2>1, ScreenPumped, AheadTail
<1>3. CASE Paced
  BY <1>3, AheadCollector DEF Paced, guiVars, AppInv
<1> QED
  BY <1>1, <1>2, <1>3 DEF AppNext

LEMMA AheadInvariance == AppSpec => []Ahead(evs, shown, session)
<1>1. AppInit => Ahead(evs, shown, session)
  <2> SUFFICES ASSUME AppInit PROVE Ahead(evs, shown, session)
    OBVIOUS
  <2>1. evs = <<>> /\ shown = 0 /\ session = 0
    BY DEF AppInit, Init
  <2>2. Len(evs) + 1 = 1 /\ 1..Len(evs) = {}
    BY <2>1
  <2>3. On(evs, 0, 1, 0)
    BY FlagStart DEF On
  <2> QED
    BY <2>1, <2>2, <2>3 DEF Ahead
<1> QED
  BY <1>1, AheadNext, AppInvariance, PTL DEF AppSpec

\* A sample is only ever seen under the session it was taken from, although it
\* carries no epoch and is not checked: the loop awaits it.
THEOREM SamplesStayAtHome == AppSpec => []SamplesBelongToScreen
<1>1. AppInv /\ ScreenOK /\ Ahead(evs, shown, session) => SamplesBelongToScreen
  <2> SUFFICES ASSUME AppInv, ScreenOK, Ahead(evs, shown, session),
                      NEW i \in DOMAIN evs, evs[i].kind \in {"sample"} \cup Heavy
               PROVE  LET turns == {k \in 1..i-1 : evs[k].kind \in {"connecting", "connected", "disconnected"}}
                          last == CHOOSE k \in turns : \A m \in turns : m <= k
                      IN IF turns = {} THEN state = "connected" /\ shown = evs[i].epoch
                         ELSE evs[last].kind = "connected" /\ evs[last].epoch = evs[i].epoch
    BY DEF SamplesBelongToScreen
  <2> DEFINE turns == {k \in 1..i-1 : evs[k].kind \in {"connecting", "connected", "disconnected"}}
             last == CHOOSE k \in turns : \A m \in turns : m <= k
  <2>1. evs \in Seq(Event) /\ i \in 1..Len(evs) /\ \A k \in 1..i-1 : evs[k] \in Event
    BY DEF AppInv, IInv, TypeOK
  <2>2. evs[i].epoch # 0 /\ On(evs, shown, i, evs[i].epoch)
    BY <2>1 DEF Ahead, SampleKinds
  <2>3. PICK k \in 0..i-1 : /\ Decides(evs, TurnKinds, k, i)
                            /\ evs[i].epoch = IF k = 0 THEN shown ELSE ScreenOf[evs[k]]
    BY <2>2 DEF On, Flag
  <2>4. turns = {m \in 1..i-1 : evs[m].kind \in TurnKinds}
    BY DEF TurnKinds
  <2> HIDE DEF turns
  <2>5. CASE k = 0
    <3>1. turns = {}
      BY <2>1, <2>3, <2>4, <2>5 DEF Decides
    <3>2. shown = evs[i].epoch /\ state = "connected"
      BY <2>2, <2>3, <2>5 DEF ScreenOK
    <3> QED
      BY <3>1, <3>2 DEF turns
  <2>6. CASE k # 0
    <3>1. k \in turns /\ \A m \in turns : m <= k
      BY <2>1, <2>3, <2>4, <2>6 DEF Decides
    <3>2. turns # {} /\ last = k
      <4>1. last \in turns /\ \A m \in turns : m <= last
        BY <3>1
      <4>2. \A m \in turns : m \in Nat
        BY <2>1, <2>4
      <4> HIDE DEF last
      <4>3. last <= k /\ k <= last /\ last \in Nat /\ k \in Nat
        BY <3>1, <4>1, <4>2
      <4> QED
        BY <3>1, <4>3
    <3>3. evs[k] \in Event /\ evs[i].epoch = ScreenOf[evs[k]]
      BY <2>1, <2>3, <2>6
    <3>4. evs[k].kind = "connected" /\ evs[k].epoch = evs[i].epoch
      BY <2>2, <3>3 DEF ScreenOf
    <3> QED
      BY <3>2, <3>4 DEF turns
  <2> QED
    BY <2>5, <2>6
<1> QED
  BY <1>1, ScreenInvariance, AheadInvariance, AppInvariance, PTL

-----------------------------------------------------------------------------
(* Session 0 is none: no task belongs to it, no event of a task is about it, *)
(* and the screen that says "connected" shows another.                     *)

Worded == {x \in Event : /\ x.kind \in JobKinds => x.job # NoJob /\ x.epoch # 0
                         /\ x.kind = "connected" => x.epoch # 0}
Numbered == /\ evs \in Seq(Worded)
            /\ \A j \in Jobs : Alive(j) => job[j].epoch # 0
            /\ at = "connecting" => epoch # 0
            /\ state = "connected" => shown # 0

\* What the loop says is of no job.
LEMMA LoopWorded ==
  ASSUME NEW e \in Nat, NEW k \in LoopKinds, k = "connected" => e # 0
  PROVE  Ev(k, e, NoJob) \in Worded
<1>1. k \notin JobKinds
  BY HeavyAssumption DEF LoopKinds, LoopWords, JobKinds
<1>2. Ev(k, e, NoJob) \in Event /\ Ev(k, e, NoJob).kind = k /\ Ev(k, e, NoJob).epoch = e
  BY DEF Ev, Event
<1> QED
  BY <1>1, <1>2 DEF Worded

LEMMA MurmursWorded == Murmurs \subseteq Worded
  BY HeavyAssumption DEF Murmurs, Worded, JobKinds, LoopWords

LEMMA AliveEpochs ==
  ASSUME IInv, \A j \in Jobs : Alive(j) => job[j].epoch # 0, CollectorStep
  PROVE  \A j \in Jobs : Alive(j)' => job'[j].epoch # 0
<1>j. job \in [Jobs -> Job]
  BY DEF IInv, TypeOK
<1>1. CASE Connect \/ ConnectOk \/ ConnectFail \/ Disconnect
  BY <1>1, TurningSays DEF Alive
<1>2. CASE Murmuring
  <2>1. \A k \in Jobs : job'[k] \in {job[k], [job[k] EXCEPT !.told = TRUE]}
    BY <1>2, MurmuringSays
  <2> QED
    BY <1>j, <2>1 DEF Alive, Job
<1>3. CASE Spawning
  <2>1. PICK j \in Jobs : \E aim : job' = [job EXCEPT ![j] = Fresh(Head(cmds).op, aim)]
    BY <1>3, SpawningSays
  <2>2. session # 0 /\ session \in {0, epoch}
    BY <1>3, SpawningSays DEF IInv, SessionIsCurrent
  <2> QED
    BY <1>j, <2>1, <2>2 DEF Alive, Fresh
<1>4. ASSUME NEW j \in Jobs, JobRuns(j) PROVE \A k \in Jobs : Alive(k)' => job'[k].epoch # 0
  <2>1. job[j].pc # "none"
    BY <1>4 DEF JobRuns, JobStep, CheckEpoch, Emit, Acquire, AcquireFail, Register, WorkEnds,
       Unregister, Return, KillQuery, DumpBatch, DumpEnds, Release, Lower, Speaks
  <2>2. job'[j] = Idle \/ SameTask(j)
    BY <1>4, WorksOn, SpeaksOn
  <2> QED
    BY <1>4, <2>1, <2>2, OthersStay DEF Alive, SameTask, Idle
<1> QED
  BY <1>1, <1>2, <1>3, <1>4, CollectorCases

LEMMA CollectorWorded ==
  ASSUME IInv, Numbered, CollectorStep
  PROVE  evs' \in Seq(Worded)
<1>i. epoch \in Nat /\ epoch' \in Nat
  BY CollectorKeeps DEF IInv, TypeOK
<1>1. ASSUME NEW x \in Worded, evs' = Append(evs, x) PROVE evs' \in Seq(Worded)
  BY <1>1 DEF Numbered
<1>2. ASSUME UNCHANGED evs PROVE evs' \in Seq(Worded)
  BY <1>2 DEF Numbered
<1>3. ASSUME NEW s \in Seq(Worded), NEW t \in More(s, Murmurs) PROVE t \in Seq(Worded)
  BY MurmursWorded DEF More
<1>4. CASE Connect \/ Disconnect
  <2>1. PICK k \in {"connecting", "disconnected"} : evs' = Append(evs, Ev(k, epoch', NoJob))
    BY <1>4, TurningSays
  <2> QED
    BY <1>1, <1>i, <2>1, LoopWorded DEF LoopKinds, LoopWords
<1>5. CASE ConnectOk
  <2>1. evs' = Append(evs, Ev("connected", epoch, NoJob)) /\ epoch # 0
    BY <1>5, TurningSays DEF Tell, ConnectOk, Numbered
  <2> QED
    BY <1>1, <1>i, <2>1, LoopWorded DEF LoopKinds, LoopWords
<1>6. CASE ConnectFail
  <2>1. evs' = Append(Append(evs, Tell("error")), Tell("disconnected"))
    BY <1>6, TurningSays
  <2>2. Tell("error") \in Worded /\ Tell("disconnected") \in Worded
    BY <1>i, LoopWorded DEF Tell, LoopKinds, LoopWords
  <2> QED
    BY <2>1, <2>2 DEF Numbered
<1>7. CASE Murmuring
  <2>1. PICK s \in More(evs, Murmurs) : \E t \in More(s, Murmurs) : evs' \in More(t, Murmurs)
    BY <1>7, MurmuringSays DEF Adds
  <2>2. PICK t \in More(s, Murmurs) : evs' \in More(t, Murmurs)
    BY <2>1
  <2> QED
    BY <1>3, <2>1, <2>2 DEF Numbered
<1>8. CASE Spawning
  <2>1. Tell("busy_on") \in Worded
    BY <1>i, LoopWorded DEF Tell, LoopKinds, LoopWords
  <2> QED
    BY <1>1, <1>2, <1>8, <2>1, SpawningSays
<1>9. CASE \E j \in Jobs : JobRuns(j)
  <2>1. PICK j \in Jobs : JobRuns(j)
    BY <1>9
  <2>2. CASE Emit(j)
    <3> DEFINE x == Ev(Words(j), job[j].epoch, j)
    <3>1. evs' = Append(evs, x) /\ Alive(j)
      BY <2>2 DEF Emit, Speaks, Alive
    <3>2. x \in Event /\ x.job = j /\ x.epoch = job[j].epoch /\ x.kind \in JobKinds
      BY JobFacts DEF Ev, Event, Job, Words, Report, JobKinds
    <3>3. x.kind # "connected" /\ x.epoch # 0 /\ x.job # NoJob
      BY <3>1, <3>2, JobsAssumption DEF JobKinds, Numbered
    <3> HIDE DEF x
    <3>4. x \in Worded
      BY <3>2, <3>3 DEF Worded
    <3> QED
      BY <1>1, <3>1, <3>4
  <2>3. CASE Lower(j) /\ evs' = Append(evs, Tell("busy_off"))
    <3>1. Tell("busy_off") \in Worded
      BY <1>i, LoopWorded DEF Tell, LoopKinds, LoopWords
    <3> QED
      BY <1>1, <2>3, <3>1
  <2> QED
    BY <1>2, <2>1, <2>2, <2>3, JobSays
<1> QED
  BY <1>4, <1>5, <1>6, <1>7, <1>8, <1>9, CollectorCases

\* Dialling starts with a new epoch.
LEMMA Dials ==
  ASSUME IInv, at = "connecting" => epoch # 0, CollectorStep
  PROVE  (at = "connecting" => epoch # 0)'
<1>i. epoch \in Nat
  BY DEF IInv, TypeOK
<1>1. CASE Connect
  BY <1>1, <1>i DEF Connect
<1>2. CASE ConnectOk \/ ConnectFail \/ Tick \/ SampleOk \/ SampleFail
  BY <1>2 DEF ConnectOk, ConnectFail, Tick, SampleOk, SampleFail
<1>3. CASE Disconnect
  BY <1>3 DEF Disconnect, Receive
<1>4. ASSUME UNCHANGED <<at, epoch>> PROVE (at = "connecting" => epoch # 0)'
  BY <1>4
<1>5. CASE SetViews \/ SetPaused \/ SetWriteMode \/ Tune \/ CancelDump \/ Dropped
           \/ NothingToCancel \/ Refuse \/ SamplerGetConn
  BY <1>4, <1>5 DEF SetViews, SetPaused, SetWriteMode, Tune, CancelDump, Dropped,
     NothingToCancel, Refuse, SamplerGetConn, loopVars
<1>6. CASE \E j \in Jobs : StartJob(j) \/ RunDump(j) \/ CancelSql(j) \/ RunGated(j)
  BY <1>4, <1>6 DEF StartJob, RunDump, CancelSql, RunGated, Spawn, loopVars
<1>7. CASE \E j \in Jobs : JobRuns(j)
  BY <1>4, <1>7 DEF JobRuns, JobStep, CheckEpoch, Emit, Acquire, AcquireFail, Register, WorkEnds,
     Unregister, Return, KillQuery, DumpBatch, DumpEnds, Release, Lower, loopVars
<1> QED
  BY <1>1, <1>2, <1>3, <1>5, <1>6, <1>7 DEF CollectorStep, LoopStep

LEMMA NumberedNext == ASSUME AppInv, Numbered, [AppNext]_appVars PROVE Numbered'
<1>1. CASE UserStep \/ SyncViews \/ UNCHANGED appVars
  BY <1>1, UserLeaves DEF Numbered, Alive, appVars, vars, guiVars, loopVars
<1>2. CASE Pump
  <2>1. evs # <<>> /\ evs' = Tail(evs) /\ UNCHANGED <<at, epoch, job>>
    BY <1>2 DEF Pump, OnConnecting, OnConnected, OnDisconnected, OnBusy, OnSqlBusy, OnDump,
       OnApplied, OnOther, Take, loopVars
  <2>2. Head(evs) \in Worded /\ Tail(evs) \in Seq(Worded)
    BY <2>1 DEF Numbered
  <2>3. (state = "connected" => shown # 0)'
    <3>1. CASE OnConnected
      BY <2>2, <3>1 DEF OnConnected, Take, Worded
    <3>2. CASE OnConnecting \/ OnDisconnected
      BY <3>2 DEF OnConnecting, OnDisconnected
    <3>3. CASE OnBusy \/ OnSqlBusy \/ OnDump \/ OnApplied \/ OnOther
      BY <3>3 DEF OnBusy, OnSqlBusy, OnDump, OnApplied, OnOther, Numbered
    <3> QED
      BY <1>2, <3>1, <3>2, <3>3 DEF Pump
  <2> QED
    BY <2>1, <2>2, <2>3 DEF Numbered, Alive
<1>3. CASE Paced
  <2>1. CollectorStep /\ UNCHANGED <<state, shown>> /\ IInv
    BY <1>3 DEF Paced, guiVars, AppInv
  <2> QED
    BY <2>1, CollectorWorded, AliveEpochs, Dials DEF Numbered
<1> QED
  BY <1>1, <1>2, <1>3 DEF AppNext

LEMMA NumberedInvariance == AppSpec => []Numbered
<1>1. AppInit => Numbered
  BY DEF AppInit, Init, Numbered, Alive, Idle
<1> QED
  BY <1>1, NumberedNext, AppInvariance, PTL DEF AppSpec

-----------------------------------------------------------------------------
(* In order.  As long as the sessions have followed each other, every event *)
(* of a task finds its own session on the screen, and a Connect finds none.  *)

InOrder(s, v) ==
  \A i \in 1..Len(s) : /\ s[i].job # NoJob => On(s, v, i, s[i].epoch)
                       /\ s[i].kind = "connecting" => On(s, v, i, 0)
Fine == Orderly /\ InOrder(evs, shown)

LEMMA InOrderAppended ==
  ASSUME NEW s \in Seq(Event), NEW x \in Event, NEW v, NEW e, On(s, v, Len(s) + 1, e),
         InOrder(Append(s, x), v)
  PROVE  /\ InOrder(s, v)
         /\ x.job # NoJob => x.epoch = e
         /\ x.kind = "connecting" => e = 0
<1> DEFINE t == Append(s, x)
<1>1. /\ Len(s) \in Nat /\ Len(t) = Len(s) + 1 /\ t[Len(s) + 1] = x
      /\ \A i \in 1..Len(s) : t[i] = s[i]
  BY AppendedEvent
<1>2. \A i \in 1..Len(s)+1 : \A f : On(t, v, i, f) <=> On(s, v, i, f)
  BY FlagBefore DEF On
<1>3. \A f : On(s, v, Len(s) + 1, f) => f = e
  BY <1>1, FlagUnique DEF On
<1> HIDE DEF t
<1>4. InOrder(t, v)
  BY DEF t
<1>5. Len(s) + 1 \in 1..Len(t) /\ Len(s) + 1 \in 1..Len(s)+1
  BY <1>1
<1>6. (x.job # NoJob => x.epoch = e) /\ (x.kind = "connecting" => e = 0)
  BY <1>1, <1>2, <1>3, <1>4, <1>5 DEF InOrder
<1>7. \A i \in 1..Len(s) : i \in 1..Len(t) /\ i \in 1..Len(s)+1
  BY <1>1
<1>8. InOrder(s, v)
  BY <1>1, <1>2, <1>4, <1>7 DEF InOrder
<1> QED
  BY <1>6, <1>8

LEMMA InOrderTail ==
  ASSUME NEW s \in Seq(Event), s # <<>>, NEW v, NEW w,
         w = IF Head(s).kind \in TurnKinds THEN ScreenOf[Head(s)] ELSE v,
         InOrder(Tail(s), w),
         Head(s).job # NoJob => Head(s).epoch = v,
         Head(s).kind = "connecting" => v = 0
  PROVE  InOrder(s, v)
<1> DEFINE t == Tail(s)
<1>1. /\ Len(s) \in Nat \ {0} /\ Len(t) = Len(s) - 1 /\ Head(s) = s[1]
      /\ \A i \in 1..Len(t) : t[i] = s[i + 1]
  OBVIOUS
<1>2. \A i \in 1..Len(s) : \A f : On(t, w, i, f) <=> On(s, v, i + 1, f)
  BY FlagTail DEF On
<1>3. InOrder(t, w)
  OBVIOUS
<1>4. On(s, v, 1, v)
  BY FlagStart DEF On
<1> HIDE DEF t
<1>5. ASSUME NEW i \in 1..Len(s), i # 1
      PROVE  /\ s[i].job # NoJob => On(s, v, i, s[i].epoch)
             /\ s[i].kind = "connecting" => On(s, v, i, 0)
  <2>1. i - 1 \in 1..Len(t) /\ i - 1 \in 1..Len(s) /\ (i - 1) + 1 = i
    BY <1>1, <1>5
  <2> QED
    BY <1>1, <1>2, <1>3, <2>1 DEF InOrder
<1> QED
  BY <1>1, <1>4, <1>5 DEF InOrder

\* Apart from turns and from what a task says, the queue grows quietly.
Loud == TurnKinds \cup JobKinds
Quietly(s, t) == /\ t \in Seq(Event) /\ Len(s) <= Len(t)
                 /\ \A i \in 1..Len(s) : t[i] = s[i]
                 /\ \A i \in Len(s)+1 .. Len(t) : t[i].kind \notin Loud

LEMMA QuietAppend ==
  ASSUME NEW s \in Seq(Event), NEW x \in Event, x.kind \notin Loud
  PROVE  Quietly(s, s) /\ Quietly(s, Append(s, x))
  BY AppendedEvent DEF Quietly

LEMMA QuietTwice ==
  ASSUME NEW s \in Seq(Event), NEW t, NEW u, Quietly(s, t), Quietly(t, u)
  PROVE  Quietly(s, u)
<1>1. Len(s) \in Nat /\ Len(t) \in Nat /\ Len(u) \in Nat
  BY DEF Quietly
<1>2. ASSUME NEW i \in Len(s)+1 .. Len(u) PROVE u[i].kind \notin Loud
  BY <1>1 DEF Quietly
<1>3. ASSUME NEW i \in 1..Len(s) PROVE u[i] = s[i]
  BY <1>1 DEF Quietly
<1> QED
  BY <1>1, <1>2, <1>3 DEF Quietly

LEMMA QuietMore ==
  ASSUME NEW s \in Seq(Event), NEW t \in More(s, Murmurs) PROVE Quietly(s, t)
<1>1. \A x \in Murmurs : x \in Event /\ x.kind \notin Loud
  BY HeavyAssumption DEF Murmurs, Loud, LoopWords, TurnKinds, JobKinds
<1>2. CASE t = s
  BY <1>2 DEF Quietly
<1>3. CASE t # s
  BY <1>1, <1>3, QuietAppend DEF More
<1> QED
  BY <1>2, <1>3

\* A quiet queue sets no flag of a loud kind, and is in order as far as it was.
LEMMA QuietFlag ==
  ASSUME NEW s \in Seq(Event), NEW t, Quietly(s, t), NEW K \in SUBSET Loud, NEW F, NEW v, NEW e,
         Flag(s, K, F, v, Len(s) + 1, e)
  PROVE  Flag(t, K, F, v, Len(t) + 1, e)
<1>1. Len(s) \in Nat /\ Len(t) \in Nat /\ Len(s) <= Len(t)
  BY DEF Quietly
<1>2. PICK k \in 0..(Len(s) + 1)-1 : Decides(s, K, k, Len(s) + 1) /\ e = IF k = 0 THEN v ELSE F[s[k]]
  BY DEF Flag
<1>3. k \in 0..(Len(t) + 1)-1 /\ (k # 0 => t[k] = s[k])
  BY <1>1 DEF Quietly
<1>4. Decides(t, K, k, Len(t) + 1)
  <2>1. ASSUME NEW m \in k+1 .. (Len(t) + 1)-1 PROVE t[m].kind \notin K
    <3>1. CASE m <= Len(s)
      <4>1. m \in 1..Len(s) /\ m \in k+1 .. (Len(s) + 1)-1
        BY <1>1, <1>2, <3>1
      <4> QED
        BY <1>2, <4>1 DEF Decides, Quietly
    <3>2. CASE m > Len(s)
      <4>1. m \in Len(s)+1 .. Len(t)
        BY <1>1, <1>2, <3>2
      <4> QED
        BY <4>1 DEF Quietly
    <3> QED
      BY <1>1, <1>2, <3>1, <3>2
  <2> QED
    BY <1>2, <1>3, <2>1 DEF Decides
<1> QED
  BY <1>2, <1>3, <1>4 DEF Flag

LEMMA FlagPrefix ==
  ASSUME NEW s \in Seq(Event), NEW t, Quietly(s, t), NEW K, NEW F, NEW v, NEW e,
         NEW i \in 1..Len(s)+1
  PROVE  Flag(t, K, F, v, i, e) <=> Flag(s, K, F, v, i, e)
<1>1. \A k \in 0..i-1 : k # 0 => k \in 1..Len(s) /\ t[k] = s[k]
  BY DEF Quietly
<1>2. \A k \in 0..i-1 : Decides(t, K, k, i) <=> Decides(s, K, k, i)
  BY <1>1 DEF Decides
<1> QED
  BY <1>1, <1>2 DEF Flag

LEMMA InOrderQuiet ==
  ASSUME NEW s \in Seq(Event), NEW t, Quietly(s, t), NEW v, InOrder(t, v)
  PROVE  InOrder(s, v)
<1>1. \A i \in 1..Len(s) : i \in 1..Len(s)+1 /\ i \in 1..Len(t) /\ t[i] = s[i]
  BY DEF Quietly
<1>2. \A i \in 1..Len(s)+1 : \A f : On(t, v, i, f) <=> On(s, v, i, f)
  BY FlagPrefix DEF On
<1> QED
  BY <1>1, <1>2 DEF InOrder

\* The event of a turn, and that of a task.
LEMMA TurnEvent ==
  ASSUME NEW k \in TurnKinds, NEW e \in Nat
  PROVE  /\ Ev(k, e, NoJob) \in Event /\ Ev(k, e, NoJob).kind = k
         /\ Ev(k, e, NoJob).epoch = e /\ Ev(k, e, NoJob).job = NoJob
  BY DEF Ev, Event, TurnKinds, LoopKinds, LoopWords

LEMMA TaskEvent ==
  ASSUME IInv, NEW j \in Jobs
  PROVE  LET x == Ev(Words(j), job[j].epoch, j)
         IN /\ x \in Event /\ x.kind = Words(j) /\ x.kind \in JobKinds
            /\ x.job = j /\ x.job # NoJob /\ x.epoch = job[j].epoch
  BY JobFacts, JobsAssumption DEF Ev, Event, Job, Words, Report, JobKinds

LEMMA CollectorSays ==
  ASSUME IInv, CollectorStep
  PROVE  \/ Connect \/ Disconnect \/ ConnectOk \/ ConnectFail
         \/ \E j \in Jobs : Emit(j)
         \/ /\ Quietly(evs, evs') /\ UNCHANGED <<epoch, session>>
            /\ \/ Murmuring
               \/ Spawning
               \/ \E j \in Jobs : JobRuns(j) /\ ~Emit(j)
<1>i. evs \in Seq(Event) /\ epoch \in Nat
  BY DEF IInv, TypeOK
<1>1. ASSUME NEW k \in {"busy_on", "busy_off"}
      PROVE  Quietly(evs, evs) /\ Quietly(evs, Append(evs, Tell(k)))
  <2>1. Tell(k) \in Event /\ Tell(k).kind = k /\ k \notin Loud
    BY <1>i DEF Tell, Ev, Event, LoopKinds, LoopWords, Loud, TurnKinds, JobKinds
  <2> QED
    BY <1>i, <2>1, QuietAppend
<1>2. CASE Murmuring
  <2>1. /\ \E s \in More(evs, Murmurs) : \E t \in More(s, Murmurs) : evs' \in More(t, Murmurs)
        /\ UNCHANGED <<session, epoch>>
    BY <1>2, MurmuringSays DEF Adds
  <2>2. PICK s \in More(evs, Murmurs) : \E t \in More(s, Murmurs) : evs' \in More(t, Murmurs)
    BY <2>1
  <2>3. PICK t \in More(s, Murmurs) : evs' \in More(t, Murmurs)
    BY <2>2
  <2>4. Quietly(evs, s)
    BY <1>i, <2>2, QuietMore
  <2>5. Quietly(s, t)
    BY <2>3, <2>4, QuietMore DEF Quietly
  <2>6. Quietly(t, evs')
    BY <2>3, <2>5, QuietMore DEF Quietly
  <2>7. Quietly(evs, t)
    BY <1>i, <2>4, <2>5, QuietTwice
  <2>8. Quietly(evs, evs')
    BY <1>i, <2>6, <2>7, QuietTwice
  <2> QED
    BY <1>2, <2>1, <2>8
<1>3. CASE Spawning
  BY <1>1, <1>3, SpawningSays
<1>4. CASE \E j \in Jobs : JobRuns(j) /\ ~Emit(j)
  BY <1>1, <1>4, JobSays
<1> QED
  BY <1>2, <1>3, <1>4, CollectorCases DEF JobRuns

\* Out of order once, out of order for good; and what order asks of a step.
LEMMA FineCollector ==
  ASSUME IInv, Ahead(evs, shown, session), CollectorStep, UNCHANGED guiVars, Fine'
  PROVE  /\ Fine
         /\ Connect => session = 0
         /\ \A j \in Jobs : Emit(j) => job[j].epoch = session
<1>i. /\ evs \in Seq(Event) /\ epoch' \in Nat
      /\ On(evs, shown, Len(evs) + 1, session) /\ InOrder(evs', shown)
      /\ Orderly
  BY CollectorKeeps DEF IInv, TypeOK, Ahead, Fine, guiVars, Orderly
<1>1. ASSUME NEW x \in Event, evs' = Append(evs, x)
      PROVE  /\ Fine
             /\ x.job # NoJob => x.epoch = session
             /\ x.kind = "connecting" => session = 0
  BY <1>i, <1>1, InOrderAppended DEF Fine
<1>2. ASSUME NEW k \in TurnKinds, evs' = Append(evs, Ev(k, epoch', NoJob))
      PROVE  Fine /\ (k = "connecting" => session = 0)
  BY <1>1, <1>2, <1>i, TurnEvent
<1>3. ASSUME Connect PROVE Fine /\ session = 0
  BY <1>2, <1>3, TurningSays DEF TurnKinds
<1>4. ASSUME Disconnect PROVE Fine
  BY <1>2, <1>4, TurningSays DEF TurnKinds
<1>5. ASSUME ConnectOk PROVE Fine
  BY <1>2, <1>5, TurningSays DEF TurnKinds, Tell
<1>6. ASSUME ConnectFail PROVE Fine
  <2> DEFINE x == Tell("error")
             y == Ev("disconnected", epoch, NoJob)
  <2>1. x \in Event /\ y \in Event
    BY <1>6, <1>i, TurnEvent, TurningSays DEF Tell, Ev, Event, LoopKinds, LoopWords, TurnKinds
  <2>2. evs' = Append(Append(evs, x), y)
    BY <1>6, TurningSays DEF Tell
  <2>3. x.kind \notin TurnKinds
    BY DEF Tell, Ev, TurnKinds
  <2> HIDE DEF x, y
  <2>4. /\ Append(evs, x) \in Seq(Event)
        /\ On(Append(evs, x), shown, Len(Append(evs, x)) + 1, session)
    <3>1. Len(Append(evs, x)) + 1 = Len(evs) + 2 /\ Append(evs, x) \in Seq(Event)
      BY <1>i, <2>1, AppendedEvent
    <3> QED
      BY <1>i, <2>1, <2>3, <3>1, OnAppend
  <2>5. InOrder(Append(evs, x), shown)
    BY <1>i, <2>1, <2>2, <2>4, InOrderAppended
  <2>6. InOrder(evs, shown)
    BY <1>i, <2>1, <2>5, InOrderAppended
  <2> QED
    BY <1>i, <2>6 DEF Fine
<1>7. ASSUME NEW j \in Jobs, Emit(j) PROVE Fine /\ job[j].epoch = session
  <2> DEFINE x == Ev(Words(j), job[j].epoch, j)
  <2>1. evs' = Append(evs, x)
    BY <1>7 DEF Emit
  <2>2. x \in Event /\ x.job # NoJob /\ x.epoch = job[j].epoch
    BY TaskEvent
  <2> HIDE DEF x
  <2> QED
    BY <1>1, <2>1, <2>2
<1>8. ASSUME Quietly(evs, evs') PROVE Fine
  BY <1>8, <1>i, InOrderQuiet DEF Fine
<1> QED
  BY <1>3, <1>4, <1>5, <1>6, <1>7, <1>8, CollectorSays

LEMMA FinePump ==
  ASSUME AppInv, Pump, Fine'
  PROVE  /\ Fine
         /\ Head(evs).job # NoJob => Head(evs).epoch = shown
         /\ Head(evs).kind = "connecting" => shown = 0
<1>1. PICK kinds : Take(kinds)
  BY Zenon DEF Pump, OnConnecting, OnConnected, OnDisconnected, OnBusy, OnSqlBusy, OnDump,
     OnApplied, OnOther
<1>2. /\ evs \in Seq(Event) /\ evs # <<>> /\ evs' = Tail(evs)
      /\ late' = (late \/ (Head(evs).job # NoJob /\ Head(evs).epoch # shown))
      /\ replaced' = (replaced \/ (Head(evs).kind = "connecting" /\ shown # 0))
  BY <1>1, Taken DEF Take
<1>3. ~late' /\ ~replaced' /\ InOrder(evs', shown')
  BY DEF Fine, Orderly
<1>4. Orderly
  BY <1>2, <1>3 DEF Orderly
<1>5. Head(evs).job # NoJob => Head(evs).epoch = shown
  BY <1>2, <1>3
<1>6. Head(evs).kind = "connecting" => shown = 0
  BY <1>2, <1>3
<1> QED
  BY <1>2, <1>3, <1>4, <1>5, <1>6, ScreenPumped, InOrderTail DEF Fine

-----------------------------------------------------------------------------
(* Turns.  What is queued for the collector and what it has answered fit    *)
(* together: no disconnect and no dump is behind a connect, unless the next *)
(* turn breaks the order.                                                  *)

Hold == {"disconnect", "dump"}
TurnOps == {"connect"} \cup Hold

Has(c, ops) == \E i \in 1..Len(c) : c[i].op \in ops
\* Nothing that needs a session is behind a connect.
Early(c) == \A i, k \in 1..Len(c) : c[i].op = "connect" /\ c[k].op \in Hold => k < i
\* If there is a connect, one is ahead of everything that needs a session.
Doomed(c) == Has(c, {"connect"}) =>
               \E i \in 1..Len(c) : c[i].op = "connect" /\ \A k \in 1..i-1 : c[k].op \notin Hold

\* Other commands are added.
Plainly(c, d) == /\ d \in Seq(Command) /\ Len(c) <= Len(d)
                 /\ \A i \in 1..Len(c) : d[i] = c[i]
                 /\ \A i \in Len(c)+1 .. Len(d) : d[i].op \notin TurnOps

LEMMA PlainTurns ==
  ASSUME NEW c \in Seq(Command), NEW d, Plainly(c, d)
  PROVE  /\ \A ops \in SUBSET TurnOps : Has(d, ops) <=> Has(c, ops)
         /\ Early(c) => Early(d)
         /\ Doomed(c) => Doomed(d)
<1>1. Len(c) \in Nat /\ Len(d) \in Nat /\ 1..Len(c) \subseteq 1..Len(d)
  BY DEF Plainly
<1>2. \A i \in 1..Len(d) : d[i].op \in TurnOps => i \in 1..Len(c)
  BY <1>1 DEF Plainly
<1>3. \A i \in 1..Len(c) : d[i] = c[i]
  BY DEF Plainly
<1>4. \A ops \in SUBSET TurnOps : Has(d, ops) <=> Has(c, ops)
  BY <1>1, <1>2, <1>3 DEF Has
<1>5. Early(c) => Early(d)
  BY <1>1, <1>2, <1>3 DEF Early, TurnOps
<1>6. ASSUME Doomed(c), Has(d, {"connect"})
      PROVE  \E i \in 1..Len(d) : d[i].op = "connect" /\ \A k \in 1..i-1 : d[k].op \notin Hold
  <2>1. {"connect"} \in SUBSET TurnOps
    BY DEF TurnOps
  <2>2. PICK i \in 1..Len(c) : c[i].op = "connect" /\ \A k \in 1..i-1 : c[k].op \notin Hold
    BY <1>4, <1>6, <2>1 DEF Doomed
  <2>3. i \in 1..Len(d) /\ \A k \in 1..i-1 : k \in 1..Len(c)
    BY <1>1, <2>2
  <2> QED
    BY <1>3, <2>2, <2>3
<1> QED
  BY <1>4, <1>5, <1>6 DEF Doomed

LEMMA TurnsAppend ==
  ASSUME NEW c \in Seq(Command), NEW x \in Command
  PROVE  LET d == Append(c, x)
         IN /\ d \in Seq(Command)
            /\ \A ops : Has(d, ops) <=> Has(c, ops) \/ x.op \in ops
            /\ Early(c) /\ x.op \notin Hold => Early(d)
            /\ Doomed(c) /\ x.op # "connect" => Doomed(d)
            /\ x.op \notin TurnOps => Plainly(c, d)
<1> DEFINE d == Append(c, x)
<1>1. /\ d \in Seq(Command) /\ Len(c) \in Nat /\ Len(d) = Len(c) + 1 /\ d[Len(c) + 1] = x
      /\ \A i \in 1..Len(c) : d[i] = c[i] /\ i \in 1..Len(d)
  OBVIOUS
<1> HIDE DEF d
<1>2. \A i \in 1..Len(d) : i \in 1..Len(c) \/ (i = Len(c) + 1 /\ d[i] = x)
  BY <1>1
<1>3. Len(c) + 1 \in 1..Len(d)
  BY <1>1
<1>4. \A ops : Has(d, ops) <=> Has(c, ops) \/ x.op \in ops
  BY <1>1, <1>2, <1>3 DEF Has
<1>5. ASSUME Early(c), x.op \notin Hold,
             NEW i \in 1..Len(d), NEW k \in 1..Len(d), d[i].op = "connect", d[k].op \in Hold
      PROVE  k < i
  <2>1. k \in 1..Len(c)
    BY <1>2, <1>5
  <2> QED
    BY <1>1, <1>2, <1>5, <2>1 DEF Early
<1>6. ASSUME Doomed(c), x.op # "connect", Has(d, {"connect"})
      PROVE  \E i \in 1..Len(d) : d[i].op = "connect" /\ \A k \in 1..i-1 : d[k].op \notin Hold
  <2>1. PICK i \in 1..Len(c) : c[i].op = "connect" /\ \A k \in 1..i-1 : c[k].op \notin Hold
    BY <1>4, <1>6 DEF Doomed
  <2>2. i \in 1..Len(d) /\ \A k \in 1..i-1 : k \in 1..Len(c)
    BY <1>1, <2>1
  <2> QED
    BY <1>1, <2>1, <2>2
<1>7. x.op \notin TurnOps => Plainly(c, d)
  BY <1>1, <1>2 DEF Plainly
<1>8. Early(c) /\ x.op \notin Hold => Early(d)
  BY <1>5 DEF Early
<1>9. Doomed(c) /\ x.op # "connect" => Doomed(d)
  BY <1>6 DEF Doomed
<1> QED
  BY <1>1, <1>4, <1>7, <1>8, <1>9 DEF d

LEMMA TurnsTail ==
  ASSUME NEW c \in Seq(Command), c # <<>>
  PROVE  LET d == Tail(c)
         IN /\ \A ops : Has(d, ops) => Has(c, ops)
            /\ \A ops : Has(c, ops) => Head(c).op \in ops \/ Has(d, ops)
            /\ \A ops : Head(c).op \in ops => Has(c, ops)
            /\ Early(c) => Early(d)
            /\ Early(c) /\ Head(c).op = "connect" => ~Has(d, Hold)
            /\ Doomed(c) /\ Head(c).op # "connect" => Doomed(d)
            /\ Doomed(c) /\ Head(c).op \in Hold => ~Has(c, {"connect"})
<1> DEFINE d == Tail(c)
<1>1. /\ Len(c) \in Nat \ {0} /\ Len(d) = Len(c) - 1 /\ Head(c) = c[1] /\ 1 \in 1..Len(c)
      /\ \A i \in 1..Len(d) : d[i] = c[i + 1] /\ i + 1 \in 1..Len(c)
  OBVIOUS
<1> HIDE DEF d
<1>2. \A i \in 1..Len(c) : i = 1 \/ (i - 1 \in 1..Len(d) /\ d[i - 1] = c[i])
  <2>1. \A i \in 1..Len(c) : i # 1 => i - 1 \in 1..Len(d) /\ (i - 1) + 1 = i
    BY <1>1
  <2> QED
    BY <1>1, <2>1
<1>3. \A ops : /\ Has(d, ops) => Has(c, ops)
               /\ Has(c, ops) => Head(c).op \in ops \/ Has(d, ops)
               /\ Head(c).op \in ops => Has(c, ops)
  BY <1>1, <1>2 DEF Has
<1>4. Early(c) => Early(d)
  <2> SUFFICES ASSUME Early(c), NEW i \in 1..Len(d), NEW k \in 1..Len(d),
                      d[i].op = "connect", d[k].op \in Hold
               PROVE  k < i
    BY DEF Early
  <2>1. k + 1 < i + 1
    BY <1>1 DEF Early
  <2> QED
    BY <2>1
<1>5. Early(c) /\ Head(c).op = "connect" => ~Has(d, Hold)
  <2> SUFFICES ASSUME Early(c), Head(c).op = "connect", NEW k \in 1..Len(d), d[k].op \in Hold
               PROVE  FALSE
    BY DEF Has
  <2>1. k + 1 < 1
    BY <1>1 DEF Early
  <2> QED
    BY <2>1
<1>6. ASSUME Doomed(c), Head(c).op # "connect", Has(d, {"connect"})
      PROVE  \E i \in 1..Len(d) : d[i].op = "connect" /\ \A k \in 1..i-1 : d[k].op \notin Hold
  <2>1. PICK i \in 1..Len(c) : c[i].op = "connect" /\ \A k \in 1..i-1 : c[k].op \notin Hold
    BY <1>3, <1>6 DEF Doomed
  <2>2. i - 1 \in 1..Len(d) /\ d[i - 1] = c[i]
    BY <1>1, <1>2, <1>6, <2>1
  <2>3. \A k \in 1..(i - 1)-1 : k \in 1..Len(d) /\ k + 1 \in 1..i-1
    BY <2>2
  <2> QED
    BY <1>1, <2>1, <2>2, <2>3
<1>7. Doomed(c) /\ Head(c).op \in Hold => ~Has(c, {"connect"})
  <2> SUFFICES ASSUME Doomed(c), Head(c).op \in Hold, Has(c, {"connect"}) PROVE FALSE
    OBVIOUS
  <2>1. PICK i \in 1..Len(c) : c[i].op = "connect" /\ \A k \in 1..i-1 : c[k].op \notin Hold
    BY DEF Doomed
  <2>2. i # 1
    BY <1>1, <2>1 DEF Hold
  <2>3. 1 \in 1..i-1
    BY <2>2
  <2> QED
    BY <1>1, <2>1, <2>3
<1>8. Doomed(c) /\ Head(c).op # "connect" => Doomed(d)
  BY <1>6 DEF Doomed
<1> QED
  BY <1>3, <1>4, <1>5, <1>7, <1>8 DEF d

\* What a click adds to the queue, and what taking an event adds.
LEMMA UserAsks ==
  ASSUME AppInv, UserStep \/ SyncViews
  PROVE  \/ UNCHANGED <<cmds, dumpRunning>>
         \/ \E x \in Command :
              /\ cmds' = Append(cmds, x)
              /\ x.op = "connect" => state = "disconnected"
              /\ x.op \in Hold => state = "connected"
              /\ IF x.op = "dump" THEN ~dumpRunning /\ dumpRunning' = TRUE ELSE UNCHANGED dumpRunning
<1>g. GuiOK
  BY DEF AppInv
<1>1. ASSUME NEW op \in PlainOps \ Hold, Submit([op |-> op]), UNCHANGED dumpRunning
      PROVE  \E x \in Command : /\ cmds' = Append(cmds, x) /\ UNCHANGED dumpRunning
                                /\ x.op # "connect" /\ x.op \notin Hold
  <2>1. op # "connect" /\ [op |-> op] \in Command
    BY PlainCommands DEF PlainOps, QuietOps
  <2> QED
    BY <1>1, <2>1 DEF Submit
<1>2. CASE ClickConnect
  <2>1. PICK s \in Server : Submit([op |-> "connect", server |-> s])
    BY <1>2 DEF ClickConnect, Click
  <2>2. [op |-> "connect", server |-> s] \in Command
    BY DEF Command
  <2> QED
    BY <1>2, <2>1, <2>2 DEF ClickConnect, Submit, guiVars, Hold
<1>3. CASE ClickRun
  <2>1. PICK w \in BOOLEAN : Submit([op |-> "sql", writes |-> w])
    BY <1>3 DEF ClickRun, Click
  <2>2. [op |-> "sql", writes |-> w] \in Command
    BY DEF Command
  <2> QED
    BY <1>3, <2>1, <2>2 DEF ClickRun, Submit, guiVars, Hold
<1>4. CASE ClickDisconnect
  <2>1. [op |-> "disconnect"] \in Command
    BY PlainCommands DEF PlainOps
  <2> QED
    BY <1>4, <2>1 DEF ClickDisconnect, Click, Submit, guiVars, Hold
<1>5. CASE StartDump
  <2>1. [op |-> "dump"] \in Command
    BY PlainCommands DEF PlainOps
  <2> QED
    BY <1>5, <2>1 DEF StartDump, Click, Submit
<1>6. CASE ClickCancelSql \/ CancelDumpClick \/ ClickApply
  <2>1. PICK op \in {"cancelsql", "canceldump", "apply"} : Submit([op |-> op]) /\ UNCHANGED dumpRunning
    BY <1>6 DEF ClickCancelSql, CancelDumpClick, ClickApply, Click, guiVars
  <2>2. op \in PlainOps \ Hold
    BY DEF PlainOps, Hold
  <2> QED
    BY <1>1, <2>1, <2>2 DEF Hold
<1>7. CASE ClickOther
  <2>1. PICK op \in QuietOps \cup {"advisor", "browse", "kill", "tune"} :
          Submit([op |-> op]) /\ UNCHANGED dumpRunning
    BY <1>7 DEF ClickOther, Click, guiVars
  <2>2. op \in PlainOps \ Hold
    BY DEF PlainOps, QuietOps, Hold
  <2> QED
    BY <1>1, <2>1, <2>2 DEF Hold
<1>8. ASSUME NEW op \in {"write", "pause"}, NEW b \in BOOLEAN, Submit([op |-> op, on |-> b]),
             UNCHANGED dumpRunning
      PROVE  \E x \in Command : /\ cmds' = Append(cmds, x) /\ UNCHANGED dumpRunning
                                /\ x.op # "connect" /\ x.op \notin Hold
  <2>1. [op |-> op, on |-> b] \in Command
    BY DEF Command
  <2> QED
    BY <1>8, <2>1 DEF Submit, Hold
<1>9. CASE SetWriteModeClick \/ SetPausedClick
  BY <1>8, <1>9, <1>g DEF SetWriteModeClick, SetPausedClick, Click, GuiOK, Hold
<1>10. CASE SyncViews
  <2>1. [op |-> "views", needs |-> view] \in Command
    BY <1>g, ViewsAssumption DEF Command, GuiOK
  <2> QED
    BY <1>10, <2>1 DEF SyncViews, Submit, Hold
<1>11. CASE SwitchTab
  BY <1>11 DEF SwitchTab, vars
<1> QED
  BY <1>2, <1>3, <1>4, <1>5, <1>6, <1>7, <1>9, <1>10, <1>11 DEF UserStep, Hold

LEMMA PumpAsks == ASSUME AppInv, Pump PROVE Plainly(cmds, cmds')
<1>c. cmds \in Seq(Command) /\ GuiOK
  BY DEF AppInv, IInv, TypeOK
<1>1. CASE OnConnected
  <2> DEFINE c == [op |-> "write", on |-> writeMode]
             d == [op |-> "schemas"]
  <2>1. c \in Command /\ d \in Command /\ c.op \notin TurnOps /\ d.op \notin TurnOps
    BY <1>c, PlainCommands DEF Command, GuiOK, PlainOps, QuietOps, TurnOps, Hold
  <2>2. cmds' = cmds \o <<c, d>>
    BY <1>1 DEF OnConnected
  <2> HIDE DEF c, d
  <2> QED
    BY <1>c, <2>1, <2>2 DEF Plainly
<1>2. CASE OnApplied
  <2>1. [op |-> "browse"] \in Command /\ "browse" \notin TurnOps
    BY PlainCommands DEF PlainOps, TurnOps, Hold
  <2>2. Plainly(cmds, cmds) /\ Plainly(cmds, Append(cmds, [op |-> "browse"]))
    BY <1>c, <2>1, TurnsAppend DEF Plainly
  <2> QED
    BY <1>2, <2>2 DEF OnApplied
<1>3. CASE UNCHANGED cmds
  BY <1>3, <1>c DEF Plainly
<1> QED
  BY <1>1, <1>2, <1>3 DEF Pump, OnConnecting, OnDisconnected, OnBusy, OnSqlBusy, OnDump, OnOther

\* What the collector does besides turning and speaking takes no such command,
\* but for a dump.
LEMMA QuietTakes ==
  ASSUME IInv, \/ Murmuring
               \/ Spawning
               \/ \E j \in Jobs : JobRuns(j)
  PROVE  /\ at' = "connecting" => at = "connecting"
         /\ \/ UNCHANGED cmds
            \/ /\ cmds # <<>> /\ cmds' = Tail(cmds)
               /\ Head(cmds).op \notin {"connect", "disconnect"}
               /\ Head(cmds).op = "dump" =>
                    session = 0 \/ \E j \in Jobs : ~Alive(j) /\ job' = [job EXCEPT ![j] = Fresh("dump", 0)]
<1>1. CASE SetViews \/ SetPaused \/ SetWriteMode \/ Tune \/ CancelDump \/ NothingToCancel \/ Refuse
  BY <1>1 DEF SetViews, SetPaused, SetWriteMode, Tune, CancelDump, NothingToCancel, Refuse,
     Receive, loopVars
<1>2. CASE Tick \/ SamplerGetConn \/ SampleOk \/ SampleFail
  BY <1>2 DEF Tick, SamplerGetConn, SampleOk, SampleFail, loopVars
<1>3. CASE Dropped
  BY <1>3 DEF Dropped, Receive, loopVars, JobOps, QuietOps, BusyOps
<1>4. CASE \E j \in Jobs : StartJob(j) \/ CancelSql(j) \/ RunGated(j)
  BY <1>4 DEF StartJob, CancelSql, RunGated, Receive, Spawn, loopVars, JobOps, QuietOps, BusyOps
<1>5. CASE \E j \in Jobs : RunDump(j)
  BY <1>5 DEF RunDump, Receive, Spawn, loopVars
<1>6. CASE \E j \in Jobs : JobRuns(j)
  <2>1. PICK j \in Jobs : JobRuns(j)
    BY <1>6
  <2> QED
    BY <2>1 DEF JobRuns, JobStep, CheckEpoch, Emit, Acquire, AcquireFail, Register, WorkEnds,
       Unregister, Return, KillQuery, DumpBatch, DumpEnds, Release, Lower, loopVars
<1> QED
  BY <1>1, <1>2, <1>3, <1>4, <1>5, <1>6 DEF Murmuring, Spawning

Says(kind) == \E i \in 1..Len(evs) : evs[i].kind = kind
Turned ==
  IF shown = 0
  THEN /\ \A i \in 1..Len(evs) : evs[i].kind = "connected" =>
            session # 0 /\ \A m \in i+1 .. Len(evs) : evs[m].kind \notin TurnKinds
       /\ session # 0 \/ at = "connecting" => ~Has(cmds, Hold)
       /\ Early(cmds)
  ELSE /\ ~Says("connected")
       /\ at # "connecting"
       /\ session = 0 => ~Has(cmds, {"connect"}) /\ Says("disconnected")
       /\ Doomed(cmds)
TurnsOK == Fine => Turned

\* Without an event that connects, an empty screen stays empty.
LEMMA NeverOn ==
  ASSUME NEW s \in Seq(Event), \A i \in 1..Len(s) : s[i].kind # "connected",
         NEW i \in 1..Len(s)+1, NEW e, On(s, 0, i, e)
  PROVE  e = 0
<1>1. PICK k \in 0..i-1 : e = IF k = 0 THEN 0 ELSE ScreenOf[s[k]]
  BY DEF On, Flag
<1>2. CASE k # 0
  <2>1. k \in 1..Len(s) /\ s[k] \in Event /\ s[k].kind # "connected"
    BY <1>2
  <2> QED
    BY <1>1, <1>2, <2>1 DEF ScreenOf
<1> QED
  BY <1>1, <1>2

LEMMA TurnsUser ==
  ASSUME AppInv, ScreenOK, Numbered, Turned, UserStep \/ SyncViews PROVE Turned'
<1>1. /\ UNCHANGED <<evs, session, at, shown>> /\ cmds \in Seq(Command)
      /\ shown = 0 <=> state # "connected"
  BY UserLeaves DEF loopVars, AppInv, IInv, TypeOK, ScreenOK, Numbered
<1>2. CASE UNCHANGED cmds
  BY <1>1, <1>2 DEF Turned, Says
<1>3. ASSUME NEW x \in Command, cmds' = Append(cmds, x),
             x.op = "connect" => state = "disconnected",
             x.op \in Hold => state = "connected"
      PROVE  Turned'
  <2>1. /\ \A ops : Has(cmds', ops) <=> Has(cmds, ops) \/ x.op \in ops
        /\ Early(cmds) /\ x.op \notin Hold => Early(cmds')
        /\ Doomed(cmds) /\ x.op # "connect" => Doomed(cmds')
    BY <1>1, <1>3, TurnsAppend
  <2>2. CASE shown = 0
    BY <1>1, <1>3, <2>1, <2>2 DEF Turned
  <2>3. CASE shown # 0
    <3>1. x.op # "connect"
      BY <1>1, <1>3, <2>3
    <3> QED
      BY <1>1, <2>1, <2>3, <3>1 DEF Turned, Says
  <2> QED
    BY <2>2, <2>3
<1> QED
  BY <1>2, <1>3, UserAsks

LEMMA TurnsPump ==
  ASSUME AppInv, Numbered, Ahead(evs, shown, session), Turned, Pump, Fine' PROVE Turned'
<1>1. /\ evs \in Seq(Event) /\ evs # <<>> /\ evs' = Tail(evs) /\ UNCHANGED <<session, at>>
      /\ Head(evs) \in Worded
  BY DEF Pump, OnConnecting, OnConnected, OnDisconnected, OnBusy, OnSqlBusy, OnDump,
     OnApplied, OnOther, Take, loopVars, AppInv, IInv, TypeOK, Numbered
<1>2. /\ Len(evs) \in Nat \ {0} /\ Len(evs') = Len(evs) - 1 /\ Head(evs) = evs[1]
      /\ evs' \in Seq(Event) /\ 1 \in 1..Len(evs)
      /\ \A i \in 1..Len(evs') : evs'[i] = evs[i + 1] /\ i + 1 \in 1..Len(evs)
  BY <1>1
<1>3. /\ \A ops \in SUBSET TurnOps : Has(cmds', ops) <=> Has(cmds, ops)
      /\ Early(cmds) => Early(cmds')
      /\ Doomed(cmds) => Doomed(cmds')
  BY PumpAsks, PlainTurns DEF AppInv, IInv, TypeOK
<1>4. /\ Has(cmds', Hold) <=> Has(cmds, Hold)
      /\ Has(cmds', {"connect"}) <=> Has(cmds, {"connect"})
  <2>1. Hold \in SUBSET TurnOps /\ {"connect"} \in SUBSET TurnOps
    BY DEF TurnOps
  <2> QED
    BY <1>3, <2>1
<1>5. shown' = IF Head(evs).kind \in TurnKinds THEN ScreenOf[Head(evs)] ELSE shown
  BY ScreenPumped
<1>6. Head(evs) \in Event /\ ScreenOf[Head(evs)] = IF Head(evs).kind = "connected" THEN Head(evs).epoch ELSE 0
  BY <1>1 DEF Worded, ScreenOf
<1>7. CASE Head(evs).kind = "connected"
  <2>1. shown = 0
    BY <1>2, <1>7 DEF Turned, Says
  <2>2. session # 0 /\ \A m \in 1+1 .. Len(evs) : evs[m].kind \notin TurnKinds
    BY <1>2, <1>7, <2>1 DEF Turned
  <2>3. shown' # 0
    BY <1>1, <1>5, <1>6, <1>7 DEF Worded, TurnKinds
  <2>4. ~Says("connected")'
    <3>1. \A i \in 1..Len(evs') : i + 1 \in 1+1 .. Len(evs)
      BY <1>2
    <3> QED
      BY <1>2, <2>2, <3>1 DEF Says, TurnKinds
  <2>5. at # "connecting"
    BY <2>2 DEF AppInv, IInv, SessionIsCurrent
  <2>6. Doomed(cmds')
    <3>1. ~Has(cmds', Hold) /\ cmds' \in Seq(Command)
      BY <1>4, <2>1, <2>2, PumpAsks DEF Turned, Plainly
    <3> QED
      BY <3>1 DEF Doomed, Has
  <2> QED
    BY <1>1, <2>2, <2>3, <2>4, <2>5, <2>6 DEF Turned
<1>8. CASE Head(evs).kind # "connected"
  <2>1. \A i \in 1..Len(evs') : evs'[i].kind = "connected" => evs[i + 1].kind = "connected"
    BY <1>2
  <2>2. CASE shown = 0
    <3>1. shown' = 0
      BY <1>5, <1>6, <1>8, <2>2
    <3>2. ASSUME NEW i \in 1..Len(evs'), evs'[i].kind = "connected"
          PROVE  session # 0 /\ \A m \in i+1 .. Len(evs') : evs'[m].kind \notin TurnKinds
      <4>1. session # 0 /\ \A m \in (i+1)+1 .. Len(evs) : evs[m].kind \notin TurnKinds
        BY <1>2, <2>2, <3>2 DEF Turned
      <4>2. \A m \in i+1 .. Len(evs') : m + 1 \in (i+1)+1 .. Len(evs) /\ m \in 1..Len(evs')
        BY <1>2
      <4> QED
        BY <1>2, <4>1, <4>2
    <3> QED
      BY <1>1, <1>3, <1>4, <2>2, <3>1, <3>2 DEF Turned
  <2>3. CASE shown # 0 /\ Head(evs).kind \notin TurnKinds
    <3>1. Says("disconnected") => Says("disconnected")'
      <4>1. ASSUME NEW i \in 1..Len(evs), evs[i].kind = "disconnected"
            PROVE  \E m \in 1..Len(evs') : evs'[m].kind = "disconnected"
        <5>1. i # 1
          BY <1>2, <2>3, <4>1 DEF TurnKinds
        <5>2. i - 1 \in 1..Len(evs') /\ (i - 1) + 1 = i
          BY <1>2, <5>1
        <5> QED
          BY <1>2, <4>1, <5>2
      <4> QED
        BY <4>1 DEF Says
    <3>2. ~Says("connected")'
      BY <1>2, <2>1, <2>3 DEF Turned, Says
    <3> QED
      BY <1>1, <1>3, <1>4, <1>5, <2>3, <3>1, <3>2 DEF Turned
  <2>4. CASE shown # 0 /\ Head(evs).kind \in TurnKinds
    <3>1. Head(evs).kind = "disconnected" /\ shown' = 0
      BY <1>5, <1>6, <1>8, <2>4, FinePump DEF TurnKinds
    <3>2. \A i \in 1..Len(evs') : evs'[i].kind # "connected"
      BY <1>2, <2>4 DEF Turned, Says
    <3>3. On(evs', 0, Len(evs') + 1, session)
      <4>1. Ahead(evs', shown', session)
        BY <1>1, <1>5, AheadTail
      <4> QED
        BY <3>1, <4>1 DEF Ahead
    <3>4. session = 0
      BY <1>2, <3>2, <3>3, NeverOn
    <3>5. Early(cmds')
      <4>1. ~Has(cmds', {"connect"})
        BY <1>4, <2>4, <3>4 DEF Turned
      <4> QED
        BY <4>1 DEF Early, Has
    <3> QED
      BY <1>1, <2>4, <3>1, <3>2, <3>4, <3>5 DEF Turned
  <2> QED
    BY <2>2, <2>3, <2>4
<1> QED
  BY <1>7, <1>8

LEMMA TurnsCollector ==
  ASSUME IInv, Numbered, Ahead(evs, shown, session), Turned, CollectorStep, UNCHANGED guiVars, Fine'
  PROVE  Turned'
<1>i. /\ evs \in Seq(Event) /\ cmds \in Seq(Command) /\ epoch \in Nat /\ epoch' \in Nat
      /\ UNCHANGED shown /\ Len(evs) \in Nat
      /\ at = "connecting" => session = 0
  BY CollectorKeeps DEF IInv, TypeOK, SessionIsCurrent, guiVars
\* The queue grows by events that turn nothing.
<1>1. ASSUME evs' \in Seq(Event), Len(evs) <= Len(evs'), \A i \in 1..Len(evs) : evs'[i] = evs[i],
             \A i \in Len(evs)+1 .. Len(evs') : evs'[i].kind \notin TurnKinds,
             UNCHANGED session, at' = "connecting" => at = "connecting",
             \/ UNCHANGED cmds
             \/ cmds # <<>> /\ cmds' = Tail(cmds) /\ Head(cmds).op \notin {"connect", "disconnect"}
      PROVE  Turned'
  <2>1. Len(evs') \in Nat /\ \A i \in 1..Len(evs') : evs'[i].kind \in TurnKinds => i \in 1..Len(evs)
    BY <1>1, <1>i
  <2>2. /\ Has(cmds', Hold) => Has(cmds, Hold)
        /\ Has(cmds', {"connect"}) => Has(cmds, {"connect"})
        /\ Early(cmds) => Early(cmds')
        /\ Doomed(cmds) => Doomed(cmds')
    BY <1>1, <1>i, TurnsTail
  <2>3. CASE shown = 0
    <3>1. ASSUME NEW i \in 1..Len(evs'), evs'[i].kind = "connected"
          PROVE  session # 0 /\ \A m \in i+1 .. Len(evs') : evs'[m].kind \notin TurnKinds
      <4>1. i \in 1..Len(evs)
        BY <2>1, <3>1 DEF TurnKinds
      <4>2. session # 0 /\ \A m \in i+1 .. Len(evs) : evs[m].kind \notin TurnKinds
        BY <1>1, <2>3, <3>1, <4>1 DEF Turned
      <4>3. ASSUME NEW m \in i+1 .. Len(evs'), evs'[m].kind \in TurnKinds PROVE FALSE
        <5>1. m \in 1..Len(evs') /\ m \in Int
          BY <1>i, <2>1, <4>1
        <5>2. m \in 1..Len(evs)
          BY <2>1, <4>3, <5>1
        <5>3. m \in i+1 .. Len(evs)
          BY <4>1, <5>2
        <5> QED
          BY <1>1, <4>2, <4>3, <5>2, <5>3
      <4> QED
        BY <4>2, <4>3
    <3> QED
      BY <1>1, <1>i, <2>2, <2>3, <3>1 DEF Turned
  <2>4. CASE shown # 0
    <3>1. Says("connected")' => Says("connected")
      BY <1>1, <2>1 DEF Says, TurnKinds
    <3>2. Says("disconnected") => Says("disconnected")'
      BY <1>1, <1>i, <2>1 DEF Says
    <3> QED
      BY <1>1, <1>i, <2>2, <2>4, <3>1, <3>2 DEF Turned
  <2> QED
    BY <2>3, <2>4
\* The kinds in a queue that grows by one.
<1>2. ASSUME NEW s \in Seq(Event), NEW x \in Event
      PROVE  /\ Append(s, x) \in Seq(Event) /\ Len(Append(s, x)) = Len(s) + 1 /\ Len(s) \in Nat
             /\ Append(s, x)[Len(s) + 1] = x
             /\ \A i \in 1..Len(s) : Append(s, x)[i] = s[i]
             /\ \A i \in 1..Len(s)+1 : i = Len(s) + 1 \/ i \in 1..Len(s)
  BY AppendedEvent
<1>3. CASE Connect
  <2>1. /\ session = 0 /\ session' = 0 /\ at' = "connecting"
        /\ cmds # <<>> /\ cmds' = Tail(cmds) /\ Head(cmds).op = "connect"
        /\ evs' = Append(evs, Ev("connecting", epoch', NoJob))
    BY <1>3, FineCollector, TurningSays DEF Connect, Receive
  <2>2. shown = 0
    <3>1. Has(cmds, {"connect"})
      BY <1>i, <2>1, TurnsTail
    <3> QED
      BY <2>1, <3>1 DEF Turned
  <2>3. Early(cmds') /\ ~Has(cmds', Hold)
    BY <1>i, <2>1, <2>2, TurnsTail DEF Turned
  <2>4. \A i \in 1..Len(evs') : evs'[i].kind # "connected"
    <3>1. \A i \in 1..Len(evs) : evs[i].kind # "connected"
      BY <2>1, <2>2 DEF Turned
    <3> QED
      BY <1>2, <1>i, <2>1, <3>1, TurnEvent DEF TurnKinds
  <2> QED
    BY <1>i, <2>1, <2>2, <2>3, <2>4 DEF Turned
<1>4. CASE Disconnect
  <2> DEFINE x == Ev("disconnected", epoch', NoJob)
  <2>1. /\ session' = 0 /\ UNCHANGED at /\ at = "select"
        /\ cmds # <<>> /\ cmds' = Tail(cmds) /\ Head(cmds).op = "disconnect"
        /\ evs' = Append(evs, x)
    BY <1>4, TurningSays DEF Disconnect, Receive
  <2>x. x \in Event /\ x.kind = "disconnected"
    BY <1>i, TurnEvent DEF TurnKinds
  <2> HIDE DEF x
  <2>2. /\ Has(cmds, Hold)
        /\ Early(cmds) => Early(cmds')
        /\ Doomed(cmds) => Doomed(cmds') /\ ~Has(cmds', {"connect"})
    BY <1>i, <2>1, TurnsTail DEF Hold
  <2>3. CASE shown = 0
    <3>1. \A i \in 1..Len(evs) : evs[i].kind # "connected"
      BY <2>2, <2>3 DEF Turned
    <3>2. \A i \in 1..Len(evs') : evs'[i].kind # "connected"
      BY <1>2, <1>i, <2>1, <2>x, <3>1
    <3> QED
      BY <1>i, <2>1, <2>2, <2>3, <3>2 DEF Turned
  <2>4. CASE shown # 0
    <3>1. ~Says("connected")'
      BY <1>2, <1>i, <2>1, <2>4, <2>x DEF Turned, Says
    <3>2. Says("disconnected")'
      <4>1. Len(evs) + 1 \in 1..Len(evs') /\ evs'[Len(evs) + 1] = x
        BY <1>2, <1>i, <2>1, <2>x
      <4> QED
        BY <2>x, <4>1 DEF Says
    <3> QED
      BY <1>i, <2>1, <2>2, <2>4, <3>1, <3>2 DEF Turned
  <2> QED
    BY <2>3, <2>4
<1>5. CASE ConnectOk
  <2> DEFINE x == Ev("connected", epoch, NoJob)
  <2>1. /\ session = 0 /\ session' = epoch /\ at = "connecting" /\ at' = "select" /\ UNCHANGED cmds
        /\ evs' = Append(evs, x)
    BY <1>5, TurningSays DEF ConnectOk, Tell
  <2>x. x \in Event
    BY <1>i, TurnEvent DEF TurnKinds
  <2> HIDE DEF x
  <2>2. shown = 0 /\ epoch # 0
    BY <2>1 DEF Turned, Numbered
  <2>3. \A i \in 1..Len(evs) : evs[i].kind # "connected"
    BY <2>1, <2>2 DEF Turned
  <2>4. ASSUME NEW i \in 1..Len(evs'), evs'[i].kind = "connected"
        PROVE  \A m \in i+1 .. Len(evs') : evs'[m].kind \notin TurnKinds
    <3>1. i = Len(evs) + 1 /\ Len(evs') = Len(evs) + 1
      BY <1>2, <1>i, <2>1, <2>3, <2>4, <2>x
    <3> QED
      BY <1>i, <3>1
  <2> QED
    BY <1>i, <2>1, <2>2, <2>4 DEF Turned
<1>6. CASE ConnectFail
  <2> DEFINE x == Tell("error")
             y == Ev("disconnected", epoch, NoJob)
  <2>1. /\ session = 0 /\ session' = 0 /\ at = "connecting" /\ at' = "select" /\ UNCHANGED cmds
        /\ evs' = Append(Append(evs, x), y)
    BY <1>6, TurningSays DEF ConnectFail, Tell
  <2>2. x \in Event /\ y \in Event /\ x.kind # "connected" /\ y.kind # "connected"
    BY <1>i, TurnEvent DEF Tell, Ev, Event, LoopKinds, LoopWords, TurnKinds
  <2> HIDE DEF x, y
  <2>3. shown = 0
    BY <2>1 DEF Turned
  <2>4. \A i \in 1..Len(evs) : evs[i].kind # "connected"
    BY <2>1, <2>3 DEF Turned
  <2>5. /\ Append(evs, x) \in Seq(Event)
        /\ \A i \in 1..Len(Append(evs, x)) : Append(evs, x)[i].kind # "connected"
    BY <1>2, <1>i, <2>2, <2>4
  <2>6. \A i \in 1..Len(evs') : evs'[i].kind # "connected"
    BY <1>2, <2>1, <2>2, <2>5
  <2> QED
    BY <1>i, <2>1, <2>3, <2>6 DEF Turned
<1>7. CASE \E j \in Jobs : Emit(j)
  <2>1. PICK j \in Jobs : Emit(j)
    BY <1>7
  <2> DEFINE x == Ev(Words(j), job[j].epoch, j)
  <2>2. evs' = Append(evs, x) /\ UNCHANGED <<cmds, at, session>>
    BY <2>1 DEF Emit, loopVars
  <2>3. x \in Event /\ x.kind \notin TurnKinds
    BY TaskEvent DEF TurnKinds, JobKinds
  <2> HIDE DEF x
  <2> QED
    BY <1>1, <1>2, <1>i, <2>2, <2>3
<1>8. CASE Quietly(evs, evs') /\ UNCHANGED session
           /\ (Murmuring \/ Spawning \/ \E j \in Jobs : JobRuns(j))
  <2>1. /\ at' = "connecting" => at = "connecting"
        /\ \/ UNCHANGED cmds
           \/ cmds # <<>> /\ cmds' = Tail(cmds) /\ Head(cmds).op \notin {"connect", "disconnect"}
    BY <1>8, QuietTakes
  <2> QED
    BY <1>1, <1>8, <2>1 DEF Quietly, Loud
<1> QED
  BY <1>3, <1>4, <1>5, <1>6, <1>7, <1>8, CollectorSays

\* What a step of the application is, as long as the order lasts.
LEMMA FineBack ==
  ASSUME AppInv, Ahead(evs, shown, session), [AppNext]_appVars, Fine'
  PROVE  Fine
<1>1. CASE UserStep \/ SyncViews \/ UNCHANGED appVars
  <2>1. UNCHANGED <<evs, shown, late, replaced>>
    BY <1>1, UserLeaves DEF appVars, vars, guiVars
  <2> QED
    BY <2>1 DEF Fine, Orderly, InOrder
<1>2. CASE Pump
  BY <1>2, FinePump
<1>3. CASE Paced
  BY <1>3, FineCollector DEF Paced, AppInv
<1> QED
  BY <1>1, <1>2, <1>3 DEF AppNext

LEMMA TurnsNext ==
  ASSUME AppInv, ScreenOK, Numbered, Ahead(evs, shown, session), TurnsOK, [AppNext]_appVars
  PROVE  TurnsOK'
<1> SUFFICES ASSUME Fine' PROVE Turned'
  BY DEF TurnsOK
<1>1. Turned
  BY FineBack DEF TurnsOK
<1>2. CASE UNCHANGED appVars
  BY <1>1, <1>2 DEF appVars, vars, guiVars, loopVars, Turned, Says
<1>3. CASE Paced
  BY <1>1, <1>3, TurnsCollector DEF Paced, AppInv
<1> QED
  BY <1>1, <1>2, <1>3, TurnsUser, TurnsPump DEF AppNext

LEMMA TurnsInvariance == AppSpec => []TurnsOK
<1>1. AppInit => TurnsOK
  <2> SUFFICES ASSUME AppInit PROVE Turned
    BY DEF TurnsOK
  <2>1. evs = <<>> /\ cmds = <<>> /\ shown = 0
    BY DEF AppInit, Init
  <2>2. 1..Len(evs) = {} /\ 1..Len(cmds) = {}
    BY <2>1
  <2> QED
    BY <2>1, <2>2 DEF Turned, Early, Has
<1> QED
  BY <1>1, TurnsNext, ScreenInvariance, NumberedInvariance, AheadInvariance, AppInvariance, PTL
  DEF AppSpec

-----------------------------------------------------------------------------
(* The flags of the console and of the dump.  If one is up behind all the   *)
(* events on their way, something will still lower it.                     *)

\* Behind all of s the flag is down.
Clear(s, K, F, v) == Flag(s, K, F, v, Len(s) + 1, FALSE)

SqlKinds == {"sql_on", "sql_off", "disconnected"}
Sqls == [x \in Event |-> x.kind = "sql_on"]
DumpKinds == {"dump_progress", "dump_end", "disconnected"}
Dumps == [x \in Event |-> x.kind = "dump_progress"]

\* A task of the session that has raised the flag, or may, and will lower it.
SqlRuns(j) == /\ job[j].op = "sql" /\ job[j].epoch = session
              /\ job[j].pc \in {"acquire", "register", "work", "unregister", "return", "report", "quiet"}
DumpRuns(j) == /\ job[j].op = "dump" /\ job[j].epoch = session
               /\ job[j].pc \in {"acquire", "work", "progress", "return", "report"}

ConsoleOK == Fine => \/ Clear(evs, SqlKinds, Sqls, consoleRunning)
                     \/ session # 0 /\ \E j \in Jobs : SqlRuns(j)
DumpOK == Fine => \/ Clear(evs, DumpKinds, Dumps, dumpRunning)
                  \/ session # 0 /\ (Has(cmds, {"dump"}) \/ \E j \in Jobs : DumpRuns(j))

LEMMA ClearAppend ==
  ASSUME NEW s \in Seq(Event), NEW x \in Event, NEW K, NEW F, NEW v,
         IF x.kind \in K THEN F[x] = FALSE ELSE Clear(s, K, F, v)
  PROVE  Append(s, x) \in Seq(Event) /\ Clear(Append(s, x), K, F, v)
<1>1. Append(s, x) \in Seq(Event) /\ Len(Append(s, x)) + 1 = Len(s) + 2
  BY AppendedEvent
<1>2. CASE x.kind \in K
  <2>1. Flag(Append(s, x), K, F, v, Len(s) + 2, F[x])
    BY <1>2, FlagSet
  <2> QED
    BY <1>1, <1>2, <2>1 DEF Clear
<1>3. CASE x.kind \notin K
  BY <1>1, <1>3, FlagStays DEF Clear
<1> QED
  BY <1>2, <1>3

LEMMA ClearTail ==
  ASSUME NEW s \in Seq(Event), s # <<>>, NEW K, NEW F, NEW v, NEW w,
         w = IF Head(s).kind \in K THEN F[Head(s)] ELSE v, Clear(s, K, F, v)
  PROVE  Clear(Tail(s), K, F, w)
<1>1. Len(s) \in 1..Len(s) /\ Len(Tail(s)) + 1 = Len(s)
  OBVIOUS
<1> QED
  BY <1>1, FlagTail DEF Clear

\* An event of such a kind makes what the flag was at first immaterial.
LEMMA ClearAnyway ==
  ASSUME NEW s \in Seq(Event), NEW K, NEW F, NEW v, NEW w, Clear(s, K, F, v),
         \E i \in 1..Len(s) : s[i].kind \in K
  PROVE  Clear(s, K, F, w)
<1>1. PICK k \in 0..(Len(s) + 1)-1 :
        Decides(s, K, k, Len(s) + 1) /\ FALSE = IF k = 0 THEN v ELSE F[s[k]]
  BY DEF Clear, Flag
<1>2. PICK i \in 1..Len(s) : s[i].kind \in K
  OBVIOUS
<1>3. k # 0
  <2>1. i \in 0+1 .. (Len(s) + 1)-1
    BY <1>2
  <2> QED
    BY <1>1, <1>2, <2>1 DEF Decides
<1> QED
  BY <1>1, <1>3 DEF Clear, Flag

LEMMA ConsolePumped ==
  ASSUME AppInv, Pump
  PROVE  consoleRunning' = IF Head(evs).kind \in SqlKinds THEN Sqls[Head(evs)] ELSE consoleRunning
<1>1. CASE OnSqlBusy
  BY <1>1, Taken DEF OnSqlBusy, SqlKinds, Sqls
<1>2. CASE OnDisconnected
  <2>1. Head(evs) \in Event /\ Head(evs).kind = "disconnected" /\ consoleRunning' = FALSE
    BY <1>2, Taken DEF OnDisconnected
  <2> QED
    BY <2>1 DEF SqlKinds, Sqls
<1>3. CASE OnConnecting \/ OnConnected \/ OnBusy \/ OnDump \/ OnApplied
  BY <1>3 DEF OnConnecting, OnConnected, OnBusy, OnDump, OnApplied, Take, SqlKinds
<1>4. CASE OnOther
  BY <1>4, HeavyAssumption DEF OnOther, Take, SqlKinds, LoopWords, JobKinds
<1> QED
  BY <1>1, <1>2, <1>3, <1>4 DEF Pump

LEMMA DumpPumped ==
  ASSUME AppInv, Pump
  PROVE  dumpRunning' = IF Head(evs).kind \in DumpKinds THEN Dumps[Head(evs)] ELSE dumpRunning
<1>1. CASE OnDump
  BY <1>1, Taken DEF OnDump, DumpKinds, Dumps
<1>2. CASE OnDisconnected
  <2>1. Head(evs) \in Event /\ Head(evs).kind = "disconnected" /\ dumpRunning' = FALSE
    BY <1>2, Taken DEF OnDisconnected
  <2> QED
    BY <2>1 DEF DumpKinds, Dumps
<1>3. CASE OnConnecting \/ OnConnected \/ OnBusy \/ OnSqlBusy \/ OnApplied
  BY <1>3 DEF OnConnecting, OnConnected, OnBusy, OnSqlBusy, OnApplied, Take, DumpKinds
<1>4. CASE OnOther
  BY <1>4, HeavyAssumption DEF OnOther, Take, DumpKinds, LoopWords, JobKinds
<1> QED
  BY <1>1, <1>2, <1>3, <1>4 DEF Pump

\* A statement or a dump of the session in force goes on until it has spoken.
LEMMA TaskGoesOn ==
  ASSUME IInv, IInv', NEW j \in Jobs, JobRuns(j), ~Emit(j), session # 0
  PROVE  /\ SqlRuns(j) => SqlRuns(j)'
         /\ DumpRuns(j) => DumpRuns(j)'
<1>1. UNCHANGED session /\ session = epoch
  BY JobSays DEF IInv, SessionIsCurrent
<1>2. Sound(job'[j])
  BY DEF IInv, Shape
<1>3. CASE CheckEpoch(j)
  <2>1. job[j].epoch = session => SameTask(j) /\ job'[j].pc = job[j].pc
    BY <1>1, <1>3, SpeaksOn
  <2> QED
    BY <1>1, <2>1 DEF SqlRuns, DumpRuns, SameTask
<1>4. CASE ~CheckEpoch(j)
  <2>1. CASE SameTask(j) /\ <<job[j].pc, job'[j].pc>> \in Moves
    BY <1>1, <1>2, <2>1 DEF SqlRuns, DumpRuns, SameTask, Moves, Sound
  <2>2. CASE Lower(j) \/ Release(j) \/ job[j].op \in {"kill", "cancelsql"}
    BY <2>2 DEF SqlRuns, DumpRuns, Lower, Release, JobStep
  <2> QED
    BY <1>4, <2>1, <2>2, WorksOn
<1> QED
  BY <1>3, <1>4

LEMMA TasksStay ==
  ASSUME IInv, IInv', NEW k \in Jobs, session # 0,
         \/ Murmuring
         \/ Spawning
         \/ \E j \in Jobs : JobRuns(j) /\ (~Emit(j) \/ j # k)
  PROVE  /\ UNCHANGED session
         /\ SqlRuns(k) => SqlRuns(k)'
         /\ DumpRuns(k) => DumpRuns(k)'
<1>j. job \in [Jobs -> Job]
  BY DEF IInv, TypeOK
<1>1. CASE Murmuring
  <2>1. job'[k] \in {job[k], [job[k] EXCEPT !.told = TRUE]} /\ UNCHANGED session
    BY <1>1, MurmuringSays
  <2> QED
    BY <1>j, <2>1 DEF SqlRuns, DumpRuns, Job
<1>2. CASE Spawning
  <2>1. PICK j \in Jobs : ~Alive(j) /\ \E aim : job' = [job EXCEPT ![j] = Fresh(Head(cmds).op, aim)]
    BY <1>2, SpawningSays
  <2>2. UNCHANGED session
    BY <1>2, SpawningSays
  <2>3. Alive(k) => job'[k] = job[k]
    BY <1>j, <2>1
  <2> QED
    BY <2>2, <2>3 DEF SqlRuns, DumpRuns, Alive
<1>3. ASSUME NEW j \in Jobs, JobRuns(j), ~Emit(j) \/ j # k
      PROVE  /\ UNCHANGED session
             /\ SqlRuns(k) => SqlRuns(k)'
             /\ DumpRuns(k) => DumpRuns(k)'
  <2>1. UNCHANGED session
    BY <1>3, JobSays
  <2>2. CASE j = k
    BY <1>3, <2>1, <2>2, TaskGoesOn
  <2>3. CASE j # k
    <3>1. SameTask(k) /\ job'[k].pc = job[k].pc
      BY <1>3, <2>3, OthersStay
    <3> QED
      BY <2>1, <3>1 DEF SqlRuns, DumpRuns, SameTask
  <2> QED
    BY <2>2, <2>3
<1> QED
  BY <1>1, <1>2, <1>3

LEMMA ConsoleSpoken ==
  ASSUME IInv, IInv', Numbered, NEW j \in Jobs, Emit(j), job[j].epoch = session,
         Clear(evs, SqlKinds, Sqls, consoleRunning) \/ \E k \in Jobs : SqlRuns(k)
  PROVE  \/ Clear(evs', SqlKinds, Sqls, consoleRunning)
         \/ session # 0 /\ \E k \in Jobs : SqlRuns(k)'
<1>i. /\ evs \in Seq(Event) /\ Sound(job[j])
      /\ job[j].pc \in Speaks /\ UNCHANGED session /\ JobRuns(j)
      /\ session # 0
  BY DEF IInv, TypeOK, Shape, Emit, loopVars, JobRuns, Numbered, Alive, Speaks
<1> DEFINE x == Ev(Words(j), job[j].epoch, j)
<1>1. evs' = Append(evs, x)
  BY DEF Emit
<1>2. x \in Event /\ x.kind = Words(j)
  BY TaskEvent
<1> HIDE DEF x
<1>3. Spoken(j) # "none" => SameTask(j) /\ job'[j].pc = Spoken(j)
  BY SpeaksOn DEF Emit, CheckEpoch
<1>4. CASE job[j].pc = "announce"
  <2>1. job[j].op = "sql" /\ Spoken(j) = "acquire"
    BY <1>4, <1>i DEF Sound, Spoken
  <2> QED
    BY <1>3, <1>i, <2>1 DEF SqlRuns, SameTask
<1>5. CASE job[j].pc = "quiet"
  <2>1. x.kind = "sql_off"
    BY <1>2, <1>5 DEF Words, Report
  <2>2. x.kind \in SqlKinds /\ Sqls[x] = FALSE
    BY <1>2, <2>1 DEF SqlKinds, Sqls
  <2> QED
    BY <1>1, <1>2, <1>i, <2>2, ClearAppend
<1>6. CASE job[j].pc \notin {"announce", "quiet"}
  <2>1. x.kind \notin SqlKinds
    BY <1>2, <1>6, <1>i DEF Words, Report, SqlKinds, Speaks, Sound
  <2>2. CASE Clear(evs, SqlKinds, Sqls, consoleRunning)
    BY <1>1, <1>2, <1>i, <2>1, <2>2, ClearAppend
  <2>3. ASSUME NEW k \in Jobs, SqlRuns(k) PROVE SqlRuns(k)'
    <3>1. CASE k # j
      BY <1>i, <2>3, <3>1, TasksStay
    <3>2. CASE k = j
      <4>1. Spoken(j) = "quiet"
        BY <1>6, <1>i, <2>3, <3>2 DEF SqlRuns, Spoken, Speaks
      <4> QED
        BY <1>3, <1>i, <2>3, <3>2, <4>1 DEF SqlRuns, SameTask
    <3> QED
      BY <3>1, <3>2
  <2> QED
    BY <1>i, <2>2, <2>3
<1> QED
  BY <1>4, <1>5, <1>6

LEMMA ConsoleCollector ==
  ASSUME IInv, IInv', Numbered, Ahead(evs, shown, session), CollectorStep, UNCHANGED guiVars, Fine',
         ConsoleOK
  PROVE  \/ Clear(evs', SqlKinds, Sqls, consoleRunning)
         \/ session' # 0 /\ \E j \in Jobs : SqlRuns(j)'
<1>i. evs \in Seq(Event) /\ epoch \in Nat /\ epoch' \in Nat
  BY DEF IInv, TypeOK
<1>1. \/ Clear(evs, SqlKinds, Sqls, consoleRunning)
      \/ session # 0 /\ \E j \in Jobs : SqlRuns(j)
  BY FineCollector DEF ConsoleOK
<1>2. ASSUME NEW k \in TurnKinds, evs' = Append(evs, Ev(k, epoch', NoJob)),
             k = "disconnected" \/ session = 0
      PROVE  Clear(evs', SqlKinds, Sqls, consoleRunning)
  <2> DEFINE x == Ev(k, epoch', NoJob)
  <2>1. x \in Event /\ x.kind = k /\ (k \in SqlKinds => k = "disconnected")
    BY <1>i, TurnEvent DEF TurnKinds, SqlKinds
  <2> HIDE DEF x
  <2>2. IF x.kind \in SqlKinds THEN Sqls[x] = FALSE ELSE Clear(evs, SqlKinds, Sqls, consoleRunning)
    BY <1>1, <1>2, <2>1 DEF Sqls, SqlKinds
  <2> QED
    BY <1>2, <1>i, <2>1, <2>2, ClearAppend DEF x
<1>3. CASE Connect \/ Disconnect \/ ConnectOk
  BY <1>2, <1>3, FineCollector, TurningSays DEF TurnKinds, Tell
<1>4. CASE ConnectFail
  <2> DEFINE x == Tell("error")
             y == Ev("disconnected", epoch, NoJob)
  <2>1. session = 0 /\ evs' = Append(Append(evs, x), y)
    BY <1>4, TurningSays DEF Tell
  <2>2. /\ x \in Event /\ y \in Event /\ x.kind \notin SqlKinds
        /\ y.kind \in SqlKinds /\ Sqls[y] = FALSE
    <3>1. x \in Event /\ y \in Event /\ x.kind = "error" /\ y.kind = "disconnected"
      BY <1>i, TurnEvent DEF Tell, Ev, Event, LoopKinds, LoopWords, TurnKinds
    <3> HIDE DEF x, y
    <3> QED
      BY <3>1 DEF SqlKinds, Sqls
  <2> HIDE DEF x, y
  <2>3. Append(evs, x) \in Seq(Event)
    BY <1>i, <2>2
  <2> QED
    BY <2>1, <2>2, <2>3, ClearAppend
<1>5. CASE \E j \in Jobs : Emit(j)
  <2>1. PICK j \in Jobs : Emit(j) /\ job[j].epoch = session
    BY <1>5, FineCollector
  <2> QED
    BY <1>1, <2>1, ConsoleSpoken DEF Emit, loopVars
<1>6. CASE /\ Quietly(evs, evs')
           /\ Murmuring \/ Spawning \/ \E j \in Jobs : JobRuns(j) /\ ~Emit(j)
  <2>1. Clear(evs, SqlKinds, Sqls, consoleRunning) => Clear(evs', SqlKinds, Sqls, consoleRunning)
    <3>1. SqlKinds \in SUBSET Loud
      BY DEF SqlKinds, Loud, TurnKinds, JobKinds
    <3> QED
      BY <1>6, <1>i, <3>1, QuietFlag DEF Clear
  <2>2. ASSUME session # 0 PROVE session' # 0 /\ \A j \in Jobs : SqlRuns(j) => SqlRuns(j)'
    <3>1. UNCHANGED session
      BY <1>6, MurmuringSays, SpawningSays, JobSays
    <3> QED
      BY <1>6, <2>2, <3>1, TasksStay
  <2> QED
    BY <1>1, <2>1, <2>2
<1> QED
  BY <1>3, <1>4, <1>5, <1>6, CollectorSays

LEMMA DumpSpoken ==
  ASSUME IInv, IInv', Numbered, NEW j \in Jobs, Emit(j), job[j].epoch = session,
         Clear(evs, DumpKinds, Dumps, dumpRunning) \/ \E k \in Jobs : DumpRuns(k)
  PROVE  \/ Clear(evs', DumpKinds, Dumps, dumpRunning)
         \/ session # 0 /\ \E k \in Jobs : DumpRuns(k)'
<1>i. /\ evs \in Seq(Event) /\ Sound(job[j])
      /\ job[j].pc \in Speaks /\ UNCHANGED session /\ JobRuns(j)
      /\ session # 0
  BY DEF IInv, TypeOK, Shape, Emit, loopVars, JobRuns, Numbered, Alive, Speaks
<1> DEFINE x == Ev(Words(j), job[j].epoch, j)
<1>1. evs' = Append(evs, x)
  BY DEF Emit
<1>2. x \in Event /\ x.kind = Words(j)
  BY TaskEvent
<1> HIDE DEF x
<1>3. Spoken(j) # "none" => SameTask(j) /\ job'[j].pc = Spoken(j)
  BY SpeaksOn DEF Emit, CheckEpoch
<1>4. CASE job[j].pc = "progress"
  <2>1. job[j].op = "dump" /\ Spoken(j) = "work"
    BY <1>4, <1>i DEF Sound, Spoken
  <2> QED
    BY <1>3, <1>i, <2>1 DEF DumpRuns, SameTask
<1>5. CASE job[j].op = "dump" /\ job[j].pc = "report"
  <2>1. x.kind = "dump_end"
    BY <1>2, <1>5 DEF Words, Report
  <2>2. x.kind \in DumpKinds /\ Dumps[x] = FALSE
    BY <1>2, <2>1 DEF DumpKinds, Dumps
  <2> QED
    BY <1>1, <1>2, <1>i, <2>2, ClearAppend
<1>6. CASE job[j].pc # "progress" /\ ~(job[j].op = "dump" /\ job[j].pc = "report")
  <2>1. x.kind \notin DumpKinds
    BY <1>2, <1>6, <1>i DEF Words, Report, DumpKinds, Speaks, Sound
  <2>2. CASE Clear(evs, DumpKinds, Dumps, dumpRunning)
    BY <1>1, <1>2, <1>i, <2>1, <2>2, ClearAppend
  <2>3. ASSUME NEW k \in Jobs, DumpRuns(k) PROVE DumpRuns(k)'
    <3>1. CASE k # j
      BY <1>i, <2>3, <3>1, TasksStay
    <3>2. CASE k = j
      BY <1>6, <1>i, <2>3, <3>2 DEF DumpRuns, Speaks
    <3> QED
      BY <3>1, <3>2
  <2> QED
    BY <1>i, <2>2, <2>3
<1> QED
  BY <1>4, <1>5, <1>6

LEMMA DumpCollector ==
  ASSUME IInv, IInv', Numbered, Ahead(evs, shown, session), CollectorStep, UNCHANGED guiVars, Fine',
         DumpOK
  PROVE  \/ Clear(evs', DumpKinds, Dumps, dumpRunning)
         \/ session' # 0 /\ (Has(cmds', {"dump"}) \/ \E j \in Jobs : DumpRuns(j)')
<1>i. evs \in Seq(Event) /\ epoch \in Nat /\ epoch' \in Nat /\ cmds \in Seq(Command)
  BY DEF IInv, TypeOK
<1>1. \/ Clear(evs, DumpKinds, Dumps, dumpRunning)
      \/ session # 0 /\ (Has(cmds, {"dump"}) \/ \E j \in Jobs : DumpRuns(j))
  BY FineCollector DEF DumpOK
<1>2. ASSUME NEW k \in TurnKinds, evs' = Append(evs, Ev(k, epoch', NoJob)),
             k = "disconnected" \/ session = 0
      PROVE  Clear(evs', DumpKinds, Dumps, dumpRunning)
  <2> DEFINE x == Ev(k, epoch', NoJob)
  <2>1. x \in Event /\ x.kind = k /\ (k \in DumpKinds => k = "disconnected")
    BY <1>i, TurnEvent DEF TurnKinds, DumpKinds
  <2> HIDE DEF x
  <2>2. IF x.kind \in DumpKinds THEN Dumps[x] = FALSE ELSE Clear(evs, DumpKinds, Dumps, dumpRunning)
    BY <1>1, <1>2, <2>1 DEF Dumps, DumpKinds
  <2> QED
    BY <1>2, <1>i, <2>1, <2>2, ClearAppend DEF x
<1>3. CASE Connect \/ Disconnect \/ ConnectOk
  BY <1>2, <1>3, FineCollector, TurningSays DEF TurnKinds, Tell
<1>4. CASE ConnectFail
  <2> DEFINE x == Tell("error")
             y == Ev("disconnected", epoch, NoJob)
  <2>1. session = 0 /\ evs' = Append(Append(evs, x), y)
    BY <1>4, TurningSays DEF Tell
  <2>2. /\ x \in Event /\ y \in Event /\ x.kind \notin DumpKinds
        /\ y.kind \in DumpKinds /\ Dumps[y] = FALSE
    <3>1. x \in Event /\ y \in Event /\ x.kind = "error" /\ y.kind = "disconnected"
      BY <1>i, TurnEvent DEF Tell, Ev, Event, LoopKinds, LoopWords, TurnKinds
    <3> HIDE DEF x, y
    <3> QED
      BY <3>1 DEF DumpKinds, Dumps
  <2> HIDE DEF x, y
  <2>3. Append(evs, x) \in Seq(Event)
    BY <1>i, <2>2
  <2> QED
    BY <2>1, <2>2, <2>3, ClearAppend
<1>5. CASE \E j \in Jobs : Emit(j)
  <2>1. PICK j \in Jobs : Emit(j) /\ job[j].epoch = session
    BY <1>5, FineCollector
  <2>2. UNCHANGED <<cmds, session>>
    BY <2>1 DEF Emit, loopVars
  <2>3. CASE session # 0 /\ Has(cmds, {"dump"})
    BY <2>2, <2>3
  <2>4. CASE Clear(evs, DumpKinds, Dumps, dumpRunning) \/ \E k \in Jobs : DumpRuns(k)
    BY <2>1, <2>2, <2>4, DumpSpoken
  <2> QED
    BY <1>1, <2>3, <2>4
<1>6. CASE /\ Quietly(evs, evs')
           /\ Murmuring \/ Spawning \/ \E j \in Jobs : JobRuns(j) /\ ~Emit(j)
  <2>1. Clear(evs, DumpKinds, Dumps, dumpRunning) => Clear(evs', DumpKinds, Dumps, dumpRunning)
    <3>1. DumpKinds \in SUBSET Loud
      BY DEF DumpKinds, Loud, TurnKinds, JobKinds
    <3> QED
      BY <1>6, <1>i, <3>1, QuietFlag DEF Clear
  <2>2. ASSUME session # 0 PROVE session' # 0 /\ \A j \in Jobs : DumpRuns(j) => DumpRuns(j)'
    <3>1. UNCHANGED session
      BY <1>6, MurmuringSays, SpawningSays, JobSays
    <3> QED
      BY <1>6, <2>2, <3>1, TasksStay
  <2>3. CASE session # 0 /\ Has(cmds, {"dump"}) /\ ~Has(cmds', {"dump"})
    <3>1. Head(cmds).op = "dump" /\ cmds # <<>>
      BY <1>6, <1>i, <2>3, QuietTakes, TurnsTail
    <3>2. PICK j \in Jobs : job' = [job EXCEPT ![j] = Fresh("dump", 0)]
      BY <1>6, <2>3, <3>1, QuietTakes
    <3>3. job'[j] = Fresh("dump", 0) /\ session' = epoch
      BY <2>2, <2>3, <3>2, MurmuringSays, SpawningSays, JobSays, <1>6 DEF IInv, TypeOK, SessionIsCurrent
    <3>4. DumpRuns(j)'
      BY <3>3 DEF DumpRuns, Fresh
    <3> QED
      BY <2>2, <2>3, <3>4
  <2> QED
    BY <1>1, <2>1, <2>2, <2>3
<1> QED
  BY <1>3, <1>4, <1>5, <1>6, CollectorSays

LEMMA FlagsPump ==
  ASSUME AppInv, Ahead(evs, shown, session), Pump, Fine'
  PROVE  /\ ConsoleOK => ConsoleOK'
         /\ DumpOK => DumpOK'
<1>1. /\ evs \in Seq(Event) /\ evs # <<>> /\ evs' = Tail(evs) /\ UNCHANGED <<session, job>>
      /\ cmds \in Seq(Command)
  BY DEF Pump, OnConnecting, OnConnected, OnDisconnected, OnBusy, OnSqlBusy, OnDump,
     OnApplied, OnOther, Take, loopVars, AppInv, IInv, TypeOK
<1>2. Fine
  BY FinePump
<1>3. Clear(evs, SqlKinds, Sqls, consoleRunning) => Clear(evs', SqlKinds, Sqls, consoleRunning')
  BY <1>1, ConsolePumped, ClearTail
<1>4. Clear(evs, DumpKinds, Dumps, dumpRunning) => Clear(evs', DumpKinds, Dumps, dumpRunning')
  BY <1>1, DumpPumped, ClearTail
<1>5. Has(cmds, {"dump"}) => Has(cmds', {"dump"})
  <2>1. {"dump"} \in SUBSET TurnOps
    BY DEF TurnOps, Hold
  <2> QED
    BY <1>1, <2>1, PumpAsks, PlainTurns
<1> QED
  BY <1>1, <1>2, <1>3, <1>4, <1>5 DEF ConsoleOK, DumpOK, SqlRuns, DumpRuns

\* A click on Dump is behind a disconnect that is still to be shown, or the
\* session is there to take the command.
LEMMA DumpUser ==
  ASSUME AppInv, ScreenOK, Numbered, TurnsOK, DumpOK, UserStep \/ SyncViews
  PROVE  DumpOK'
<1>1. /\ UNCHANGED <<evs, session, job, shown, state>> /\ cmds \in Seq(Command) /\ evs \in Seq(Event)
      /\ Fine' <=> Fine
  BY UserLeaves DEF loopVars, AppInv, IInv, TypeOK, Fine, Orderly
<1>2. CASE UNCHANGED <<cmds, dumpRunning>>
  BY <1>1, <1>2 DEF DumpOK, DumpRuns
<1>3. ASSUME Fine, NEW x \in Command, cmds' = Append(cmds, x), x.op \in Hold => state = "connected",
             x.op # "dump" => UNCHANGED dumpRunning
      PROVE  \/ Clear(evs', DumpKinds, Dumps, dumpRunning')
             \/ session' # 0 /\ (Has(cmds', {"dump"}) \/ \E j \in Jobs : DumpRuns(j)')
  <2>1. Has(cmds', {"dump"}) <=> Has(cmds, {"dump"}) \/ x.op = "dump"
    BY <1>1, <1>3, TurnsAppend
  <2>2. CASE x.op # "dump"
    BY <1>1, <1>3, <2>1, <2>2 DEF DumpOK, DumpRuns
  <2>3. CASE x.op = "dump" /\ session = 0
    <3>1. shown # 0
      BY <1>3, <2>3 DEF Numbered, Hold
    <3>2. PICK i \in 1..Len(evs) : evs[i].kind = "disconnected"
      BY <1>3, <2>3, <3>1 DEF TurnsOK, Turned, Says
    <3>3. Clear(evs, DumpKinds, Dumps, dumpRunning)
      BY <1>3, <2>3 DEF DumpOK
    <3>4. evs[i].kind \in DumpKinds
      BY <3>2 DEF DumpKinds
    <3> QED
      BY <1>1, <3>3, <3>4, ClearAnyway
  <2>4. CASE x.op = "dump" /\ session # 0
    BY <1>1, <2>1, <2>4
  <2> QED
    BY <2>2, <2>3, <2>4
<1> QED
  BY <1>1, <1>2, <1>3, UserAsks DEF DumpOK

LEMMA FlagsNext ==
  ASSUME AppInv, ScreenOK, Numbered, Ahead(evs, shown, session), TurnsOK, ConsoleOK, DumpOK,
         [AppNext]_appVars
  PROVE  ConsoleOK' /\ DumpOK'
<1>1. CASE UserStep \/ SyncViews
  <2>1. UNCHANGED <<evs, session, job, shown, late, replaced, consoleRunning>>
    BY <1>1, UserLeaves DEF loopVars
  <2>2. ConsoleOK'
    BY <2>1 DEF ConsoleOK, Fine, Orderly, SqlRuns
  <2> QED
    BY <1>1, <2>2, DumpUser
<1>2. CASE UNCHANGED appVars
  BY <1>2 DEF appVars, vars, guiVars, loopVars, ConsoleOK, DumpOK, Fine, Orderly, SqlRuns, DumpRuns
<1>3. CASE Pump
  <2>1. CASE Fine'
    BY <1>3, <2>1, FlagsPump
  <2> QED
    BY <2>1 DEF ConsoleOK, DumpOK
<1>4. CASE Paced
  <2>1. CollectorStep /\ UNCHANGED guiVars /\ IInv /\ IInv'
    BY <1>4, CollectorKeeps DEF Paced, AppInv
  <2>2. CASE Fine'
    <3>1. UNCHANGED <<consoleRunning, dumpRunning>>
      BY <2>1 DEF guiVars
    <3>2. ConsoleOK'
      BY <2>1, <2>2, <3>1, ConsoleCollector DEF ConsoleOK
    <3>3. DumpOK'
      BY <2>1, <2>2, <3>1, DumpCollector DEF DumpOK
    <3> QED
      BY <3>2, <3>3
  <2> QED
    BY <2>2 DEF ConsoleOK, DumpOK
<1> QED
  BY <1>1, <1>2, <1>3, <1>4 DEF AppNext

\* When all is done, the screen says of no statement and of no dump that it is
\* running: nothing the collector drops, refuses or abandons leaves a flag up,
\* unless a session was replaced on screen by a Connect sent twice.
THEOREM FlagsGoDown == AppSpec => []FlagsSettle
<1>1. AppInit => ConsoleOK /\ DumpOK
  <2> SUFFICES ASSUME AppInit PROVE ConsoleOK /\ DumpOK
    OBVIOUS
  <2>1. evs = <<>> /\ consoleRunning = FALSE /\ dumpRunning = FALSE
    BY DEF AppInit, Init
  <2>2. Len(evs) + 1 = 1
    BY <2>1
  <2>3. Clear(evs, SqlKinds, Sqls, FALSE) /\ Clear(evs, DumpKinds, Dumps, FALSE)
    BY <2>2, FlagStart DEF Clear
  <2> QED
    BY <2>1, <2>3 DEF ConsoleOK, DumpOK
<1>2. ConsoleOK /\ DumpOK => FlagsSettle
  <2> SUFFICES ASSUME ConsoleOK, DumpOK, Settled, Orderly PROVE ~consoleRunning /\ ~dumpRunning
    BY DEF FlagsSettle
  <2>1. /\ Len(evs) + 1 = 1 /\ 1..Len(evs) = {} /\ 1..Len(cmds) = {}
        /\ \A j \in Jobs : job[j].pc = "none"
    BY DEF Settled, NoJobs, Alive
  <2>2. Fine
    BY <2>1 DEF Fine, InOrder
  <2>3. ~Has(cmds, {"dump"}) /\ \A j \in Jobs : ~SqlRuns(j) /\ ~DumpRuns(j)
    BY <2>1 DEF Has, SqlRuns, DumpRuns
  <2>4. /\ Flag(evs, SqlKinds, Sqls, consoleRunning, 1, FALSE)
        /\ Flag(evs, DumpKinds, Dumps, dumpRunning, 1, FALSE)
    BY <2>1, <2>2, <2>3 DEF ConsoleOK, DumpOK, Clear
  <2>5. consoleRunning = FALSE /\ dumpRunning = FALSE
    BY <2>4, FlagStart
  <2> QED
    BY <2>5
<1> QED
  BY <1>1, <1>2, FlagsNext, TurnsInvariance, ScreenInvariance, NumberedInvariance, AheadInvariance,
     AppInvariance, PTL DEF AppSpec

-----------------------------------------------------------------------------
(* One dump at a time.  While the session of the screen is in force, at most *)
(* one dump of it is asked for or under way, and then its flag is up: the    *)
(* flag is lowered by the last thing the dump says.                        *)

DumpSays == {"dump_progress", "dump_end"}
Unsaid(i) == \A m \in i..Len(evs) : evs[m].kind \notin DumpSays
Single(c) == \A i, k \in 1..Len(c) : c[i].op = "dump" /\ c[k].op = "dump" => i = k
NoDump == ~Has(cmds, {"dump"}) /\ \A j \in Jobs : ~DumpRuns(j)
Lone == /\ Single(cmds)
        /\ \A j, k \in Jobs : DumpRuns(j) /\ DumpRuns(k) => j = k
        /\ Has(cmds, {"dump"}) => \A j \in Jobs : ~DumpRuns(j)
Dumped ==
  /\ shown = 0 => Unsaid(1)
  /\ session # 0 => /\ \A i \in 1..Len(evs) : evs[i].kind = "dump_end" => Unsaid(i + 1) /\ NoDump
                    /\ Lone
                    /\ ~NoDump => shown # 0 /\ dumpRunning = TRUE
                    /\ dumpRunning = FALSE => Unsaid(1)
DumpedOK == Fine => Dumped

\* While the loop dials, no task belongs to the session to come.
Newest == at = "connecting" => \A j \in Jobs : Alive(j) => job[j].epoch < epoch

LEMMA SingleMoves ==
  ASSUME NEW c \in Seq(Command), Single(c)
  PROVE  /\ c # <<>> => Single(Tail(c)) /\ (Head(c).op = "dump" => ~Has(Tail(c), {"dump"}))
         /\ \A x \in Command : x.op # "dump" \/ ~Has(c, {"dump"}) => Single(Append(c, x))
         /\ \A d : Plainly(c, d) => Single(d)
<1>1. ASSUME c # <<>>
      PROVE  Single(Tail(c)) /\ (Head(c).op = "dump" => ~Has(Tail(c), {"dump"}))
  <2> DEFINE d == Tail(c)
  <2>1. /\ Head(c) = c[1] /\ 1 \in 1..Len(c)
        /\ \A i \in 1..Len(d) : d[i] = c[i + 1] /\ i + 1 \in 1..Len(c) /\ i + 1 # 1 /\ i \in Int
    BY <1>1
  <2> HIDE DEF d
  <2>2. ASSUME NEW i \in 1..Len(d), NEW k \in 1..Len(d), d[i].op = "dump", d[k].op = "dump"
        PROVE  i = k
    <3>1. i + 1 = k + 1
      BY <2>1, <2>2 DEF Single
    <3> QED
      BY <2>1, <3>1
  <2>3. ASSUME Head(c).op = "dump", NEW i \in 1..Len(d), d[i].op = "dump" PROVE FALSE
    BY <2>1, <2>3 DEF Single
  <2> QED
    BY <2>2, <2>3 DEF Single, Has, d
<1>2. ASSUME NEW x \in Command, x.op # "dump" \/ ~Has(c, {"dump"}) PROVE Single(Append(c, x))
  <2> DEFINE d == Append(c, x)
  <2>1. /\ Len(c) \in Nat /\ Len(d) = Len(c) + 1 /\ d[Len(c) + 1] = x
        /\ \A i \in 1..Len(c) : d[i] = c[i]
        /\ \A i \in 1..Len(d) : i \in 1..Len(c) \/ i = Len(c) + 1
    OBVIOUS
  <2> HIDE DEF d
  <2>2. ASSUME NEW i \in 1..Len(d), NEW k \in 1..Len(d), d[i].op = "dump", d[k].op = "dump"
        PROVE  i = k
    BY <1>2, <2>1, <2>2 DEF Single, Has
  <2> QED
    BY <2>2 DEF Single, d
<1>3. ASSUME NEW d, Plainly(c, d) PROVE Single(d)
  <2>1. \A i \in 1..Len(d) : d[i].op = "dump" => i \in 1..Len(c) /\ d[i] = c[i]
    BY <1>3 DEF Plainly, TurnOps, Hold
  <2> QED
    BY <2>1 DEF Single
<1> QED
  BY <1>1, <1>2, <1>3

\* A dump that is under way was before, or has just been taken from the queue.
LEMMA DumpComesFrom ==
  ASSUME IInv, IInv', session # 0, NEW k \in Jobs, DumpRuns(k)', UNCHANGED session,
         \/ Murmuring
         \/ Spawning
         \/ \E j \in Jobs : JobRuns(j) /\ (~Emit(j) \/ j # k)
  PROVE  \/ DumpRuns(k)
         \/ /\ cmds # <<>> /\ cmds' = Tail(cmds) /\ Head(cmds).op = "dump"
            /\ \A j \in Jobs \ {k} : job'[j] = job[j]
<1>j. job \in [Jobs -> Job] /\ Sound(job[k]) /\ session = epoch
  BY DEF IInv, TypeOK, Shape, SessionIsCurrent
<1>1. CASE Murmuring
  <2>1. job'[k] \in {job[k], [job[k] EXCEPT !.told = TRUE]}
    BY <1>1, MurmuringSays
  <2> QED
    BY <1>j, <2>1 DEF DumpRuns, Job
<1>2. CASE Spawning
  <2>1. PICK j \in Jobs : \E aim : job' = [job EXCEPT ![j] = Fresh(Head(cmds).op, aim)]
    BY <1>2, SpawningSays
  <2>2. cmds # <<>> /\ cmds' = Tail(cmds)
    BY <1>2, SpawningSays
  <2>3. CASE j = k
    <3>1. job'[k].op = Head(cmds).op
      BY <1>j, <2>1, <2>3 DEF Fresh
    <3> QED
      BY <1>j, <2>1, <2>2, <2>3, <3>1 DEF DumpRuns
  <2>4. CASE j # k
    BY <1>j, <2>1, <2>4 DEF DumpRuns
  <2> QED
    BY <2>3, <2>4
<1>3. ASSUME NEW j \in Jobs, JobRuns(j), ~Emit(j) \/ j # k PROVE DumpRuns(k)
  <2>1. CASE j # k
    <3>1. SameTask(k) /\ job'[k].pc = job[k].pc
      BY <1>3, <2>1, OthersStay
    <3> QED
      BY <3>1 DEF DumpRuns, SameTask
  <2>2. CASE j = k /\ CheckEpoch(j)
    <3>1. SameTask(k) /\ (job[k].epoch = epoch => job'[k].pc = job[k].pc)
      BY <1>3, <2>2, SpeaksOn DEF DumpRuns, Idle
    <3> QED
      BY <1>j, <3>1 DEF DumpRuns, SameTask
  <2>3. CASE j = k /\ ~CheckEpoch(j)
    <3>1. SameTask(k) /\ <<job[k].pc, job'[k].pc>> \in Moves
      BY <1>3, <2>3, WorksOn DEF DumpRuns, Idle
    <3> QED
      BY <1>j, <3>1 DEF DumpRuns, SameTask, Moves, Sound
  <2> QED
    BY <2>1, <2>2, <2>3
<1> QED
  BY <1>1, <1>2, <1>3

LEMMA NewestNext == ASSUME AppInv, Newest, [AppNext]_appVars PROVE Newest'
<1>i. /\ epoch \in Nat /\ \A j \in Jobs : job[j].epoch \in Nat /\ job[j].epoch <= epoch
      /\ at = "connecting" => session = 0
      /\ IInv
  BY JobFacts DEF AppInv, IInv, TypeOK, SessionIsCurrent, Job
<1>1. CASE UNCHANGED <<at, epoch, job>>
  BY <1>1 DEF Newest, Alive
<1>2. CASE Connect
  BY <1>2, <1>i DEF Connect, Newest, Alive
<1>3. CASE ConnectOk \/ ConnectFail \/ Disconnect
  BY <1>3 DEF ConnectOk, ConnectFail, Disconnect, Receive, Newest
<1>4. CASE Murmuring
  <2>1. /\ UNCHANGED epoch /\ (at' = "connecting" => at = "connecting")
        /\ \A k \in Jobs : job'[k] \in {job[k], [job[k] EXCEPT !.told = TRUE]}
    BY <1>4, <1>i, MurmuringSays, QuietTakes
  <2>2. job \in [Jobs -> Job]
    BY <1>i DEF IInv, TypeOK
  <2> QED
    BY <2>1, <2>2 DEF Newest, Alive, Job
<1>5. CASE Spawning
  BY <1>5, <1>i, SpawningSays, QuietTakes DEF Newest
<1>6. ASSUME NEW j \in Jobs, JobRuns(j) PROVE Newest'
  <2>1. UNCHANGED epoch /\ (at' = "connecting" => at = "connecting")
    BY <1>6, <1>i, JobSays, QuietTakes
  <2>2. job[j].pc # "none"
    BY <1>6 DEF JobRuns, JobStep, CheckEpoch, Emit, Acquire, AcquireFail, Register, WorkEnds,
       Unregister, Return, KillQuery, DumpBatch, DumpEnds, Release, Lower, Speaks
  <2>3. job'[j] = Idle \/ SameTask(j)
    BY <1>6, <1>i, WorksOn, SpeaksOn
  <2>4. \A k \in Jobs : Alive(k)' => Alive(k) /\ job'[k].epoch = job[k].epoch
    BY <1>6, <1>i, <2>2, <2>3, OthersStay DEF Alive, SameTask, Idle
  <2> QED
    BY <2>1, <2>4 DEF Newest
<1>7. CASE UserStep \/ SyncViews \/ UNCHANGED appVars
  BY <1>1, <1>7, UserLeaves DEF appVars, vars, loopVars
<1>8. CASE Pump
  BY <1>1, <1>8 DEF Pump, OnConnecting, OnConnected, OnDisconnected, OnBusy, OnSqlBusy, OnDump,
     OnApplied, OnOther, Take, loopVars
<1> QED
  BY <1>2, <1>3, <1>4, <1>5, <1>6, <1>7, <1>8, CollectorCases DEF AppNext, Paced

LEMMA NewestInvariance == AppSpec => []Newest
<1>1. AppInit => Newest
  BY DEF AppInit, Init, Newest
<1> QED
  BY <1>1, NewestNext, AppInvariance, PTL DEF AppSpec

\* A queue that grows without a word about dumps.
LEMMA GrowsMute ==
  ASSUME evs \in Seq(Event), evs' \in Seq(Event), Len(evs) <= Len(evs'),
         \A i \in 1..Len(evs) : evs'[i] = evs[i],
         \A i \in Len(evs)+1 .. Len(evs') : evs'[i].kind \notin DumpSays
  PROVE  /\ \A i \in Nat \ {0} : Unsaid(i) => Unsaid(i)'
         /\ \A i \in 1..Len(evs') : evs'[i].kind = "dump_end" => i \in 1..Len(evs)
<1>1. \A m \in 1..Len(evs') : evs'[m].kind \in DumpSays => m \in 1..Len(evs)
  OBVIOUS
<1>2. ASSUME NEW i \in Nat \ {0}, Unsaid(i), NEW m \in i..Len(evs'), evs'[m].kind \in DumpSays
      PROVE  FALSE
  <2>1. m \in 1..Len(evs') /\ m \in Int /\ i <= m
    BY <1>2
  <2>2. m \in i..Len(evs) /\ evs'[m] = evs[m]
    BY <1>1, <1>2, <2>1
  <2> QED
    BY <1>2, <2>2 DEF Unsaid
<1> QED
  BY <1>1, <1>2 DEF Unsaid, DumpSays

LEMMA DumpedMute ==
  ASSUME evs \in Seq(Event), evs' \in Seq(Event), Len(evs) <= Len(evs'),
         \A i \in 1..Len(evs) : evs'[i] = evs[i],
         \A i \in Len(evs)+1 .. Len(evs') : evs'[i].kind \notin DumpSays,
         Dumped, UNCHANGED <<shown, dumpRunning>>,
         session' = 0 \/ (UNCHANGED session /\ (NoDump => NoDump') /\ Lone')
  PROVE  Dumped'
<1>1. /\ \A i \in Nat \ {0} : Unsaid(i) => Unsaid(i)'
      /\ \A i \in 1..Len(evs') : evs'[i].kind = "dump_end" => i \in 1..Len(evs)
  BY GrowsMute
<1>2. Unsaid(1) => Unsaid(1)'
  BY <1>1
<1>3. CASE session' = 0
  BY <1>2, <1>3 DEF Dumped
<1>4. CASE session' # 0
  <2>1. session # 0 /\ UNCHANGED session /\ (NoDump => NoDump') /\ Lone'
    BY <1>4
  <2>2. ASSUME NEW i \in 1..Len(evs'), evs'[i].kind = "dump_end"
        PROVE  Unsaid(i + 1)' /\ NoDump'
    <3>1. i \in 1..Len(evs) /\ i + 1 \in Nat \ {0}
      BY <1>1, <2>2
    <3>2. Unsaid(i + 1) /\ NoDump
      BY <2>1, <2>2, <3>1 DEF Dumped
    <3> QED
      BY <1>1, <2>1, <3>1, <3>2
  <2> QED
    BY <1>2, <2>1, <2>2 DEF Dumped
<1> QED
  BY <1>3, <1>4

LEMMA DumpedUser ==
  ASSUME AppInv, ScreenOK, Numbered, Dumped, UserStep \/ SyncViews PROVE Dumped'
<1>1. /\ UNCHANGED <<evs, session, job, shown>> /\ cmds \in Seq(Command)
      /\ shown = 0 <=> state # "connected"
  BY UserLeaves DEF loopVars, AppInv, IInv, TypeOK, ScreenOK, Numbered
<1>2. (\A i : Unsaid(i)' <=> Unsaid(i)) /\ \A j \in Jobs : DumpRuns(j)' <=> DumpRuns(j)
  BY <1>1 DEF Unsaid, DumpRuns
<1>3. CASE UNCHANGED <<cmds, dumpRunning>>
  BY <1>1, <1>2, <1>3 DEF Dumped, NoDump, Lone
<1>4. ASSUME NEW x \in Command, cmds' = Append(cmds, x), x.op \in Hold => state = "connected",
             IF x.op = "dump" THEN ~dumpRunning /\ dumpRunning' = TRUE ELSE UNCHANGED dumpRunning
      PROVE  Dumped'
  <2>1. Has(cmds', {"dump"}) <=> Has(cmds, {"dump"}) \/ x.op = "dump"
    BY <1>1, <1>4, TurnsAppend
  <2>2. CASE x.op # "dump"
    <3>1. Single(cmds) => Single(cmds')
      BY <1>1, <1>4, <2>2, SingleMoves
    <3> QED
      BY <1>1, <1>2, <1>4, <2>1, <2>2, <3>1 DEF Dumped, NoDump, Lone
  <2>3. CASE x.op = "dump" /\ session = 0
    BY <1>1, <1>2, <2>3 DEF Dumped
  <2>4. CASE x.op = "dump" /\ session # 0
    <3>1. dumpRunning = FALSE
      BY <1>4, <2>4 DEF ScreenOK
    <3>2. NoDump /\ Unsaid(1) /\ Lone
      BY <2>4, <3>1 DEF Dumped
    <3>3. shown # 0 /\ dumpRunning' = TRUE
      BY <1>1, <1>4, <2>4 DEF Hold
    <3>4. Lone'
      <4>1. Single(cmds')
        BY <1>1, <1>4, <3>2, SingleMoves DEF NoDump, Lone
      <4> QED
        BY <1>2, <3>2, <4>1 DEF NoDump, Lone
    <3>5. \A i \in 1..Len(evs') : evs'[i].kind # "dump_end"
      BY <1>1, <3>2 DEF Unsaid, DumpSays
    <3> QED
      BY <1>1, <3>3, <3>4, <3>5 DEF Dumped
  <2> QED
    BY <2>2, <2>3, <2>4
<1> QED
  BY <1>3, <1>4, UserAsks

LEMMA DumpedPump ==
  ASSUME AppInv, ScreenOK, Numbered, Ahead(evs, shown, session), Turned, Dumped, Pump, Fine'
  PROVE  Dumped'
<1>1. /\ evs \in Seq(Event) /\ evs # <<>> /\ evs' = Tail(evs) /\ UNCHANGED <<session, job>>
      /\ cmds \in Seq(Command) /\ evs \in Seq(Worded)
  BY DEF Pump, OnConnecting, OnConnected, OnDisconnected, OnBusy, OnSqlBusy, OnDump,
     OnApplied, OnOther, Take, loopVars, AppInv, IInv, TypeOK, Numbered
<1>2. /\ Len(evs) \in Nat \ {0} /\ Len(evs') = Len(evs) - 1 /\ Head(evs) = evs[1]
      /\ evs' \in Seq(Event) /\ 1 \in 1..Len(evs)
      /\ \A i \in 1..Len(evs') : evs'[i] = evs[i + 1] /\ i + 1 \in 1..Len(evs)
  BY <1>1
<1>h. Head(evs) \in Event /\ Head(evs) \in Worded
  BY <1>1
<1>3. (NoDump' <=> NoDump) /\ (Lone => Lone')
  <2>1. Plainly(cmds, cmds') /\ {"dump"} \in SUBSET TurnOps
    BY PumpAsks DEF TurnOps, Hold
  <2>2. Has(cmds', {"dump"}) <=> Has(cmds, {"dump"})
    BY <1>1, <2>1, PlainTurns
  <2>3. Single(cmds) => Single(cmds')
    BY <1>1, <2>1, SingleMoves
  <2> QED
    BY <1>1, <2>2, <2>3 DEF NoDump, Lone, DumpRuns
<1>4. /\ shown' = IF Head(evs).kind \in TurnKinds THEN ScreenOf[Head(evs)] ELSE shown
      /\ ScreenOf[Head(evs)] = IF Head(evs).kind = "connected" THEN Head(evs).epoch ELSE 0
      /\ dumpRunning' = IF Head(evs).kind \in DumpKinds THEN Dumps[Head(evs)] ELSE dumpRunning
      /\ Dumps[Head(evs)] = (Head(evs).kind = "dump_progress")
  BY <1>h, ScreenPumped, DumpPumped DEF ScreenOf, Dumps
<1>5. \A i \in Nat \ {0} : Unsaid(i + 1) => Unsaid(i)'
  <2> SUFFICES ASSUME NEW i \in Nat \ {0}, Unsaid(i + 1), NEW m \in i..Len(evs')
               PROVE  evs'[m].kind \notin DumpSays
    BY DEF Unsaid
  <2>1. m \in 1..Len(evs') /\ m + 1 \in (i + 1)..Len(evs)
    BY <1>2
  <2> QED
    BY <1>2, <2>1 DEF Unsaid
<1>6. Unsaid(1) => Unsaid(1)'
  <2>1. Unsaid(1) => Unsaid(1 + 1)
    BY <1>2 DEF Unsaid
  <2> QED
    BY <1>5, <2>1
<1>7. session # 0 => \A i \in 1..Len(evs') : evs'[i].kind = "dump_end" => Unsaid(i + 1)' /\ NoDump'
  <2> SUFFICES ASSUME session # 0, NEW i \in 1..Len(evs'), evs'[i].kind = "dump_end"
               PROVE  Unsaid(i + 1)' /\ NoDump'
    OBVIOUS
  <2>1. i + 1 \in 1..Len(evs) /\ evs[i + 1].kind = "dump_end" /\ i + 1 \in Nat \ {0}
    BY <1>2
  <2>2. Unsaid((i + 1) + 1) /\ NoDump
    BY <2>1 DEF Dumped
  <2> QED
    BY <1>3, <1>5, <2>1, <2>2
<1>8. Head(evs).kind \in DumpSays => shown # 0
  BY <1>2 DEF Dumped, Unsaid
\* The screen is empty when a session comes or goes ahead of its dumps.
<1>9. CASE Head(evs).kind \in TurnKinds /\ shown = 0
  <2>1. Unsaid(1)'
    BY <1>6, <1>9 DEF Dumped
  <2>2. session # 0 => NoDump' /\ Lone'
    BY <1>3, <1>9 DEF Dumped
  <2> QED
    BY <1>1, <1>7, <2>1, <2>2 DEF Dumped
<1>10. CASE Head(evs).kind \in TurnKinds /\ shown # 0
  <2>1. Head(evs).kind = "disconnected" /\ shown' = 0
    <3>1. Head(evs).kind # "connected"
      BY <1>2, <1>10 DEF Turned, Says
    <3>2. Head(evs).kind # "connecting"
      BY <1>10, FinePump
    <3> QED
      BY <1>4, <1>10, <3>1, <3>2 DEF TurnKinds
  <2>2. \A i \in 1..Len(evs') : evs'[i].kind # "connected"
    BY <1>2, <1>10 DEF Turned, Says
  <2>3. On(evs', 0, Len(evs') + 1, session)
    <3>1. Ahead(evs', shown', session)
      BY <1>1, <1>4, AheadTail
    <3> QED
      BY <2>1, <3>1 DEF Ahead
  <2>4. session = 0
    BY <1>2, <2>2, <2>3, NeverOn
  <2>5. ASSUME NEW m \in 1..Len(evs'), evs'[m].kind \in DumpSays PROVE FALSE
    <3>1. evs'[m] \in Worded /\ evs'[m].kind \in JobKinds
      BY <1>1, <1>2, <2>5 DEF DumpSays, JobKinds
    <3>2. evs'[m].job # NoJob /\ evs'[m].epoch # 0
      BY <3>1 DEF Worded
    <3>3. On(evs', 0, m, evs'[m].epoch)
      BY <2>1, <3>2 DEF Fine, InOrder
    <3>4. m \in 1..Len(evs')+1
      BY <1>2
    <3> QED
      BY <1>2, <2>2, <3>2, <3>3, <3>4, NeverOn
  <2>6. Unsaid(1)'
    BY <2>5 DEF Unsaid
  <2> QED
    BY <1>1, <2>4, <2>6 DEF Dumped
<1>11. CASE Head(evs).kind = "dump_progress"
  <2>1. UNCHANGED shown /\ dumpRunning' = TRUE
    BY <1>4, <1>11 DEF TurnKinds, DumpKinds
  <2> QED
    BY <1>1, <1>3, <1>7, <1>8, <1>11, <2>1 DEF Dumped, DumpSays
<1>12. CASE Head(evs).kind = "dump_end"
  <2>1. UNCHANGED shown
    BY <1>4, <1>12 DEF TurnKinds
  <2>2. session # 0 => Unsaid(1)' /\ NoDump' /\ Lone'
    BY <1>2, <1>3, <1>5, <1>12 DEF Dumped
  <2> QED
    BY <1>1, <1>7, <1>8, <1>12, <2>1, <2>2 DEF Dumped, DumpSays
<1>13. CASE Head(evs).kind \notin TurnKinds \cup DumpSays
  <2>1. UNCHANGED <<shown, dumpRunning>>
    BY <1>4, <1>13 DEF TurnKinds, DumpKinds, DumpSays
  <2> QED
    BY <1>1, <1>3, <1>6, <1>7, <2>1 DEF Dumped
<1> QED
  BY <1>9, <1>10, <1>11, <1>12, <1>13 DEF DumpSays

\* What the tasks and the loop do between two words about dumps.
LEMMA DumpedQuiet ==
  ASSUME IInv, IInv', session # 0, UNCHANGED session, Lone,
         \/ Murmuring
         \/ Spawning
         \/ \E j \in Jobs : JobRuns(j) /\ ~Emit(j)
  PROVE  (NoDump => NoDump') /\ Lone'
<1>1. /\ cmds \in Seq(Command)
      /\ UNCHANGED cmds \/ (cmds # <<>> /\ cmds' = Tail(cmds))
  BY QuietTakes DEF IInv, TypeOK
<1>2. ASSUME NEW k \in Jobs, DumpRuns(k)'
      PROVE  \/ DumpRuns(k)
             \/ /\ cmds # <<>> /\ cmds' = Tail(cmds) /\ Head(cmds).op = "dump"
                /\ \A j \in Jobs \ {k} : job'[j] = job[j]
  BY <1>2, DumpComesFrom
<1>3. Has(cmds', {"dump"}) => Has(cmds, {"dump"})
  BY <1>1, TurnsTail
<1>4. cmds # <<>> /\ Head(cmds).op = "dump" => Has(cmds, {"dump"}) /\ ~Has(Tail(cmds), {"dump"})
  BY <1>1, TurnsTail, SingleMoves DEF Lone
<1>5. Single(cmds')
  BY <1>1, SingleMoves DEF Lone
<1>6. ASSUME NEW j \in Jobs, NEW k \in Jobs, DumpRuns(j)', DumpRuns(k)', j # k PROVE FALSE
  <2>1. \A m \in Jobs : job'[m] = job[m] => (DumpRuns(m)' <=> DumpRuns(m))
    BY DEF DumpRuns
  <2>2. CASE DumpRuns(j) /\ DumpRuns(k)
    BY <1>6, <2>2 DEF Lone
  <2>3. CASE ~DumpRuns(j)
    <3>1. Has(cmds, {"dump"}) /\ job'[k] = job[k]
      BY <1>2, <1>4, <1>6, <2>3
    <3> QED
      BY <1>6, <2>1, <3>1 DEF Lone
  <2>4. CASE ~DumpRuns(k)
    <3>1. Has(cmds, {"dump"}) /\ job'[j] = job[j]
      BY <1>2, <1>4, <1>6, <2>4
    <3> QED
      BY <1>6, <2>1, <3>1 DEF Lone
  <2> QED
    BY <2>2, <2>3, <2>4
<1>7. ASSUME NEW k \in Jobs, DumpRuns(k)', Has(cmds', {"dump"}) PROVE FALSE
  BY <1>2, <1>3, <1>4, <1>7 DEF Lone
<1>8. NoDump => NoDump'
  BY <1>2, <1>3, <1>4 DEF NoDump
<1> QED
  BY <1>5, <1>6, <1>7, <1>8 DEF Lone

LEMMA DumpedSpoken ==
  ASSUME IInv, IInv', Numbered, Dumped, NEW j \in Jobs, Emit(j), job[j].epoch = session,
         UNCHANGED guiVars
  PROVE  Dumped'
<1>i. /\ evs \in Seq(Event) /\ Sound(job[j]) /\ JobRuns(j)
      /\ job[j].pc \in Speaks /\ UNCHANGED <<session, cmds, shown, dumpRunning>>
      /\ session # 0 /\ cmds \in Seq(Command)
  BY DEF IInv, TypeOK, Shape, Emit, loopVars, guiVars, JobRuns, Numbered, Alive, Speaks
<1> DEFINE x == Ev(Words(j), job[j].epoch, j)
<1>1. evs' = Append(evs, x)
  BY DEF Emit
<1>2. x \in Event /\ x.kind = Words(j)
  BY TaskEvent
<1> HIDE DEF x
<1>3. /\ evs' \in Seq(Event) /\ Len(evs) \in Nat /\ Len(evs') = Len(evs) + 1
      /\ evs'[Len(evs) + 1] = x /\ \A i \in 1..Len(evs) : evs'[i] = evs[i]
  BY <1>1, <1>2, <1>i, AppendedEvent
<1>4. Spoken(j) # "none" => SameTask(j) /\ job'[j].pc = Spoken(j)
  BY SpeaksOn DEF Emit, CheckEpoch
<1>5. Spoken(j) = "none" => job'[j] = Idle
  BY SpeaksOn DEF Emit, CheckEpoch
\* Speaking starts no dump, and the report ends one.
<1>6. DumpRuns(j)' => DumpRuns(j) /\ job[j].pc = "progress"
  <2>1. CASE job[j].op = "dump"
    <3>1. job[j].pc \in {"progress", "report"}
      BY <1>i, <2>1 DEF Sound, Speaks
    <3>2. Spoken(j) = IF job[j].pc = "progress" THEN "work" ELSE "release"
      BY <2>1, <3>1 DEF Spoken, BusyOps
    <3> QED
      BY <1>4, <1>i, <2>1, <3>1, <3>2 DEF DumpRuns
  <2>2. CASE job[j].op # "dump"
    BY <1>4, <1>5, <2>2 DEF DumpRuns, SameTask, Idle
  <2> QED
    BY <2>1, <2>2
<1>7. \A k \in Jobs : DumpRuns(k)' => DumpRuns(k)
  <2>1. ASSUME NEW k \in Jobs, k # j, DumpRuns(k)' PROVE DumpRuns(k)
    <3>1. SameTask(k) /\ job'[k].pc = job[k].pc
      BY <1>i, <2>1, OthersStay
    <3> QED
      BY <1>i, <2>1, <3>1 DEF DumpRuns, SameTask
  <2> QED
    BY <1>6, <2>1
<1>8. (NoDump => NoDump') /\ Lone /\ Lone'
  BY <1>7, <1>i DEF NoDump, Lone, Dumped
<1>9. CASE x.kind \notin DumpSays
  <2>1. \A i \in Len(evs)+1 .. Len(evs') : evs'[i].kind \notin DumpSays
    BY <1>3, <1>9
  <2>2. Len(evs) <= Len(evs')
    BY <1>3
  <2> QED
    BY <1>3, <1>8, <1>i, <2>1, <2>2, DumpedMute
<1>10. CASE x.kind \in DumpSays
  <2>1. DumpRuns(j) /\ job[j].pc = IF x.kind = "dump_end" THEN "report" ELSE "progress"
    <3>1. job[j].pc \in {"announce", "progress", "quiet", "report"}
      BY <1>i DEF Speaks
    <3>2. CASE job[j].pc = "progress"
      <4>1. x.kind = "dump_progress" /\ job[j].op = "dump"
        BY <1>2, <1>i, <3>2 DEF Words, Sound
      <4> QED
        BY <1>i, <3>2, <4>1 DEF DumpRuns
    <3>3. CASE job[j].pc = "report"
      <4>1. x.kind = Report(j)
        BY <1>2, <3>3 DEF Words
      <4>2. x.kind = "dump_end" /\ job[j].op = "dump"
        BY <1>10, <4>1 DEF Report, DumpSays
      <4> QED
        BY <3>3, <4>2 DEF DumpRuns
    <3>4. CASE job[j].pc \in {"announce", "quiet"}
      BY <1>2, <1>10, <3>4 DEF Words, DumpSays
    <3> QED
      BY <3>1, <3>2, <3>3, <3>4
  <2>2. /\ shown # 0 /\ dumpRunning = TRUE /\ ~Has(cmds, {"dump"})
        /\ \A i \in 1..Len(evs) : evs[i].kind # "dump_end"
    BY <1>i, <2>1 DEF Dumped, NoDump, Lone
  <2>3. ASSUME NEW i \in 1..Len(evs'), evs'[i].kind = "dump_end"
        PROVE  Unsaid(i + 1)' /\ NoDump'
    <3>1. i = Len(evs) + 1 /\ x.kind = "dump_end"
      BY <1>3, <2>2, <2>3
    <3>2. Unsaid(i + 1)'
      BY <1>3, <3>1 DEF Unsaid
    <3>3. ASSUME NEW k \in Jobs, DumpRuns(k)' PROVE FALSE
      <4>1. k = j
        BY <1>7, <1>8, <2>1, <3>3 DEF Lone
      <4> QED
        BY <1>6, <2>1, <3>1, <3>3, <4>1
    <3> QED
      BY <1>i, <2>2, <3>2, <3>3 DEF NoDump
  <2> QED
    BY <1>8, <1>i, <2>2, <2>3 DEF Dumped
<1> QED
  BY <1>9, <1>10

LEMMA DumpedCollector ==
  ASSUME IInv, IInv', Numbered, Newest, Ahead(evs, shown, session), Turned, Dumped, CollectorStep,
         UNCHANGED guiVars, Fine'
  PROVE  Dumped'
<1>i. /\ evs \in Seq(Event) /\ evs' \in Seq(Event) /\ cmds \in Seq(Command)
      /\ epoch \in Nat /\ epoch' \in Nat /\ UNCHANGED <<shown, dumpRunning>> /\ Len(evs) \in Nat
  BY DEF IInv, TypeOK, guiVars
<1>1. ASSUME NEW x \in Event, evs' = Append(evs, x), x.kind \notin DumpSays,
             session' = 0 \/ (UNCHANGED session /\ (NoDump => NoDump') /\ Lone')
      PROVE  Dumped'
  <2>1. /\ Len(evs') = Len(evs) + 1 /\ evs'[Len(evs) + 1] = x
        /\ \A i \in 1..Len(evs) : evs'[i] = evs[i]
    BY <1>1, <1>i, AppendedEvent
  <2>2. Len(evs) <= Len(evs') /\ \A i \in Len(evs)+1 .. Len(evs') : evs'[i].kind \notin DumpSays
    BY <1>1, <1>i, <2>1
  <2> QED
    BY <1>1, <1>i, <2>1, <2>2, DumpedMute
<1>2. ASSUME NEW k \in TurnKinds
      PROVE  LET x == Ev(k, epoch', NoJob) IN x \in Event /\ x.kind \notin DumpSays
  <2>1. Ev(k, epoch', NoJob) \in Event /\ Ev(k, epoch', NoJob).kind = k
    BY <1>i, TurnEvent
  <2> QED
    BY <2>1 DEF TurnKinds, DumpSays
<1>3. CASE Connect
  BY <1>1, <1>2, <1>3, TurningSays DEF TurnKinds
<1>4. CASE Disconnect
  BY <1>1, <1>2, <1>4, TurningSays DEF TurnKinds
<1>5. CASE ConnectOk
  <2> DEFINE x == Ev("connected", epoch, NoJob)
  <2>1. /\ session = 0 /\ session' = epoch /\ at = "connecting" /\ UNCHANGED <<cmds, job, epoch>>
        /\ evs' = Append(evs, x)
    BY <1>5, TurningSays DEF ConnectOk, Tell
  <2>x. x \in Event /\ x.kind \notin DumpSays
    BY <1>2, <2>1 DEF TurnKinds
  <2> HIDE DEF x
  <2>2. shown = 0 /\ ~Has(cmds, Hold) /\ Unsaid(1)
    BY <2>1 DEF Turned, Dumped
  <2>3. ~Has(cmds', {"dump"})
    BY <2>1, <2>2 DEF Has, Hold
  <2>4. \A j \in Jobs : ~DumpRuns(j)'
    BY <1>i, <2>1 DEF Newest, DumpRuns, Alive
  <2>5. NoDump' /\ Lone'
    <3>1. Single(cmds')
      BY <2>3 DEF Single, Has
    <3> QED
      BY <2>3, <2>4, <3>1 DEF NoDump, Lone
  <2>6. Unsaid(1)'
    <3>1. /\ Len(evs') = Len(evs) + 1 /\ evs'[Len(evs) + 1] = x
          /\ \A i \in 1..Len(evs) : evs'[i] = evs[i]
      BY <1>i, <2>1, <2>x, AppendedEvent
    <3> QED
      BY <1>i, <2>2, <2>x, <3>1 DEF Unsaid
  <2>7. \A i \in 1..Len(evs') : evs'[i].kind # "dump_end"
    BY <2>6 DEF Unsaid, DumpSays
  <2> QED
    BY <2>5, <2>6, <2>7 DEF Dumped
<1>6. CASE ConnectFail
  <2> DEFINE x == Tell("error")
             y == Ev("disconnected", epoch, NoJob)
  <2>1. session' = 0 /\ evs' = Append(Append(evs, x), y)
    BY <1>6, TurningSays DEF Tell
  <2>2. x \in Event /\ y \in Event /\ x.kind = "error" /\ y.kind = "disconnected"
    BY <1>i, TurnEvent DEF Tell, Ev, Event, LoopKinds, LoopWords, TurnKinds
  <2> HIDE DEF x, y
  <2>3. /\ Len(evs') = Len(evs) + 2 /\ evs'[Len(evs) + 1] = x /\ evs'[Len(evs) + 2] = y
        /\ \A i \in 1..Len(evs) : evs'[i] = evs[i]
    BY <1>i, <2>1, <2>2
  <2>4. Len(evs) <= Len(evs') /\ \A i \in Len(evs)+1 .. Len(evs') : evs'[i].kind \notin DumpSays
    <3>1. \A i \in Len(evs)+1 .. Len(evs') : i = Len(evs) + 1 \/ i = Len(evs) + 2
      BY <1>i, <2>3
    <3> QED
      BY <1>i, <2>2, <2>3, <3>1 DEF DumpSays
  <2> QED
    BY <1>i, <2>1, <2>3, <2>4, DumpedMute
<1>7. CASE \E j \in Jobs : Emit(j)
  <2>1. PICK j \in Jobs : Emit(j) /\ job[j].epoch = session
    BY <1>7, FineCollector
  <2> QED
    BY <2>1, DumpedSpoken
<1>8. CASE /\ Quietly(evs, evs') /\ UNCHANGED <<epoch, session>>
           /\ Murmuring \/ Spawning \/ \E j \in Jobs : JobRuns(j) /\ ~Emit(j)
  <2>1. \A i \in Len(evs)+1 .. Len(evs') : evs'[i].kind \notin DumpSays
    BY <1>8 DEF Quietly, Loud, JobKinds, DumpSays
  <2>2. session # 0 => (NoDump => NoDump') /\ Lone'
    BY <1>8, DumpedQuiet DEF Dumped
  <2> QED
    BY <1>8, <1>i, <2>1, <2>2, DumpedMute DEF Quietly
<1> QED
  BY <1>3, <1>4, <1>5, <1>6, <1>7, <1>8, CollectorSays

LEMMA DumpedNext ==
  ASSUME AppInv, ScreenOK, Numbered, Newest, Ahead(evs, shown, session), TurnsOK, DumpedOK,
         [AppNext]_appVars
  PROVE  DumpedOK'
<1> SUFFICES ASSUME Fine' PROVE Dumped'
  BY DEF DumpedOK
<1>1. Turned /\ Dumped
  BY FineBack DEF TurnsOK, DumpedOK
<1>2. CASE UNCHANGED appVars
  BY <1>1, <1>2 DEF appVars, vars, guiVars, loopVars, Dumped, NoDump, Lone, Unsaid, DumpRuns
<1>3. CASE Paced
  BY <1>1, <1>3, CollectorKeeps, DumpedCollector DEF Paced, AppInv
<1> QED
  BY <1>1, <1>2, <1>3, DumpedUser, DumpedPump DEF AppNext

\* While a dump of the session on screen runs, its Cancel button is there: no
\* event of an earlier dump, or of another session, takes the flag down.
THEOREM DumpsAreShown == AppSpec => []DumpShown
<1>1. AppInit => DumpedOK
  <2> SUFFICES ASSUME AppInit PROVE Dumped
    BY DEF DumpedOK
  <2>1. evs = <<>> /\ session = 0
    BY DEF AppInit, Init
  <2>2. Unsaid(1)
    BY <2>1 DEF Unsaid
  <2> QED
    BY <2>1, <2>2 DEF Dumped
<1>2. Numbered /\ Ahead(evs, shown, session) /\ DumpedOK => DumpShown
  <2> SUFFICES ASSUME Numbered, Ahead(evs, shown, session), DumpedOK,
                      state = "connected", cmds = <<>>, evs = <<>>, Orderly,
                      NEW j \in Jobs, job[j].op = "dump", job[j].epoch = shown,
                      job[j].pc \in {"acquire", "work", "progress", "return"}
               PROVE  dumpRunning
    BY DEF DumpShown
  <2>1. Len(evs) + 1 = 1 /\ 1..Len(evs) = {}
    OBVIOUS
  <2>2. Dumped
    BY <2>1 DEF DumpedOK, Fine, InOrder
  <2>3. session = shown
    <3>1. On(evs, shown, 1, session)
      BY <2>1 DEF Ahead
    <3> QED
      BY <3>1, FlagStart DEF On
  <2>4. session # 0
    BY <2>3 DEF Numbered
  <2>5. DumpRuns(j)
    BY <2>3 DEF DumpRuns
  <2> QED
    BY <2>2, <2>4, <2>5 DEF Dumped, NoDump
<1> QED
  BY <1>1, <1>2, DumpedNext, TurnsInvariance, NewestInvariance, ScreenInvariance, NumberedInvariance,
     AheadInvariance, AppInvariance, PTL DEF AppSpec
=============================================================================
