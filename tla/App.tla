--------------------------------- MODULE App ---------------------------------
(***************************************************************************)
(* The GUI side of a session, src/app.rs, composed with the collector: what *)
(* the widgets let the user send, what pump() does with each event, and    *)
(* what the screen says meanwhile.  The GUI acts on what it has drained, so *)
(* every click may be behind what the collector has already done.          *)
(***************************************************************************)
EXTENDS Collector

CONSTANTS
  Menu,      \* the commands a click of this instance may send
  Views,     \* what the tabs of this instance need: sets of expensive tables
  MaxCmds,   \* bound: commands under way
  MaxEvs,    \* bound: events not yet drained, when the user or the clock acts
  MaxBacklog,\* bound: events not yet drained, ever
  MaxEpoch   \* bound: connects and disconnects

VARIABLES
  state,           \* App::state
  light,           \* App::busy
  consoleRunning,  \* App::console_running
  dumpRunning,     \* App::dump_running
  writeMode,       \* App::allow_writes
  pauseBox,        \* App::paused
  view,            \* what the visible tab needs, App::view_needs()
  sentViews,       \* App::sent_views, {} of a set: <<>> until the first frame
  shown,           \* history: the session on screen, 0 when none
  late,            \* history: an event of another session has been taken
  replaced         \* history: a session on screen has given way to a Connect

guiVars == <<state, light, consoleRunning, dumpRunning, writeMode, pauseBox,
             view, sentViews, shown, late, replaced>>
appVars == <<vars, guiVars>>

ASSUME ViewsAssumption == Views # {} /\ \A v \in Views : v \subseteq Heavy

AppInit ==
  /\ Init
  /\ state = "disconnected"
  /\ light = FALSE /\ consoleRunning = FALSE /\ dumpRunning = FALSE
  /\ writeMode = FALSE /\ pauseBox = FALSE
  /\ view \in Views /\ sentViews = <<>>
  /\ shown = 0 /\ late = FALSE /\ replaced = FALSE

-----------------------------------------------------------------------------
(* Clicks.  A click needs room under the bounds.                           *)

Room == Len(cmds) < MaxCmds /\ Len(evs) < MaxEvs
\* Connects and disconnects made or on their way.
Turns == epoch + Cardinality({i \in DOMAIN cmds : cmds[i].op \in {"connect", "disconnect"}})

Click(c) == c.op \in Menu /\ Room /\ Submit(c)

ClickConnect ==
  /\ state = "disconnected" /\ Turns < MaxEpoch
  /\ \E s \in Server : Click([op |-> "connect", server |-> s])
  /\ UNCHANGED guiVars

ClickDisconnect ==
  /\ state = "connected" /\ Turns < MaxEpoch
  /\ Click([op |-> "disconnect"])
  /\ UNCHANGED guiVars

\* can_run, for the button and for Ctrl+Enter.
ClickRun ==
  /\ state = "connected" /\ ~consoleRunning
  /\ \E w \in BOOLEAN : (w => writeMode) /\ Click([op |-> "sql", writes |-> w])
  /\ UNCHANGED guiVars

ClickCancelSql ==
  /\ consoleRunning
  /\ Click([op |-> "cancelsql"])
  /\ UNCHANGED guiVars

\* Mutant: the flag waits for the first progress event.
StartDumpUnmarked ==
  /\ state = "connected" /\ ~dumpRunning
  /\ Click([op |-> "dump"])
  /\ UNCHANGED guiVars

\* start_dump: the flag is raised before the collector has accepted the dump.
StartDump ==
  /\ state = "connected" /\ ~dumpRunning
  /\ Click([op |-> "dump"])
  /\ dumpRunning' = TRUE
  /\ UNCHANGED <<state, light, consoleRunning, writeMode, pauseBox, view,
                 sentViews, shown, late, replaced>>

CancelDumpClick ==
  /\ state = "connected" /\ dumpRunning
  /\ Click([op |-> "canceldump"])
  /\ UNCHANGED guiVars

\* Mutant: nothing is sent while there is no session; OnConnected will.
SetWriteModeLater ==
  /\ IF state = "connected" THEN Click([op |-> "write", on |-> ~writeMode])
     ELSE "write" \in Menu /\ UNCHANGED vars
  /\ writeMode' = ~writeMode
  /\ UNCHANGED <<state, light, consoleRunning, dumpRunning, pauseBox, view,
                 sentViews, shown, late, replaced>>

\* set_write_mode, reachable whether connected or not.
SetWriteModeClick ==
  /\ Click([op |-> "write", on |-> ~writeMode])
  /\ writeMode' = ~writeMode
  /\ UNCHANGED <<state, light, consoleRunning, dumpRunning, pauseBox, view,
                 sentViews, shown, late, replaced>>

\* pending_panel: Apply is enabled by allow_writes.
ClickApply ==
  /\ state = "connected" /\ writeMode
  /\ Click([op |-> "apply"])
  /\ UNCHANGED guiVars

\* set_paused, a checkbox that is only drawn while connected.
SetPausedClick ==
  /\ state = "connected"
  /\ Click([op |-> "pause", on |-> ~pauseBox])
  /\ pauseBox' = ~pauseBox
  /\ UNCHANGED <<state, light, consoleRunning, dumpRunning, writeMode, view,
                 sentViews, shown, late, replaced>>

\* The remaining buttons: metadata, advisor, browse, KILL, refresh, interval.
\* Panels keep their rows after a disconnect, so most stay clickable.
ClickOther ==
  /\ \E op \in QuietOps \cup {"advisor", "browse", "kill", "tune"} :
       /\ op \in {"tables", "describe", "count", "browse", "advisor"} => state = "connected"
       /\ op = "advisor" => ~light
       /\ Click([op |-> op])
  /\ UNCHANGED guiVars

SwitchTab ==
  /\ "views" \in Menu
  /\ view' \in Views \ {view}
  /\ UNCHANGED <<vars, state, light, consoleRunning, dumpRunning, writeMode,
                 pauseBox, sentViews, shown, late, replaced>>

\* sync_views, once per frame.
SyncViews ==
  /\ sentViews # <<view>>
  /\ Room
  /\ Submit([op |-> "views", needs |-> view])
  /\ sentViews' = <<view>>
  /\ UNCHANGED <<state, light, consoleRunning, dumpRunning, writeMode, pauseBox,
                 view, shown, late, replaced>>

UserStep ==
  \/ ClickConnect \/ ClickDisconnect \/ ClickRun \/ ClickCancelSql
  \/ StartDump \/ CancelDumpClick \/ SetWriteModeClick \/ ClickApply
  \/ SetPausedClick \/ ClickOther \/ SwitchTab

-----------------------------------------------------------------------------
(* pump(): what each event does to the screen.                             *)

\* The head of evs is of one of these kinds and is taken.
Take(kinds) ==
  /\ evs # <<>> /\ Head(evs).kind \in kinds
  /\ evs' = Tail(evs)
  /\ UNCHANGED <<loopVars, shared, poolVars, job>>
  /\ late' = (late \/ (Head(evs).job # NoJob /\ Head(evs).epoch # shown))
  /\ replaced' = (replaced \/ (Head(evs).kind = "connecting" /\ shown # 0))

OnConnecting ==
  /\ Take({"connecting"})
  /\ state' = "connecting" /\ shown' = 0
  /\ UNCHANGED <<cmds, light, consoleRunning, dumpRunning, writeMode, pauseBox,
                 view, sentViews>>

\* The collector is told the write mode again and asked for the schemas.
OnConnected ==
  /\ Take({"connected"})
  /\ state' = "connected" /\ shown' = Head(evs).epoch
  /\ cmds' = cmds \o <<[op |-> "write", on |-> writeMode], [op |-> "schemas"]>>
  /\ UNCHANGED <<light, consoleRunning, dumpRunning, writeMode, pauseBox, view,
                 sentViews>>

\* Mutant: the console is left waiting for its SqlBusy(false).
OnDisconnectedForgets ==
  /\ Take({"disconnected"})
  /\ state' = "disconnected" /\ shown' = 0
  /\ light' = FALSE /\ dumpRunning' = FALSE
  /\ UNCHANGED <<cmds, consoleRunning, writeMode, pauseBox, view, sentViews>>

\* Jobs of the old session are abandoned, so the lights they hold go out here.
OnDisconnected ==
  /\ Take({"disconnected"})
  /\ state' = "disconnected" /\ shown' = 0
  /\ light' = FALSE /\ consoleRunning' = FALSE /\ dumpRunning' = FALSE
  /\ UNCHANGED <<cmds, writeMode, pauseBox, view, sentViews>>

OnBusy ==
  /\ Take({"busy_on", "busy_off"})
  /\ light' = (Head(evs).kind = "busy_on")
  /\ UNCHANGED <<cmds, state, consoleRunning, dumpRunning, writeMode, pauseBox,
                 view, sentViews, shown>>

OnSqlBusy ==
  /\ Take({"sql_on", "sql_off"})
  /\ consoleRunning' = (Head(evs).kind = "sql_on")
  /\ UNCHANGED <<cmds, state, light, dumpRunning, writeMode, pauseBox, view,
                 sentViews, shown>>

\* Progress raises the flag, the end of a dump lowers it.
OnDump ==
  /\ Take({"dump_progress", "dump_end"})
  /\ dumpRunning' = (Head(evs).kind = "dump_progress")
  /\ UNCHANGED <<cmds, state, light, consoleRunning, writeMode, pauseBox, view,
                 sentViews, shown>>

\* ChangesApplied: the page is asked for again, if a table is open.
OnApplied ==
  /\ Take({"applied"})
  /\ cmds' \in {cmds, Append(cmds, [op |-> "browse"])}
  /\ UNCHANGED <<state, light, consoleRunning, dumpRunning, writeMode, pauseBox,
                 view, sentViews, shown>>

\* Results, samples and messages: screens this module has no state for.
OnOther ==
  /\ Take({"error", "refused", "sample", "load", "sql_end",
           "answer"} \cup Heavy)
  /\ UNCHANGED <<cmds, state, light, consoleRunning, dumpRunning, writeMode,
                 pauseBox, view, sentViews, shown>>

Pump ==
  \/ OnConnecting \/ OnConnected \/ OnDisconnected \/ OnBusy \/ OnSqlBusy
  \/ OnDump \/ OnApplied \/ OnOther

\* The clock ticks only where the instance has one and the GUI keeps up.
Paced ==
  /\ CollectorStep
  /\ at = "select" /\ at' = "sampling" => "tick" \in Menu /\ Len(evs) < MaxEvs
  /\ UNCHANGED guiVars

AppNext ==
  /\ UserStep \/ SyncViews \/ Pump \/ Paced
  /\ Len(evs') <= MaxBacklog

AppSpec == AppInit /\ [][AppNext]_appVars

-----------------------------------------------------------------------------
(* Fairness.  The runtime runs every task that is ready, the select serves *)
(* a waiting command although ticks compete with it, the server answers a  *)
(* KILL, and the frame loop pumps.  A statement of a job without a timeout *)
(* need not end unless it is interrupted, and the user need not act.       *)

Step(A) == A /\ UNCHANGED guiVars /\ Len(evs') <= MaxBacklog

Timed == {"inspect", "explain", "schemas", "tables", "describe", "advisor"}

Prompt(j) == CheckEpoch(j) \/ Emit(j) \/ Register(j) \/ Unregister(j)
               \/ Return(j) \/ KillQuery(j) \/ Release(j) \/ Lower(j)
GivesUp(j) == job[j].op \in Timed /\ (AcquireFail(j) \/ WorkEnds(j, FALSE))
Interrupted(j) == job[j].killed /\ (WorkEnds(j, FALSE) \/ DumpEnds(j))

Fairness ==
  /\ SF_appVars(Step(LoopStep /\ Len(cmds') < Len(cmds)))
  /\ WF_appVars(Step(ConnectOk \/ ConnectFail))
  /\ WF_appVars(Step(SampleOk \/ SampleFail))
  /\ WF_appVars(Pump)
  /\ \A j \in Jobs : WF_appVars(Step(Prompt(j)))
                    /\ WF_appVars(Step(GivesUp(j)))
                    /\ WF_appVars(Step(Interrupted(j)))
                    /\ SF_appVars(Step(Acquire(j)))

FairSpec == AppSpec /\ Fairness

-----------------------------------------------------------------------------
(* Properties of the collector and its GUI together.                       *)

AppTypeOK ==
  /\ TypeOK
  /\ state \in {"disconnected", "connecting", "connected"}
  /\ light \in BOOLEAN /\ consoleRunning \in BOOLEAN /\ dumpRunning \in BOOLEAN
  /\ writeMode \in BOOLEAN /\ pauseBox \in BOOLEAN
  /\ view \in Views /\ sentViews \in {<<>>} \cup {<<v>> : v \in Views}
  /\ shown \in Nat /\ late \in BOOLEAN /\ replaced \in BOOLEAN

\* Entry k of cmds decides the write gate that entry i will meet; 0 stands for
\* the collector's own allow_writes.
Setter(k, i) == /\ k = 0 \/ cmds[k].op = "write"
                /\ \A m \in k+1 .. i-1 : cmds[m].op # "write"
GateIs(i, b) ==
  \A k \in 0..i-1 : Setter(k, i) => (IF k = 0 THEN allowWrites ELSE cmds[k].on) = b

\* Every queued write meets the gate the user saw open when sending it, and
\* the gate ends up where the switch is: the collector's second check refuses
\* nothing the GUI allowed and lets nothing through that the GUI forbids.
GateFollowsSwitch ==
  /\ \A i \in DOMAIN cmds : Writes(cmds[i]) => GateIs(i, TRUE)
  /\ GateIs(Len(cmds) + 1, writeMode)

NoJobs == \A j \in Jobs : ~Alive(j)
Settled == cmds = <<>> /\ evs = <<>> /\ at = "select" /\ NoJobs

\* Once every job is over and every event is taken, the spinner is off: the
\* two halves of BusyGuard may interleave with another job's, but the events
\* cannot end with the light on.
SpinnerSettles == Settled => ~light

\* So far the screen has seen no event of a retired session, and each session
\* on it has ended before the next began: a Connect can only be sent while none
\* is shown, but several can be, and the second finds the session of the first.
Orderly == ~late /\ ~replaced

\* ... and nothing says that a statement or a dump is running, as long as the
\* sessions have followed each other in order.
FlagsSettle == Settled /\ Orderly => ~consoleRunning /\ ~dumpRunning

\* While a dump of the session on screen runs, its Cancel button is there.
DumpShown ==
  state = "connected" /\ cmds = <<>> /\ evs = <<>> /\ Orderly =>
    \A j \in Jobs :
      /\ job[j].op = "dump" /\ job[j].epoch = shown
      /\ job[j].pc \in {"acquire", "work", "progress", "return"}
      => dumpRunning

\* Samples do not go through JobEv and carry no epoch, yet none is ever shown
\* against a server it was not taken from: the loop awaits every sample, so it
\* retires no session while one is under way.
SamplesBelongToScreen ==
  \A i \in DOMAIN evs :
    LET turns == {k \in 1..i-1 : evs[k].kind \in {"connecting", "connected", "disconnected"}}
        last == CHOOSE k \in turns : \A m \in turns : m <= k
    IN evs[i].kind \in {"sample"} \cup Heavy =>
         IF turns = {} THEN state = "connected" /\ shown = evs[i].epoch
         ELSE evs[last].kind = "connected" /\ evs[last].epoch = evs[i].epoch

\* A disconnect is answered although a statement of the session never ends:
\* closing the pool is not awaited.
DisconnectHonoured ==
  (\E i \in DOMAIN cmds : cmds[i].op = "disconnect") ~> (state = "disconnected")

-----------------------------------------------------------------------------
(* What the documentation says and the code does not do.                   *)

\* README.md:159: "Late results are discarded. Disconnecting or connecting
\* somewhere else retires the session."
LateResultsDiscarded == ~late

\* app.rs:992: "Jobs from the old session are abandoned, so their finishing
\* events will never arrive to clear these."  Event::Connecting retires a
\* session too, and clears nothing: a statement running when a second Connect
\* is served leaves the console busy for good.
RetiredFlagsCleared == Settled /\ ~late => ~consoleRunning /\ ~dumpRunning

\* README.md:135: "Pause. A checkbox in the connection bar stops polling".
PauseHolds ==
  state = "connected" /\ cmds = <<>> /\ evs = <<>> /\ pauseBox => paused

\* README.md:154: "Cancel a dump. The dump stops at the next batch."
CancelledDumpStops ==
  [][\A j \in Jobs :
       job[j].op = "dump" /\ job[j].told /\ job[j].pc = "work"
         => job'[j].pc # "progress"]_appVars
=============================================================================
