------------------------------ MODULE Collector ------------------------------
(***************************************************************************)
(* The collector task of src/db/collector.rs: one command loop that owns   *)
(* the session, and the jobs it spawns.  The loop reads commands from the  *)
(* GUI (cmds) and everything it or a job has to say goes to the GUI (evs); *)
(* both are unbounded FIFO channels.  Jobs are tokio tasks on a runtime    *)
(* with several worker threads, so a job may run between any two steps of  *)
(* the loop or of another job.  A step here is a stretch of code without   *)
(* an await and with at most one access to shared state; the stretch from  *)
(* the fetch_add of a BusyGuard to the spawn is one step, for only the     *)
(* loop raises the counter.                                                *)
(*                                                                         *)
(* What a statement says or returns, the cost of a sample and the rotation *)
(* of the expensive tables are abstracted (module Scheduler has the        *)
(* latter); which command may run, on which session and connection, what   *)
(* may interrupt it and when its result may be shown are not.              *)
(***************************************************************************)
EXTENDS Naturals, Sequences, FiniteSets

CONSTANTS
  Server,        \* the MySQL servers a connection can name
  ConnId,        \* connection ids a server hands out; each server counts alone
  Jobs,          \* the tasks that can be alive at the same time
  Heavy,         \* the expensive tables a tick may fetch
  DefaultNeeds,  \* what ViewNeeds::default() asks for
  PoolMax,       \* ConnConfig::max_connections
  Batches,       \* how often a dump looks at its cancel flag
  NoServer, NoJob

ASSUME ConnIdAssumption == ConnId \subseteq Nat \ {0}
ASSUME NeedsAssumption == DefaultNeeds \subseteq Heavy
ASSUME SizeAssumption == PoolMax \in Nat \ {0} /\ Batches \in Nat
ASSUME JobsAssumption == IsFiniteSet(Jobs) /\ NoJob \notin Jobs

VARIABLES
  cmds,         \* GUI -> collector
  evs,          \* collector -> GUI
  at,           \* where the loop is: in its select, or awaiting in a branch
  epoch,        \* bumped by every connect and disconnect
  session,      \* 0, or the epoch whose Connect made the session held
  server,       \* the server that session, or the pending connect, is on
  paused,       \* Scheduler::paused
  needs,        \* Scheduler::needs, as the set of expensive tables on screen
  allowWrites,  \* the write gate
  dumpCancel,   \* the flag every dump shares
  busy,         \* how many jobs hold a BusyGuard
  inflight,     \* the cancel slot: a connection id, 0 when empty
  sampler,      \* the connection the sampler holds, 0 when none
  opened,       \* connections ever opened, by the epoch of their pool
  job           \* the tasks

loopVars == <<at, epoch, session, server, paused, needs, allowWrites>>
shared   == <<dumpCancel, busy, inflight>>
poolVars == <<sampler, opened>>
vars     == <<cmds, evs, loopVars, shared, poolVars, job>>

-----------------------------------------------------------------------------
(* Commands and events.                                                    *)

\* Commands whose job only reads, raises no spinner and reports a result.
QuietOps == {"inspect", "explain", "schemas", "tables", "describe", "count"}
\* Jobs that show the busy indicator while they run.
BusyOps  == {"dump", "advisor", "sql", "browse", "apply"}
JobOps   == QuietOps \cup BusyOps \cup {"kill", "cancelsql"}
\* The commands that carry nothing the model tells apart.
PlainOps == {"disconnect", "tune", "canceldump", "dump", "cancelsql", "kill",
             "advisor", "browse", "apply"} \cup QuietOps

Command == [op : {"connect"}, server : Server]
             \cup [op : {"views"}, needs : SUBSET Heavy]
             \cup [op : {"pause", "write"}, on : BOOLEAN]
             \cup [op : {"sql"}, writes : BOOLEAN]
             \cup [op : PlainOps]

LoopWords == {"connecting", "connected", "disconnected", "error", "refused",
              "sample", "load", "busy_on", "busy_off"}
LoopKinds == LoopWords \cup Heavy
\* sql_end is SqlResult or SqlError, dump_end DumpDone or DumpFailed, answer
\* the result or the error of any other job but a successful ChangesApplied.
JobKinds  == {"sql_on", "sql_end", "sql_off", "dump_progress", "dump_end",
              "applied", "answer"}

\* The event of an expensive table has a name of its own.
ASSUME HeavyAssumption == Heavy \cap (LoopWords \cup JobKinds) = {}

\* epoch and job are history: the session an event is about, who sent it.
Event == [kind : LoopKinds \cup JobKinds, epoch : Nat, job : Jobs \cup {NoJob}]
Ev(kind, e, j) == [kind |-> kind, epoch |-> e, job |-> j]
Tell(kind) == Ev(kind, epoch, NoJob)

-----------------------------------------------------------------------------
(* Jobs.                                                                   *)

Pcs == {"none", "announce", "acquire", "register", "work", "progress",
        "unregister", "return", "report", "quiet", "release", "lower"}

Job == [pc     : Pcs,
        op     : JobOps,
        epoch  : Nat,                  \* JobEv::epoch and the captured session
        server : Server \cup {NoServer},
        conn   : ConnId \cup {0},      \* the pooled connection held
        aim    : ConnId \cup {0},      \* what a cancel will KILL QUERY
        armed  : BOOLEAN,              \* is_current() said yes, send is next
        ok     : BOOLEAN,              \* FALSE once it has failed, of Judged ops
        killed : BOOLEAN,              \* its running statement is interrupted
        told   : BOOLEAN,              \* history: CancelDump saw it running
        left   : 0..Batches]           \* batches a dump still has to write

Idle == [pc |-> "none", op |-> "kill", epoch |-> 0, server |-> NoServer,
         conn |-> 0, aim |-> 0, armed |-> FALSE, ok |-> TRUE,
         killed |-> FALSE, told |-> FALSE, left |-> 0]

\* The jobs that go on differently when they fail, beyond what they report.
Judged == {"apply", "kill", "cancelsql"}
Failed(j, ok) == job[j].op \in Judged /\ ~ok

Alive(j) == job[j].pc # "none"
Guarded(j) == Alive(j) /\ job[j].op \in BusyOps /\ job[j].pc # "lower"
\* The InflightGuard of a console statement is alive.
Registered(j) == job[j].op = "sql" /\ job[j].pc \in {"work", "unregister"}

\* Job j moves to pc; a job that has nothing left to do is gone.
Goes(j, pc) == IF pc = "none" THEN Idle ELSE [job[j] EXCEPT !.pc = pc]

-----------------------------------------------------------------------------
(* The pool.  A connection belongs to the pool of one session; the pool    *)
(* hands out an idle one, or opens another up to its maximum.              *)

PoolOf(e) == {o \in opened : o.epoch = e}
Held(e) == {job[j].conn : j \in {k \in Jobs : Alive(k) /\ job[k].epoch = e}}
             \cup (IF e = session THEN {sampler} ELSE {})
IdleConns(e) == {o.id : o \in PoolOf(e)} \ Held(e)
\* A server numbers its connections upwards.
UsedIds(srv) == {o.id : o \in {p \in opened : p.server = srv}}
NextId(srv, id) == \A u \in UsedIds(srv) : u < id

\* get_conn() on the pool of session e on srv returns connection id.
GetConn(e, srv, id) ==
  \/ /\ id \in IdleConns(e)
     /\ UNCHANGED opened
  \/ /\ IdleConns(e) = {}
     /\ Cardinality(PoolOf(e)) < PoolMax
     /\ NextId(srv, id) /\ \A m \in ConnId : NextId(srv, m) => id <= m
     /\ opened' = opened \cup {[epoch |-> e, server |-> srv, id |-> id]}

-----------------------------------------------------------------------------
Init ==
  /\ cmds = <<>> /\ evs = <<>>
  /\ at = "select" /\ epoch = 0 /\ session = 0 /\ server = NoServer
  /\ paused = FALSE /\ needs = DefaultNeeds
  /\ allowWrites = FALSE
  /\ dumpCancel = FALSE /\ busy = 0 /\ inflight = 0
  /\ sampler = 0 /\ opened = {}
  /\ job = [j \in Jobs |-> Idle]

\* The GUI sends c: Handle::send.
Submit(c) ==
  /\ cmds' = Append(cmds, c)
  /\ UNCHANGED <<evs, loopVars, shared, poolVars, job>>

\* The GUI takes the oldest event: Handle::drain.
Deliver ==
  /\ evs # <<>>
  /\ evs' = Tail(evs)
  /\ UNCHANGED <<cmds, loopVars, shared, poolVars, job>>

-----------------------------------------------------------------------------
(* The command loop: one action per Command, each taking the head of cmds. *)

\* Mutant: the loop does not await the sample it has started.
ReceiveWhileSampling(ops) ==
  /\ at \in {"select", "sampling"}
  /\ cmds # <<>> /\ Head(cmds).op \in ops
  /\ cmds' = Tail(cmds)

Receive(ops) ==
  /\ at = "select"
  /\ cmds # <<>> /\ Head(cmds).op \in ops
  /\ cmds' = Tail(cmds)

\* Mutant: the old session is not taken.
ConnectKeepsSession ==
  /\ Receive({"connect"})
  /\ epoch' = epoch + 1
  /\ server' = Head(cmds).server
  /\ at' = "connecting"
  /\ evs' = Append(evs, Ev("connecting", epoch', NoJob))
  /\ UNCHANGED <<session, paused, needs, allowWrites, shared, poolVars, job>>

\* Retire the session and start connecting; the loop awaits in this branch.
Connect ==
  /\ Receive({"connect"})
  /\ epoch' = epoch + 1
  /\ session' = 0
  /\ server' = Head(cmds).server
  /\ at' = "connecting"
  /\ evs' = Append(evs, Ev("connecting", epoch', NoJob))
  /\ UNCHANGED <<paused, needs, allowWrites, shared, poolVars, job>>

\* connect() answers in time.  The scheduler is made anew.
ConnectOk ==
  /\ at = "connecting"
  /\ evs' = Append(evs, Tell("connected"))
  /\ session' = epoch
  /\ paused' = FALSE
  /\ needs' = DefaultNeeds
  /\ at' = "select"
  /\ UNCHANGED <<cmds, epoch, server, allowWrites, shared, poolVars, job>>

\* connect() fails or CONNECT_TIMEOUT expires.
ConnectFail ==
  /\ at = "connecting"
  /\ evs' = evs \o <<Tell("error"), Tell("disconnected")>>
  /\ server' = NoServer
  /\ at' = "select"
  /\ UNCHANGED <<cmds, epoch, session, paused, needs, allowWrites, shared,
                 poolVars, job>>

\* Mutant: closing the pool is awaited, so every connection has to come back.
DisconnectWaits ==
  /\ Receive({"disconnect"})
  /\ \A j \in Jobs : job[j].conn = 0
  /\ epoch' = epoch + 1
  /\ session' = 0
  /\ server' = NoServer
  /\ evs' = Append(evs, Ev("disconnected", epoch', NoJob))
  /\ UNCHANGED <<at, paused, needs, allowWrites, shared, poolVars, job>>

\* Not guarded by a session, and nothing of the old one is awaited.
Disconnect ==
  /\ Receive({"disconnect"})
  /\ epoch' = epoch + 1
  /\ session' = 0
  /\ server' = NoServer
  /\ evs' = Append(evs, Ev("disconnected", epoch', NoJob))
  /\ UNCHANGED <<at, paused, needs, allowWrites, shared, poolVars, job>>

SetViews ==
  /\ Receive({"views"})
  /\ needs' = Head(cmds).needs
  /\ UNCHANGED <<evs, at, epoch, session, server, paused, allowWrites, shared,
                 poolVars, job>>

SetPaused ==
  /\ Receive({"pause"})
  /\ paused' = Head(cmds).on
  /\ UNCHANGED <<evs, at, epoch, session, server, needs, allowWrites, shared,
                 poolVars, job>>

SetWriteMode ==
  /\ Receive({"write"})
  /\ allowWrites' = Head(cmds).on
  /\ UNCHANGED <<evs, at, epoch, session, server, paused, needs, shared,
                 poolVars, job>>

\* SetInterval and RefreshHeavy change nothing outside the Scheduler.
Tune ==
  /\ Receive({"tune"})
  /\ UNCHANGED <<evs, loopVars, shared, poolVars, job>>

\* A dump may still be running for an earlier session: the flag reaches it too.
CancelDump ==
  /\ Receive({"canceldump"})
  /\ dumpCancel' = TRUE
  /\ job' = [j \in Jobs |->
               IF Alive(j) /\ job[j].op = "dump" /\ job[j].pc \in {"acquire", "work", "progress"}
               THEN [job[j] EXCEPT !.told = TRUE]
               ELSE job[j]]
  /\ UNCHANGED <<evs, loopVars, busy, inflight, poolVars>>

\* let Some(s) = &session else { continue }
Dropped ==
  /\ Receive(JobOps)
  /\ session = 0
  /\ UNCHANGED <<evs, loopVars, shared, poolVars, job>>

\* A task as it is spawned, with the session and the epoch of this moment.
Fresh(op, aim) ==
  [pc |-> IF op = "sql" THEN "announce" ELSE "acquire", op |-> op,
   epoch |-> epoch, server |-> server, conn |-> 0, aim |-> aim,
   armed |-> FALSE, ok |-> TRUE, killed |-> FALSE, told |-> FALSE,
   left |-> IF op = "dump" THEN Batches ELSE 0]

\* spawn_job, with the BusyGuard if the job shows the indicator.
Spawn(j, op, aim) ==
  /\ session # 0
  /\ ~Alive(j)
  /\ job' = [job EXCEPT ![j] = Fresh(op, aim)]
  /\ busy' = IF op \in BusyOps THEN busy + 1 ELSE busy
  /\ evs' = IF op \in BusyOps /\ busy = 0
              THEN Append(evs, Tell("busy_on")) ELSE evs
  /\ UNCHANGED <<loopVars, inflight, poolVars>>

\* The commands whose handler only spawns.
StartJob(j) ==
  /\ Receive(JobOps \ {"cancelsql", "dump", "sql", "apply"})
  /\ Spawn(j, Head(cmds).op, 0)
  /\ UNCHANGED dumpCancel

RunDump(j) ==
  /\ Receive({"dump"})
  /\ Spawn(j, "dump", 0)
  /\ dumpCancel' = FALSE

\* The id is read here; the task sends KILL QUERY when it has a connection.
CancelSql(j) ==
  /\ Receive({"cancelsql"})
  /\ inflight # 0
  /\ Spawn(j, "cancelsql", inflight)
  /\ UNCHANGED dumpCancel

NothingToCancel ==
  /\ Receive({"cancelsql"})
  /\ session # 0 /\ inflight = 0
  /\ UNCHANGED <<evs, loopVars, shared, poolVars, job>>

\* A command that can change the server.
Writes(c) == c.op = "apply" \/ (c.op = "sql" /\ c.writes)

\* RunSql and ApplyChanges, past the gate.
RunGated(j) ==
  /\ Receive({"sql", "apply"})
  /\ Writes(Head(cmds)) => allowWrites
  /\ Spawn(j, Head(cmds).op, 0)
  /\ UNCHANGED dumpCancel

\* ... and stopped by it.
Refuse ==
  /\ Receive({"sql", "apply"})
  /\ session # 0
  /\ Writes(Head(cmds)) /\ ~allowWrites
  /\ evs' = Append(evs, Tell("refused"))
  /\ UNCHANGED <<loopVars, shared, poolVars, job>>

-----------------------------------------------------------------------------
(* The tick branch.  The loop awaits the whole sample, for SAMPLE_TIMEOUT  *)
(* at most.                                                                *)

Tick ==
  /\ at = "select" /\ session # 0 /\ ~paused
  /\ at' = "sampling"
  /\ UNCHANGED <<cmds, evs, epoch, session, server, paused, needs, allowWrites,
                 shared, poolVars, job>>

SamplerGetConn ==
  /\ at = "sampling" /\ sampler = 0
  /\ \E id \in ConnId : GetConn(session, server, id) /\ sampler' = id
  /\ UNCHANGED <<cmds, evs, loopVars, shared, job>>

\* A sample; heavy holds the expensive table that was due and could be read.
SampleOk ==
  /\ at = "sampling" /\ sampler # 0
  /\ \E heavy \in {<<>>} \cup {<<Tell(h)>> : h \in needs} :
       evs' = evs \o heavy \o <<Tell("sample"), Tell("load")>>
  /\ sampler' = 0
  /\ at' = "select"
  /\ UNCHANGED <<cmds, epoch, session, server, paused, needs, allowWrites,
                 shared, opened, job>>

\* A failed or abandoned sample, at any of its awaits.
SampleFail ==
  /\ at = "sampling"
  /\ evs' = evs \o <<Tell("error"), Tell("load")>>
  /\ sampler' = 0
  /\ at' = "select"
  /\ UNCHANGED <<cmds, epoch, session, server, paused, needs, allowWrites,
                 shared, opened, job>>

-----------------------------------------------------------------------------
(* The steps of a job.                                                     *)

JobStep(j, pc) ==
  /\ job[j].pc = pc
  /\ UNCHANGED <<cmds, loopVars>>

\* What a job says at each of its sends, and where it goes afterwards.
Speaks == {"announce", "progress", "report", "quiet"}
Report(j) ==
  CASE job[j].op = "sql"                -> "sql_end"
    [] job[j].op = "dump"               -> "dump_end"
    [] job[j].op = "apply" /\ job[j].ok -> "applied"
    [] OTHER                            -> "answer"
Words(j) ==
  CASE job[j].pc = "announce" -> "sql_on"
    [] job[j].pc = "progress" -> "dump_progress"
    [] job[j].pc = "quiet"    -> "sql_off"
    [] OTHER                  -> Report(j)
Spoken(j) ==
  CASE job[j].pc = "announce" -> "acquire"
    [] job[j].pc = "progress" -> "work"
    [] job[j].pc = "report" /\ job[j].op = "sql" -> "quiet"
    [] job[j].pc = "report" /\ job[j].op \in BusyOps \ {"sql"} -> "release"
    [] job[j].pc = "quiet"    -> "release"
    [] OTHER                  -> "none"

\* Mutant: send does not ask whether the epoch is still current.
CheckNothing(j) ==
  /\ job[j].pc \in Speaks /\ ~job[j].armed
  /\ job' = [job EXCEPT ![j].armed = TRUE]
  /\ UNCHANGED <<cmds, evs, loopVars, shared, poolVars>>

\* JobEv::is_current, the first half of JobEv::send.
CheckEpoch(j) ==
  /\ job[j].pc \in Speaks /\ ~job[j].armed
  /\ job' = [job EXCEPT ![j] =
               IF @.epoch = epoch THEN [@ EXCEPT !.armed = TRUE]
                                  ELSE Goes(j, Spoken(j))]
  /\ UNCHANGED <<cmds, evs, loopVars, shared, poolVars>>

\* The second half: by now the loop may have moved on.
Emit(j) ==
  /\ job[j].pc \in Speaks /\ job[j].armed
  /\ evs' = Append(evs, Ev(Words(j), job[j].epoch, j))
  /\ job' = [job EXCEPT ![j] = [Goes(j, Spoken(j)) EXCEPT !.armed = FALSE]]
  /\ UNCHANGED <<cmds, loopVars, shared, poolVars>>

\* s.pool.get_conn().await
Acquire(j) ==
  /\ JobStep(j, "acquire")
  /\ \E id \in ConnId :
       /\ GetConn(job[j].epoch, job[j].server, id)
       /\ job' = [job EXCEPT ![j].conn = id,
                             ![j].pc = IF job[j].op = "sql" THEN "register" ELSE "work"]
  /\ UNCHANGED <<evs, shared, sampler>>

\* Mutant: a job that gets no connection leaves its guard up.
AcquireFailLeaks(j) ==
  /\ JobStep(j, "acquire")
  /\ job' = [job EXCEPT ![j] = Idle]
  /\ UNCHANGED <<evs, shared, poolVars>>

AcquireFail(j) ==
  /\ JobStep(j, "acquire")
  /\ job' = [job EXCEPT ![j].ok = ~Failed(j, FALSE), ![j].pc = "report"]
  /\ UNCHANGED <<evs, shared, poolVars>>

\* Inflight::register
Register(j) ==
  /\ JobStep(j, "register")
  /\ inflight' = job[j].conn
  /\ job' = [job EXCEPT ![j].pc = "work"]
  /\ UNCHANGED <<evs, dumpCancel, busy, poolVars>>

\* The statements of a job end, well or not; interrupted, they end badly.
\* META_TIMEOUT ends the work of a quiet job and of the advisor this way too.
WorkEnds(j, ok) ==
  /\ JobStep(j, "work")
  /\ job[j].op \notin {"dump", "cancelsql"}
  /\ job[j].killed => ~ok
  /\ job' = [job EXCEPT ![j].ok = ~Failed(j, ok),
                        ![j].killed = FALSE,
                        ![j].pc = IF job[j].op = "sql" THEN "unregister" ELSE "return"]
  /\ UNCHANGED <<evs, shared, poolVars>>

\* Mutants: the guard leaves the slot alone; it empties it whoever has it.
UnregisterNothing(j) ==
  /\ JobStep(j, "unregister")
  /\ job' = [job EXCEPT ![j].pc = "return"]
  /\ UNCHANGED <<evs, shared, poolVars>>

UnregisterAny(j) ==
  /\ JobStep(j, "unregister")
  /\ inflight' = 0
  /\ job' = [job EXCEPT ![j].pc = "return"]
  /\ UNCHANGED <<evs, dumpCancel, busy, poolVars>>

\* Drop for InflightGuard, before the connection goes back.
Unregister(j) ==
  /\ JobStep(j, "unregister")
  /\ inflight' = IF inflight = job[j].conn THEN 0 ELSE inflight
  /\ job' = [job EXCEPT ![j].pc = "return"]
  /\ UNCHANGED <<evs, dumpCancel, busy, poolVars>>

\* The connection goes back to its pool.  A KILL that worked says nothing.
Return(j) ==
  /\ JobStep(j, "return")
  /\ job' = [job EXCEPT ![j] =
               IF @.op \in {"kill", "cancelsql"} /\ @.ok
               THEN Idle ELSE [@ EXCEPT !.conn = 0, !.pc = "report"]]
  /\ UNCHANGED <<evs, shared, poolVars>>

\* Jobs whose statement runs on connection id of srv.
Running(srv, id) ==
  {k \in Jobs : job[k].pc = "work" /\ job[k].server = srv /\ job[k].conn = id}

\* KILL QUERY aim interrupts whatever runs there by now.  A connection that
\* kills itself, or an id the server does not know, is an error.
KillQuery(j) ==
  /\ JobStep(j, "work")
  /\ job[j].op = "cancelsql"
  /\ \/ /\ job[j].aim # job[j].conn
        /\ job' = [k \in Jobs |->
             IF k = j THEN [job[j] EXCEPT !.pc = "return"]
             ELSE IF k \in Running(job[j].server, job[j].aim)
                  THEN [job[k] EXCEPT !.killed = TRUE] ELSE job[k]]
     \/ job' = [job EXCEPT ![j].ok = FALSE, ![j].pc = "return"]
  /\ UNCHANGED <<evs, shared, poolVars>>

\* Mutant: one batch more than there is.
DumpBatchBeyond(j) ==
  /\ JobStep(j, "work")
  /\ job[j].op = "dump" /\ ~dumpCancel /\ ~job[j].killed
  /\ job' = [job EXCEPT ![j].left = @ - 1, ![j].pc = "progress"]
  /\ UNCHANGED <<evs, shared, poolVars>>

\* write_all and write_table_data: look at the flag, then write one batch and
\* say so; or stop, because of the flag or because everything is written.
DumpBatch(j) ==
  /\ JobStep(j, "work")
  /\ job[j].op = "dump" /\ ~dumpCancel /\ job[j].left > 0 /\ ~job[j].killed
  /\ job' = [job EXCEPT ![j].left = @ - 1, ![j].pc = "progress"]
  /\ UNCHANGED <<evs, shared, poolVars>>

\* An error may end it anywhere.
DumpEnds(j) ==
  /\ JobStep(j, "work")
  /\ job[j].op = "dump"
  /\ job' = [job EXCEPT ![j].killed = FALSE, ![j].pc = "return"]
  /\ UNCHANGED <<evs, shared, poolVars>>

\* Mutant: fetch_sub returns the old count, and it is compared with 0.
ReleaseOffByOne(j) ==
  /\ JobStep(j, "release")
  /\ busy' = busy - 1
  /\ job' = [job EXCEPT ![j] = IF busy = 0 THEN [@ EXCEPT !.pc = "lower"] ELSE Idle]
  /\ UNCHANGED <<evs, dumpCancel, inflight, poolVars>>

\* Drop for BusyGuard: fetch_sub, and if it was the last one, a send.
Release(j) ==
  /\ JobStep(j, "release")
  /\ busy' = busy - 1
  /\ job' = [job EXCEPT ![j] = IF busy = 1 THEN [@ EXCEPT !.pc = "lower"] ELSE Idle]
  /\ UNCHANGED <<evs, dumpCancel, inflight, poolVars>>

Lower(j) ==
  /\ JobStep(j, "lower")
  /\ evs' = Append(evs, Tell("busy_off"))
  /\ job' = [job EXCEPT ![j] = Idle]
  /\ UNCHANGED <<shared, poolVars>>

-----------------------------------------------------------------------------
LoopStep ==
  \/ Connect \/ ConnectOk \/ ConnectFail \/ Disconnect
  \/ SetViews \/ SetPaused \/ SetWriteMode \/ Tune \/ CancelDump
  \/ Dropped \/ NothingToCancel \/ Refuse
  \/ \E j \in Jobs : StartJob(j) \/ RunDump(j) \/ CancelSql(j) \/ RunGated(j)
  \/ Tick \/ SamplerGetConn \/ SampleOk \/ SampleFail

JobRuns(j) ==
  \/ CheckEpoch(j) \/ Emit(j)
  \/ Acquire(j) \/ AcquireFail(j) \/ Register(j)
  \/ \E ok \in BOOLEAN : WorkEnds(j, ok)
  \/ Unregister(j) \/ Return(j) \/ KillQuery(j)
  \/ DumpBatch(j) \/ DumpEnds(j)
  \/ Release(j) \/ Lower(j)

CollectorStep == LoopStep \/ \E j \in Jobs : JobRuns(j)

\* A GUI that may do anything: take the oldest event or not, send any commands.
AnyGui ==
  /\ evs' = evs \/ (evs # <<>> /\ evs' = Tail(evs))
  /\ \E cs \in Seq(Command) : cmds' = cmds \o cs
  /\ UNCHANGED <<loopVars, shared, poolVars, job>>

\* The collector with such a GUI; App gives it the one it has.
Next == CollectorStep \/ AnyGui
Spec == Init /\ [][Next]_vars

-----------------------------------------------------------------------------
(* Properties that hold whatever the GUI sends.                            *)

\* Every variable has the type the declarations above give it.
TypeOK ==
  /\ cmds \in Seq(Command) /\ evs \in Seq(Event)
  /\ at \in {"select", "connecting", "sampling"}
  /\ epoch \in Nat /\ session \in Nat /\ server \in Server \cup {NoServer}
  /\ paused \in BOOLEAN /\ needs \in SUBSET Heavy /\ allowWrites \in BOOLEAN
  /\ dumpCancel \in BOOLEAN /\ busy \in Nat /\ inflight \in ConnId \cup {0}
  /\ sampler \in ConnId \cup {0}
  /\ opened \in SUBSET [epoch : Nat, server : Server, id : ConnId]
  /\ job \in [Jobs -> Job]

\* The session the loop holds is the one of the current epoch, so a job that
\* captures both at its spawn captures the same session twice.
SessionIsCurrent ==
  /\ session \in {0, epoch}
  /\ at = "connecting" => session = 0
  /\ at = "sampling" => session # 0
  /\ \A j \in Jobs : job[j].epoch <= epoch

\* The cancel slot never outlives the statement that filled it: a cancel reads
\* 0 or the connection of a console statement whose guard has not dropped.
InflightSound ==
  inflight # 0 => \E j \in Jobs : Registered(j) /\ job[j].conn = inflight

\* The count behind the busy indicator is the number of guards alive, so it
\* neither leaks when a job fails nor runs below zero.
BusyCount == busy = Cardinality({j \in Jobs : Guarded(j)})

\* A statement that has claimed the slot keeps it until its own guard drops or
\* another statement claims it: a statement that ends late takes nothing away.
SlotIsKept ==
  [][\A j \in Jobs :
       /\ Registered(j) /\ Registered(j)'
       /\ inflight = job[j].conn
       => \/ inflight' = inflight
          \/ \E k \in Jobs : ~Registered(k) /\ Registered(k)' /\ inflight' = job'[k].conn
    ]_vars

\* An event of a job behind the event that retired its session.
Overtaken(p, q) ==
  /\ p < q
  /\ evs[p].kind \in {"connecting", "disconnected"}
  /\ evs[q].job # NoJob /\ evs[q].epoch < evs[p].epoch

\* The check in JobEv::send is not atomic with the send, so an event can still
\* follow the end of its session; but no more than one of each job.
OneLateEventPerJob ==
  \A p, q, r \in DOMAIN evs :
    /\ Overtaken(p, q) /\ Overtaken(p, r)
    /\ evs[q].job = evs[r].job /\ evs[q].epoch = evs[r].epoch
    => q = r
=============================================================================
