# yMySQL: a verification development

yMySQL is a desktop monitor for MySQL (Rust, egui).  This directory holds TLA+
modules that model the parts of it that carry state and concurrency, the TLC
runs that check them on small instances, and theorems, checked by TLAPS, that
hold for every instance.  File names below are those of the repository; line
numbers are in `PROJECT.json`, which maps every definition to the code it
models.

## 1. The system and its parts

| part | source | state it keeps | operations | talks to |
|---|---|---|---|---|
| Collector loop | `src/db/collector.rs` | session, epoch, scheduler, ticker, write gate, dump flag, busy count, cancel slot | 21 commands, one tick branch | GUI (two unbounded channels), server (pool), jobs (shared atomics) |
| Jobs | `collector.rs`, `db/sql.rs`, `db/dump.rs` | one task each: captured session and epoch, a pooled connection, a `BusyGuard`, an `InflightGuard` | acquire, run statements, report | GUI (through `JobEv`), server |
| GUI session state | `src/app.rs`, `src/ui/*` | connection state, spinner, console and dump flags, write switch, pause box, tab, declared needs | widgets that send, `pump()` that takes | collector, store |
| Scheduler | `src/db/schedule.rs` | needs, tick, rotation, window of costs, backoff, forced, paused | `set_needs`, `next_heavy`, `record_sample`, ... | collector loop |
| Table browser, row edits | `src/ui/table_browser.rs`, `app.rs`, `db/sql.rs` | open table, page, key, pending changes | browse, count, edit, queue, apply | collector |
| Dump writer | `src/db/dump.rs` | the file being written, progress | header, tables, batches, cancel | job |
| History store | `src/store.rs`, `src/ui/historical.rs` | SQLite tables (raw samples, one-minute rows), the chart | write, query, stats, export, maintenance | GUI (a thread and two channels) |
| Alert engine | `src/alerts.rs`, `src/ui/alerts_tab.rs` | rules, a state per rule, the alert log | `evaluate`, `reset_states`, `add`, `remove`, edits | GUI |
| Profiles and keyring | `src/profiles.rs` | profiles, profile file, OS keyring, the form | save, load, delete, restart | GUI |
| Index advisor | `src/advisor.rs`, `src/suggest.rs`, `src/ui/index_advisor.rs` | the last report | run, copy a statement | GUI; the user runs the statements |
| Statement formatter | `src/fmt_sql.rs` | loop variables of one call | one step per token | SQL console |
| Deadlock report | `src/deadlock.rs` | loop variables of one call | one step per line | lock monitor |
| Other report parsers | `src/innodb.rs`, `src/replication.rs`, `src/db/version.rs` | none (pure) | | collector |
| Exporters | `src/csv.rs`, `src/json_rows.rs`, `src/html_table.rs`, `src/markdown_table.rs`, `src/insert_sql.rs` | none (pure) | | GUI |

### How they interact

The GUI thread sends commands on one unbounded channel and drains events from
another once per frame.  The collector loop takes one command or one tick at a
time; everything that talks to the server for the user is spawned as a task of
its own (`spawn_job`), with the session and the epoch it was spawned under.  A
task holds a connection of the session's pool and reports through `JobEv`, which
drops the event if the epoch has moved on.  Tasks, loop and GUI share four
atomics: the epoch, the busy count, the id of the console statement to cancel and
the cancel flag of dumps.  Samples are taken by the loop itself, which awaits
them.  The store thread has two channels of its own to the GUI.

### What is hard here

* The GUI acts on events it has drained, so every click may be behind what the
  collector has done; every answer may be behind what the user has clicked.
* The check of the epoch and the send are two steps, and so are the two halves
  of the busy guard; jobs and loop interleave in between.
* Jobs end in any order, or never; get no connection; are interrupted by a KILL
  that was meant for the statement before.
* Reconnecting replaces the session, the scheduler and the ticker, but not the
  cancel slot, the dump flag, the write gate or what the GUI believes it has sent.
* The scheduler is a small controller (a rotation with skips, a backoff with
  hysteresis on a moving window) whose mistakes show only after many ticks.
* Row edits are built from the names of the moment, a key read earlier and a
  description that came at some other time, and are then run as a transaction
  whose answer may be lost.
* The history is maintained by three statements that commit one by one, in a
  thread that is simply gone when the window closes; the events that answer a
  chart do not say which request they belong to.
* Alert rules are edited while they are pending or firing, samples come at any
  distance, and sessions change in between.
* A profile and its password live in two stores, either of which may fail.
* Advice is given by looking at the indexes as they are, and followed one piece
  at a time, in an order nobody foresaw.
* The formatter and the deadlock parser are loops with state that looks one token
  or one line back.

`PROJECT.json` lists these at their lines, each with the properties about it.

### What makes each part correct

| part | properties | where |
|---|---|---|
| Collector | the session held is that of the epoch; the busy count is the number of guards; the cancel slot names a live statement and is not emptied by another; samples never outlive their session | `Collector`, `App` |
| GUI session state | the spinner and the flags end up right; the write gate follows the switch; a running dump can be cancelled; a disconnect is honoured | `App` |
| Scheduler | nothing on screen starves; a new screen is filled; the backoff settles and recovers | `SchedulerWatch` |
| Table browser | the page is of the table named; keys address rows of the table they run on; edits are neither lost nor applied twice; batches are atomic | `TableBrowser`, `RowEdits` |
| Dump writer | a finished file runs to its end, has every row once, and with the snapshot is one moment of the database | `Dump` |
| History store | no committed sample is lost before its time, wherever maintenance stops; a window with samples is never blank; the chart settles on what was asked last | `Store`, `History` |
| Alerts | a rule fires only after its window; what is shown as firing was logged; windows are of one session | `Alerts` |
| Profiles | a password goes back only to the name and target it was filed for; nothing done to one profile costs another its password; saving keeps queries | `Profiles` |
| Advisor | followed in any order, advice leaves every lookup an index, and every constraint | `Advisor` |
| Formatter | the tokens are what they were, and only certain words change case | `Formatter` |
| Deadlock report | each line reaches its side, wherever the report is cut | `Deadlock` |

## 2. Plan

Done, in this order: `Collector`, `App`, `Scheduler` with `SchedulerWatch`,
`RowEdits` with `TableBrowser`, and the proofs about each; then `Store` with
`History`, `Alerts`, `Profiles`, `Dump`, `Advisor`, `Formatter`, `Deadlock`, and
the proofs about the first three.

Then the proofs about the others, and about what was only checked of the first
three.  Nothing of this plan is left; what stays with TLC, and why, ends section 5.

## 3. The modules

| module | models | role |
|---|---|---|
| `Collector` | `src/db/collector.rs`, the dump batches of `src/db/dump.rs` | the loop, the jobs, the atomics, the pools; a GUI that may do anything |
| `App` | `src/app.rs` and the widgets | extends `Collector` with the GUI it really has |
| `Scheduler` | `src/db/schedule.rs` and its use in `collector.rs` | the controller of sampling |
| `SchedulerWatch` | | history variables and properties over many ticks |
| `RowEdits` | `README.md`, "Editing data" | abstract specification: a batch lands whole and once, or not at all |
| `TableBrowser` | `src/ui/table_browser.rs`, `src/app.rs`, `apply` of `src/db/sql.rs` | implements `RowEdits` |
| `Store` | `src/store.rs` | the thread that keeps the history |
| `History` | the store half of `src/app.rs`, `src/ui/historical.rs` | extends `Store` with the GUI that feeds and reads it |
| `Alerts` | `src/alerts.rs`, `src/ui/alerts_tab.rs` | the rules and their states |
| `Profiles` | `src/profiles.rs`, the profile bar of `src/app.rs` | form, profiles, file and keyring |
| `Dump` | `src/db/dump.rs`, `src/ui/dump.rs` | one dump, and what its file does when it is run |
| `Advisor` | `src/advisor.rs`, `src/suggest.rs`, `src/ui/index_advisor.rs` | the report, and the user who follows it |
| `Formatter` | `format` of `src/fmt_sql.rs` | the layout of one statement |
| `Deadlock` | `src/deadlock.rs` | the reading of one report |
| `CollectorProofs`, `AppProofs`, `SchedulerProofs`, `TableBrowserProofs`, `StoreProofs`, `AlertsProofs`, `ProfilesProofs`, `DeskProofs` | | theorems; the last about `Dump`, `Advisor`, `Formatter` and `Deadlock` |
| `MCCollector`, `MCApp`, `MCTableBrowser`, `MCHistory`, `MCDesk` | | instances for TLC |

Operators named as mutants in their comment are not part of any specification:
each is the body of another definition with a plausible bug.

### Collector

`cmds` and `evs` are the two channels.  `at` is where the loop stands: in its
`select!`, awaiting `Pool::connect` for a Connect, or awaiting a sample; only in
`select` does it take a command (`Receive`).  `epoch`, `session`, `server`,
`paused`, `needs`, `allowWrites` are the loop's, `dumpCancel`, `busy` and
`inflight` the shared atomics.  `job[j]` is a task: its kind, where it stands
(`pc`), what it captured, its connection, and whether a KILL has hit it.  Every
await of a task is a step boundary, and so are the two points where atomics are
used without one: between check and send in `JobEv::send` (`CheckEpoch`, `Emit`),
and between `fetch_sub` and send in `Drop for BusyGuard` (`Release`, `Lower`).
The pool is external: `GetConn` gives an idle connection of that session or opens
one, up to `PoolMax`; a server numbers its connections upwards, so an id is unique
on it (a restart of the server, which begins anew, is left out) and may repeat on
another.  What a statement does is abstract: it ends well or badly, or
does not end.  `Next` lets the GUI send any commands at any time, so what holds
of `Spec` holds of every GUI.

### App

The GUI's fields and one action per widget that sends, with the condition under
which the widget is enabled, and one per event that `pump()` takes.  `pump()`
drains all it finds; taking one event at a time adds behaviours (a click between
two events of a frame) and removes none.  `shown`, `late` and
`replaced` are history: the session the screen is connected to, whether an event
of a retired session has been taken, and whether a session on screen gave way to
a Connect.  `Orderly` is neither of the last two.  A result that is late
(`LateResultsDiscarded`, section 6) can put a flag up that nothing lowers, and so
can a second Connect that is queued behind the first: it retires a session whose
flags `Event::Connecting` does not clear.  `FlagsSettle` and `DumpShown` say what
holds as long as neither has happened.

### Scheduler

A tick is `Sample(c)`: `next_heavy`, then a sample of cost `c`, then
`record_sample`, in the order of the ticker branch.  Means are compared as sums:
`avg > base / 2` with `n` costs is `2 * Total > n * base`.  When a tick is due is
left out; every order of ticks and commands is allowed.  `SchedulerWatch`
conjoins history variables to each action.

### TableBrowser and RowEdits

A table is a pair of names with columns and a primary key; a page and a
description are the table they came from; a key is its columns and the table of
the page its values came from.  A request is a task; an apply goes through START
TRANSACTION, one statement per change, COMMIT, and its answer.  A failure is
possible at each of these, and at COMMIT in both ways: not committed (`Failed`),
or committed and not known (`CommitUnseen`).  `hasty`, `picked`, `unsure` and
`lost` are history: they tell the user who waits from the one who does not.  Two
assumptions come from elsewhere: one session (several are in `App`), and that
the collector's own write gate refuses nothing (`NothingIsRefused`).  The map to
`RowEdits` takes `sent` to the batches asked for that have not landed, and `db`
to itself.

### Store and History

A sample is its server and its time stamp, as all metrics of a server are written
under the same stamps.  A row of `rollup_1m` is the set of stamps its average,
minimum and maximum were computed from, which is what tells a row that is whole
from one that is not.  The thread takes one command at a time (`Serve`); a
command fails as a whole, except that a query may have answered some metrics by
then.  `maintain()` is three steps, `Fold`, `DropRaw` and `DropRows`, each a
commit of its own; `MaintainFails` ends it at any of them, and `Exit` takes the
thread away at any moment, with its queues.  `due` is when maintenance is next
due; the clock (`Tick`) runs only where an instance lets it.  In `History` each
event of `pump()` is an action, so that clicks come between the answers to one
request; `series[m]` is the query the curve of `m` came from, which the program
itself does not know.

### Alerts

One action per operation: the cells of the grid write into a rule and touch no
state (`Edit`), `evaluate` sees every rule (`Evaluate`), the first sample of a
session evaluates nothing.  `run`, `open` and `fired` are history: when the
unbroken run of breaches of a rule began, which alarms have been logged and not
answered, and which the last sample raised.  The values of a quantity are
readings above or below the limits.

### Profiles

`items` and `lastUsed` are in memory, `file` is what a start would read, `ring` and
`oldRing` the keyring under the present and the former service name.  Every call
of the keyring and every write of the file may fail (`Faults`): a read that fails
looks like an account without a password, which is how the code takes it.  `filed`
and `given` are history: which passwords were ever filed for an account, and what
the keyring last gave back.

### Dump

One job from the form to the end of the file, with other sessions that commit at
any time; the file is the sequence of its statements.  `client` is where a client
stands that runs each statement as it is written (`RunPart`), over a server that
has the tables the mode presumes (`Before`): the tables and rows it has, and
whether all went well so far.  It is external, and follows the file at every
moment rather than at its end, so that a file cut short is run too and
`DumpRestores` can be proved by a step at a time.  A row has a weight and a number
in the order of the primary key.

### Advisor

`RunAnalysis` is the report: redundant and unused indexes (`Redundant`, `Unused`)
and the proposals of `suggest` from the digests, which are given by the columns
of their predicates and their order.  `ApplyFinding` and `ApplySuggestion` are the
user, who runs a copied statement; what the server makes of it is external.

### Formatter and Deadlock

Each has the local variables of one call as state and one action per branch of
the loop.  A token is its kind; a piece of output is its token, what separates it
from the one before, and whether it was upper-cased.  A line of a report is its
kind, the side its marker names, and what it says; `truth` is what happened, and
`Report` how a server writes it down (external).

Two properties of the formatter say less than its documentation, as the code
keeps less.  `CaseIsKept` names the words that change case: besides reserved words
and calls also OFFSET and the END of a CASE, none but the reserved ones where FROM,
JOIN or a dot is the last token before, line comments aside.  A table that is named
after a comma, after a block comment or in front of a dot is not protected by
that (`TablesKeepTheirCase`, `QualifiersKeepTheirCase`; section 6).  The last part
of `TokensSurvive` is about signs in front of what they sign (`Signed`); in front
of a comment or of the head of a clause two glued signs begin a comment
(`SignsBeginNoComment`).  The inputs of `desk` contain all of these.

`MCDesk` puts the six parts that share no state side by side: each behaviour is
one of `Parts`, with the variables of the others at rest, so that one run
explores all of them.

## 4. The runs

| run | instance | result |
|---|---|---|
| `any_gui` | one server, two jobs, two connections, any commands of six kinds | `TypeOK`, `BusyCount`, `InflightSound` |
| `sessions` | `App`: connect, disconnect, statements and cancels over three epochs | `OneLateEventPerJob`, `SpinnerSettles`, `FlagsSettle`, `SlotIsKept` |
| `gate_and_dumps` | `App`: the write switch, statements, edits and dumps, two commands under way | `AppTypeOK`, `GateFollowsSwitch`, `DumpShown` |
| `sampling` | `App` with ticks and fairness, a pool of one connection | `SessionIsCurrent`, `SamplesBelongToScreen`, `DisconnectHonoured` |
| `scheduler` | all six expensive tables, three screens, two intervals, cheap and dear samples | `SchedulerTypeOK`, `NoStarvation`, `ScreenFills`, `Recovers`, `NoFlap` |
| `browser` | two schemas, one table each with a different key, four requests, two edits | `BrowserTypeOK`, `PageOfTable`, `PatientKeysAddressRows`, `NoEditLost`, `AppliedOnce`, `BatchesAreAtomic` |
| `history` | two servers, two metrics, two ranges: clicks ahead of the answers, and time passing over both retentions | `HistoryTypeOK`, `NothingLost`, `NeverBlank`, `ChartSettles` |
| `desk` | alerts, profiles, a dump, the advisor, the formatter and the deadlock report, side by side | `HoldsBeforeFiring`, `FiringIsLogged`, `WindowsAreOfThisSession`, `SecretsStayWithTheirTarget`, `QueriesSurvive`, `OthersKeepTheirSecret`, `DumpRestores`, `FileIsOneMoment`, `AdviceKeepsLookups`, `TokensSurvive`, `CaseIsKept`, `ReportIsRead` |
| `slot_stolen` | as `sessions`, with two servers | `SlotIsKept` is violated |
| `row_keys` | as `browser` | `KeysAddressRows` is violated |
| `dump_views` | a dump of a table and a view of it | `DumpRestores` is violated |
| `unsafe_advice` | the advisor alone | `ConstraintsSurvive` is violated |

### Bounds, and why they are enough

* `MaxEpoch`: connects and disconnects.  Three are a session, its end and the
  next one; what races is always a job of one session with the next.  In
  `sampling` two are enough, as the loop holds no sample of another session.
* `Jobs`: two tasks, so that a slow one meets its successor; a console statement
  and its cancel.  The runs of one job (`sampling`, `gate_and_dumps`) are about the
  loop and the order of its commands.
* `MaxCmds`, `MaxEvs`, `MaxBacklog`: how far collector and GUI may be apart.  A
  click needs room, a job does not, up to `MaxBacklog`.  With one command under
  way the GUI can still be late by all the events not drained.  `gate_and_dumps`,
  where the order of commands is the question, has two.
* `Menu` restricts an instance to the commands its question is about.
* `Batches`: the batches of a dump; one or two.
* `Intervals`, `Costs`, `Screens`: the plain interval is 4 or 8 (1 is raised to
  4), a sample costs nothing or more than twice the plain budget, so the backoff
  goes through all its values; the screens overlap in nothing and one is empty.  The theorems
  cover the rest.
* `MaxAsks`, `MaxEdits`: opening a table takes two requests, which leaves two
  batches under way at once, or a batch and a second table; two edits are what it
  takes to cut a batch in the middle.

* `Minute`, `RawKept`, `RollupKept`, `MaxNow` (`history`): a minute is two ticks,
  raw samples live for three and rows for six, so that a cutoff can fall inside a
  minute, and a clock of eight sees samples and rows age out.  The theorems cover
  other proportions.  `MaxWrites` and `MaxCmds`: three samples make a minute that
  is cut and one that is not; three commands under way are a request, its count
  and a write.  The two instances of `MCHistory` separate what does not interact:
  clicks while no time passes, and time while nobody clicks.
* `desk`: two rules and four seconds let one be edited, disabled or removed while
  the other is pending; windows are zero and two seconds.  Five acts on two names
  and two targets are a save, a change, a save under another name, a delete and a
  restart.  Three rows and two tables cut a batch by its rows, by its bytes and
  leave a remainder; one commit falls anywhere in the dump.  Three indexes over
  two columns give every set of duplicates, prefixes and reversals.  Three tokens
  after one of four beginnings are what the loop's memory spans, which is one
  token back and one ahead, in each clause.  A side of a deadlock runs a statement
  of no, one or two lines and holds up to two locks.

Inputs that are left out of `desk` are named in section 6: views in a dump, and in
a deadlock report a statement with lines that are blank, dashes, or look like a
heading or a fact of the report.

`any_gui`, `sessions`, `gate_and_dumps`, `desk`, `slot_stolen`, `dump_views` and
`unsafe_advice` say `CHECK_DEADLOCK FALSE`:
they come to rest when the bounds are used up and every job has ended, which is
the idle program, or when the one call that is modelled has returned.  The others
check that there is always something to do.
`Tasks` is the symmetry of job names; the run that checks liveness has none.

### Fairness

Only `DisconnectHonoured` needs it (`App`, `Fairness`): the loop takes a waiting
command although ticks compete (tokio's `select!` picks at random, hence strong
fairness); a connect and a sample end, as both have timeouts; the frame loop
pumps; a task that can go on does; a job with a timeout gives up; an interrupted
statement ends.  Nothing is assumed of a statement without a timeout, of the user
or of the ticker.

## 5. What is proved

Every theorem holds for all values of the constants, under the assumptions the
modules state: `StoreAssumption` (a minute is not longer than raw samples are
kept, and rows are kept at least a minute longer than those), `AlertsAssumption`,
`LabelAssumption` (no server is called as if there were none),
`ProfilesAssumption` (an empty name is no name, an absent entry no password),
`JobsAssumption`, `ConnIdAssumption`, `SizeAssumption` and `NeedsAssumption`
(finitely many jobs, positive connection ids, a pool of at least one),
`HeavyAssumption` (the screens' tables are called otherwise than other events),
`DumpAssumption` (tables are listed once each), `DeadlockAssumption` (the lines of a statement are
strings), `AdvisorAssumption` (indexes have
names, and columns in an order), `InputsAssumption` (a statement is a sequence of
tokens, any at all), `ViewsAssumption`, `SchedulerAssumption` (intervals and costs
are natural numbers, screens are sets of the flags of `ViewNeeds`),
`TableAssumption` (a primary key is made of columns), `NothingAssumption`
(`NoTable` is no table) and
`BoundAssumption`.

* `CollectorProofs`: `TypeCorrect`, `SessionStaysCurrent`, `GuardsAreCounted`,
  `SlotIsSound`.  No one of them is inductive alone: that `busy` stays a natural
  number needs the count, and the count needs the shape of the tasks.  The
  inductive invariant is `IInv`: types, `SessionIsCurrent`, `Hosted` (a session
  has a server), `Shape` (a task stands where its kind can), `BusyCount` and
  `InflightSound`.  A step moves at most one task or spawns one, so each case
  reduces to how the set of guards changes (`SameCount`, `SpawnStep`,
  `ReleaseStep`).
* `AppProofs`: `AppImplementsCollector` shows that each widget and each event is
  something `AnyGui` may do, so the theorems above hold of the application;
  `GateFollows` is proved on the queue alone (`InStep`), by what appending and
  taking one entry does; `NothingIsRefused` follows.
* `SchedulerProofs`: `SchedulerTypeCorrect`; `RotationIsFair` from an invariant
  that bounds how often a table was passed by its distance in the rotation;
  `BackoffRecovers` from one that counts the cheap samples in the window;
  `BackoffSettles` from `Hysteresis`: at one constant cost the doubled interval
  does not meet the condition for halving it.
* `TableBrowserProofs`: `BrowserTypeCorrect` from `TypeInv`, whose parts
  `ScreenOK`, `ListOK`, `AskedOK` are what a click, an edit and a request can
  disturb; requests carry unique numbers, which `BatchesImplemented` needs to map
  Apply to `Send`, COMMIT (seen or not) to `Land`, a failure to `Drop` and the
  rest to stutters.  `PageIsOfTable` is inductive over `TypeInv`.  `PatientKeys`
  rests on `Keyed` (for a user who waits, page, description, edited cell and the
  descriptions still to come are of the open table), `PatientLosesNothing` on
  `Alone` (his apply is the only request, of exactly what is queued), and
  `PatientAppliesOnce` on `Counted` and `Once` (what is queued is not yet on the
  server unless an answer says so soon).

* `StoreProofs`: `StoreLosesNothing` and `ChartIsNeverBlank`, of the store with
  its GUI.  `NothingLost` alone is not inductive: that `DropRaw` deletes only what
  has a row needs `Staged` (after the fold, every sample old enough has a row, and
  nothing is written until maintenance ends), and that a deleted row is past its
  time needs the clock of the sweep not to be ahead (`StoreTypes`).
  `ChartIsNeverBlank` adds `Past`, that no sample is of the future, and the
  distance of a stamp from the beginning of its minute (`MinuteBounds`).
* `AlertsProofs`: `WindowsAreHeld`, `AlarmsAreLogged` and
  `SessionsKeepTheirWindows` from one invariant, `AlertsInv`, in which `RunsOK`
  ties the state of a rule to its run of breaches and `StatesOK` says that only
  rules have states.  A sample is treated rule by rule (`EvaluateIs`).
* `ProfilesProofs`: `SecretsStay`, `ResavingKeepsQueries` and `OthersSecretsStay`.
  `KeysOK` says that an entry of either service holds nothing or what was filed
  for it; the last two are properties of a step and hold of every step from a
  state with the invariant (`StepKeeps`).

* `DeskProofs`, about four parts that share no state.
  `DumpIsOneMoment` rests on `DumpInv`: of the table at hand, the rows of the
  snapshot are in the file, in the batch or still to be read (`AllOfIt`), and
  neither file nor batch has any other (`NothingElse`); so it is by the snapshot,
  taken before the first table, that all of the file is of one moment.
  `FilesRun` and `TablesAreRestored` follow the client with `ClientInv`: it has
  the tables that were made so far (`Made`) and no others, the rows it has of a
  table are those the file has (`ClientHas`), no row is written twice
  (`RowsOnce`), so no INSERT fails, and what is in the file of a table whose turn
  has passed was there at one moment (`RowsOfAMoment`).  Both are under
  `ViewsAreHarmless`: no view is dumped, or only definitions without DROP, each
  behind the table it selects from.  `dump_views` is what happens otherwise.
  `FilesRun` does not ask that the dump ended: a file that was cut short by a
  cancel or an error runs without an error as far as it goes.
  `LookupsAreKept`: `Serves` says of each index there was that one is left which
  starts with its columns and which no advice that was given drops, or which was
  put in the place of such a one.  It exists at first because of the indexes that
  serve a lookup one is longest, and the last by name of those (`OneServesBest`).
  The theorem has a hypothesis, `ProposalsAreFresh`: no index of the table has
  the name a proposed one would get.  It is needed: TLC finds, when an index over
  other columns is called so and is redundant, that its advice, copied twice,
  drops the new index that took its name.
  `HarmlessAdviceKeepsConstraints` is the other side of `unsafe_advice`: while
  only advice on duplicate and unused indexes is followed, no constraint is lost.
  Of the unique indexes over the same columns the last by name is never advised
  away (`LastIsNotAdvised`), as its twin would have to come later still.
  `FormattingKeepsTokens` and `OnlyTheseChangeCase` rest on `FormatInv` and hold of
  every sequence of tokens; what they leave out is what their properties leave
  out (section 3, `Formatter`).  The thirteen branches of the loop are first
  reduced to two, one token and one phrase written (`RoundWrites`), with what the
  rest depends on; the invariant then speaks of the last two tokens (`LastToken`),
  of the last that is no line comment (`PrevIsLast`), of where an open CASE began
  (`OpenCase`), and of what is written.
  `DeadlockIsRead` goes by the place in the report.  A side takes `Width` lines, so
  sides begin at `Begins(1)` and `Begins(2)` and the section ends at `Ends`
  (`Places`); lemmas say what line stands at each place (`LineOfSide`).
  `DeadlockInv` gives the whole state of the reader as a function of the next
  line: what is known of a side when `o` of its lines are read (`PartyAfter`),
  where its locks go (`AimAfter`), whether its statement is being collected
  (`AsksAfter`).  Each kind of line then takes the state at one place to the state
  at the next (`SideKeeps`), and that every prefix of a report is read right
  follows, for any number of locks and lines.
* `AppProofs`, of the screen.  All of these speak of events and commands on their
  way, so they are stated on queues: `Flag` says what the flag of a kind of event
  will be behind the queue, and lemmas say what appending and taking do to it.
  `AppTypeCorrect`.  `SpinnerGoesOut`, from `LightOK`: behind all events the light
  is off, or a busy task is alive.  `SamplesStayAtHome`:
  behind the turns before it every sample meets the session it was taken from
  (`On`, `Ahead`).  `FlagsGoDown` needs three things together: that events stay in
  the order of their sessions (`InOrder`), that commands and turns fit
  (`TurnsOK`: nothing that needs a session waits behind a connect), and that a
  flag which is up behind all events has a task that will lower it (`ConsoleOK`,
  `DumpOK`).  `DumpsAreShown` adds that there is one dump at a time (`Lone`): a flag
  that two dumps shared would be lowered by the first to end.
* `CollectorProofs`, `LateIsAtMostOne`: the events of a job that are behind the
  end of its session are one at most, and none while it may still send one.
* `CollectorProofs`, of the connections: `ConnectionsAreTheirOwn`.  A task keeps the
  session it captured while the loop connects to others, so who holds what is an
  invariant over all sessions there ever were (`Wiring`): each is on one server
  (`OneServerEach`, over `Bound`, to which only a connect that succeeds adds
  anything), an id is given once by a server, a connection held is of the pool of
  the holder's session, and it is held once.  From it, `SlotIsKeptFromOthers`: the
  guard of a statement compares connection ids, and the only one that can be equal
  without being the statement's own is that of a statement on another server.
  `SlotIsKeptOnOneServer` states `SlotIsKept` under the hypothesis that leaves
  (`OneServerAtATime`, of statements that have the slot or had it, at every
  moment), and `AppKeepsTheSlot` of the application; without the hypothesis
  `slot_stolen` refutes it.
* `SchedulerProofs`, `ScreensAreFilled`, from `FillInv`: unless a fetch is owed,
  no more ticks have gone by without one than the tick counter says.
* `StoreProofs`, `HistoryTypeCorrect` and `ChartsSettle`: the last request that is
  queued asks for all that is on screen, or the events on their way draw it
  (`OnItsWay`); an answer to an older request may overwrite a curve only while
  that is so.

Only model-checked: `DisconnectHonoured`, which is liveness under fairness and out
of the prover's reach.  What a fold computes is an induction over data, which is
out of it as well; that a proposal has a list of columns is therefore an
assumption (`AdvisorAssumption`), which TLC evaluates on the statements of `desk`.

## 6. Where the code and its documentation differ

With a run that shows it (`PROJECT.json`, "findings"):

* a statement on one server empties the cancel slot of another's (`slot_stolen`);
* a queued edit can have a key that is not of its table (`row_keys`);
* the file of a dump with a view in it does not run (`dump_views`);
* a proposed index replaces the primary key, and a unique index is advised away
  because of one that does not enforce its constraint (`unsafe_advice`).

Stated as a definition, violated, and not among the runs:

* A result of a retired session can still reach the screen (`App`,
  `LateResultsDiscarded`; `README.md:159-161`, `collector.rs:248-252`).
* A reconnect ends a pause that the checkbox still shows (`App`, `PauseHolds`;
  `README.md:135`, `collector.rs:404`).
* A statement that runs when a second Connect is served leaves the console busy
  for good: only `Event::Disconnected` clears the flags (`App`,
  `RetiredFlagsCleared`; `app.rs:992`).
* A dump told to stop goes on when the next one is started (`App`,
  `CancelledDumpStops`; `README.md:154`, `collector.rs:445`).
* A minute cut in two by the raw cutoff is folded again from the half that is
  left, over the row that was whole (`Store`, `RowsKeepTheirSamples`;
  `README.md:189`, `store.rs:389`).
* A dump cancelled within its last table is truncated but not marked (`Dump`,
  `CancelledIsMarked`; `README.md:502-503`).
* A password stays in the keyring when the profile was moved to another target
  before it was deleted (`Profiles`, `DeletedSecretsAreGone`; `README.md:112`).
* A table that is named after a comma or a block comment is taken for a clause:
  `from t, offset` and `from /* c */ offset` are written with OFFSET (`Formatter`,
  `TablesKeepTheirCase`; `README.md:344`, `fmt_sql.rs:263` and `468`).  The same
  happens to `offset` in front of a dot (`QualifiersKeepTheirCase`).
* Two signs in front of a comment or of a clause are written together and begin a
  comment: `(- - /* c */ 1)` comes out as `(-- /* c */ 1)` (`Formatter`,
  `SignsBeginNoComment`; `fmt_sql.rs:3-6`, `576`).

Seen on the way, without a run:

* A reconnect also resets the view needs in the scheduler, while the GUI sends
  them only when they change (`collector.rs:404`, `README.md:124`).
* A cancel reads the connection id before the KILL leaves, so it may hit what
  runs there by then (`collector.rs:433`; the comment at 285 says that only the
  console can be cancelled).
* Two clicks before the first event start two console statements
  (`sql_console.rs:24`).
* A change of the backoff makes a new ticker, which is due at once
  (`collector.rs:628`, `README.md:127`).
* A superseded page of the same table is not ignored (`app.rs:1118`).
* The form of a new row stays when another table is opened (`app.rs:717`).
* Browse, count, apply and dump have no time limit (`collector.rs:558-595`).
* A query of the history that fails leaves the chart waiting (`app.rs:669`).
* A read of the history may answer one point more than 2000 (`README.md:190-191`).
* A failed read of the keyring files an older password over a newer one
  (`profiles.rs:189`).
* An index with the columns of PRIMARY, or with a higher name than its unique
  twin, is never reported (`advisor.rs:98-105`); two proposals may extend the same
  index, so that the second statement fails; advice on redundant and on unused
  indexes, both followed, can take the last index of a lookup.
* A table with a parenthesis after it is taken for a call unless FROM, JOIN, INTO,
  UPDATE, TABLE, AS or a dot is before it: the names in `create table if not exists
  t (`, `references t (` and `create index i on t (` are upper-cased; so is one that
  looks reserved behind a dot (`fmt_sql.rs:264`, `559-568`; `README.md:340-344`).
* A line of dashes inside a statement ends the deadlock section early
  (`deadlock.rs:96-117`), and a blank one is dropped (`deadlock.rs:209`).
* Disabling a firing rule, or a new session, ends the alarm without a
  RESOLVED in the log (`alerts.rs:155-158`, `app.rs:981`).

## 7. What is not modelled, and why

The text of queries and the decoding of rows are input and output; the drawing of
screens likewise, except for what it enables.  Exporters and the arithmetic of
samples are pure functions of one or two inputs with tests of their own.  Of the
parsers of server reports only the deadlock section keeps state between lines;
the others look for numbers by their labels.  Lexing (of a statement to format, of
the predicates of a digest) is left out: the modules take tokens and predicates.
Full table scans, low selectivity and temporary tables are only reported by the
advisor, with nothing to run, and are left out.  After a cancel a dump still writes
the remainder of its batch, with one more progress event (`dump.rs:351-361`);
`DumpBatch` leaves both out, as the file is truncated either way.  The filter,
order and offset of a browser page, the row count and the
values of an insert are left out of `TableBrowser`: no property there tells them
apart.  The only crashes modelled are those of what persists: the store thread, and
the application between two acts on its profiles; a write of `profiles.json` cut
short is not told apart from a file that cannot be read.
