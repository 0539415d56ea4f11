---------------------------- MODULE TableBrowser ----------------------------
(***************************************************************************)
(* The table browser of src/ui/table_browser.rs and src/app.rs, with the   *)
(* jobs that answer it.  Every request is a task of its own on a pooled    *)
(* connection, so answers come in any order, and the user goes on clicking *)
(* before they come.                                                       *)
(*                                                                         *)
(* A table is its name and its columns; of a row only its key matters: the *)
(* columns of the key, and the table of the page the row was read from.    *)
(* The filter, the order and the offset of a page are left out, and so is  *)
(* the session, which Collector and App model.  The write gate follows the *)
(* switch (AppProofs, NothingIsRefused), so the collector's own refusal is *)
(* left out as well.                                                       *)
(***************************************************************************)
EXTENDS Naturals, FiniteSets

CONSTANTS
  Schemas, Names,  \* what the tables are called
  Columns,         \* what the columns are called
  Cols, Pk,        \* the columns, and the primary key, of each table
  NoTable, NoKey,
  MaxAsks,         \* bound: requests made by clicks
  MaxEdits         \* bound: changes queued

Table == Schemas \X Names

ASSUME TableAssumption ==
  /\ Cols \in [Table -> SUBSET Columns] /\ Pk \in [Table -> SUBSET Columns]
  /\ \A t \in Table : Pk[t] \subseteq Cols[t]
ASSUME NothingAssumption == NoTable \notin Table \cup Names \cup Schemas
ASSUME BoundAssumption == MaxAsks \in Nat /\ MaxEdits \in Nat

VARIABLES
  schema,     \* browse.schema
  name,       \* browse.table
  page,       \* browse_result, as the table it was read from
  columns,    \* table_schema, as the table it describes
  editing,    \* the key of the cell being edited
  inserting,  \* insert_row is there
  pending,    \* the changes queued
  writes,     \* allow_writes
  asked,      \* the requests under way
  db,         \* the changes the server has committed
  asks, edits,  \* how many of each there have been
  picked,     \* history: another schema was picked since the table was opened
  hasty,      \* history: the user clicked on while an answer was due
  unsure,     \* history: a commit whose answer was lost
  lost        \* history: changes dropped as applied that never were

screen == <<schema, name, page, columns>>
panels == <<editing, inserting, writes>>
history == <<picked, hasty, unsure, lost>>
vars == <<screen, panels, pending, asked, db, asks, edits, history>>

-----------------------------------------------------------------------------
\* A Change: an Update or a Delete of a row, or an Insert, which has no key.
Key == [cols : SUBSET Columns, from : Table]
Change == [id : Nat, table : Table, key : Key \cup {NoKey}]

\* begun: START TRANSACTION has run; done: the changes executed since.
Request == [id : Nat, op : {"describe", "browse", "apply"}, table : Table,
            list : SUBSET Change, done : SUBSET Change,
            pc : {"sent", "begun", "landed"}]

Ask(id, op, t) == [id |-> id, op |-> op, table |-> t, list |-> {}, done |-> {},
                   pc |-> "sent"]
Effects(r, list) == {[batch |-> r.id, change |-> c] : c \in list}

\* The batches that may still land.
Live == {r \in asked : r.op = "apply" /\ r.pc # "landed"}
BatchOf(r) == [id |-> r.id, list |-> r.list]
Sent == {BatchOf(r) : r \in Live}

Batches == INSTANCE RowEdits WITH sent <- Sent

Open == <<schema, name>>
Shown == name # NoTable

Init ==
  /\ schema = NoTable /\ name = NoTable /\ page = NoTable /\ columns = NoTable
  /\ editing = NoKey /\ inserting = FALSE /\ pending = {} /\ writes = FALSE
  /\ asked = {} /\ db = {} /\ asks = 0 /\ edits = 0
  /\ picked = FALSE /\ hasty = FALSE /\ unsure = FALSE /\ lost = {}

-----------------------------------------------------------------------------
(* Clicks.                                                                 *)

\* The user does not wait for what is still under way.
Acts == hasty' = (hasty \/ asked # {})

\* Room for n more requests under the bound.
Room(n) == asks + n <= MaxAsks
IsInsert(c) == c.key = NoKey

\* ComboBox of table_list: the list is asked for, nothing else is touched.
PickSchema(s) ==
  /\ s # schema
  /\ schema' = s /\ picked' = TRUE
  /\ Acts
  /\ UNCHANGED <<name, page, columns, panels, pending, asked, db, asks, edits,
                 unsure, lost>>

\* Mutant: the description of the table before is kept until the next comes.
OpenTableKeepsColumns(t, n) ==
  /\ Room(n + 1)
  /\ schema' = t[1] /\ name' = t[2] /\ page' = NoTable
  /\ editing' = NoKey /\ pending' = {c \in pending : IsInsert(c)}
  /\ asked' = asked \cup {Ask(asks + 1, "describe", t)}
                    \cup {Ask(asks + 1 + k, "browse", t) : k \in 1..n}
  /\ asks' = asks + n + 1 /\ picked' = FALSE
  /\ Acts
  /\ UNCHANGED <<columns, inserting, writes, db, edits, unsure, lost>>

\* open_table, from the list; open_table_filtered asks for a second page.
OpenTable(t, n) ==
  /\ Room(n + 1)
  /\ schema' = t[1] /\ name' = t[2] /\ page' = NoTable /\ columns' = NoTable
  /\ editing' = NoKey /\ pending' = {c \in pending : IsInsert(c)}
  /\ asked' = asked \cup {Ask(asks + 1, "describe", t)}
                    \cup {Ask(asks + 1 + k, "browse", t) : k \in 1..n}
  /\ asks' = asks + n + 1 /\ picked' = FALSE
  /\ Acts
  /\ UNCHANGED <<inserting, writes, db, edits, unsure, lost>>

\* refresh_browse: Refresh, another page, filter, order or page size.
Refresh ==
  /\ Shown /\ Room(1)
  /\ asked' = asked \cup {Ask(asks + 1, "browse", Open)}
  /\ asks' = asks + 1
  /\ Acts
  /\ UNCHANGED <<screen, panels, pending, db, edits, picked, unsure, lost>>

Editable == columns # NoTable /\ Pk[columns] # {}

\* A cell is clicked: start_edit, with row_key of its row.  A key column that
\* the page does not have makes no key.
StartEdit ==
  /\ Shown /\ Editable /\ page # NoTable
  /\ Pk[columns] \subseteq Cols[page]
  /\ editing' = [cols |-> Pk[columns], from |-> page]
  /\ editing' # editing
  /\ Acts
  /\ UNCHANGED <<screen, inserting, writes, pending, asked, db, asks, edits,
                 picked, unsure, lost>>

CancelEdit ==
  /\ editing # NoKey /\ editing' = NoKey
  /\ Acts
  /\ UNCHANGED <<screen, inserting, writes, pending, asked, db, asks, edits,
                 picked, unsure, lost>>

Queue(key) ==
  /\ Shown /\ writes /\ edits < MaxEdits
  /\ pending' = pending \cup {[id |-> edits + 1, table |-> Open, key |-> key]}
  /\ edits' = edits + 1
  /\ Acts
  /\ UNCHANGED <<screen, writes, asked, db, asks, picked, unsure, lost>>

\* Queue change and Delete row: the key of the cell, the names of the moment.
QueueChange ==
  /\ editing # NoKey /\ Queue(editing)
  /\ editing' = NoKey /\ UNCHANGED inserting

\* The form stays when another table is opened.
StartInsert ==
  /\ Shown /\ Editable /\ writes
  /\ ~inserting /\ inserting' = TRUE
  /\ Acts
  /\ UNCHANGED <<screen, editing, writes, pending, asked, db, asks, edits,
                 picked, unsure, lost>>

QueueInsert ==
  /\ inserting /\ Queue(NoKey)
  /\ inserting' = FALSE /\ UNCHANGED editing

CancelInsert ==
  /\ inserting /\ inserting' = FALSE
  /\ Acts
  /\ UNCHANGED <<screen, editing, writes, pending, asked, db, asks, edits,
                 picked, unsure, lost>>

\* set_write_mode: going back to read-only drops what was queued.
SetWrites ==
  /\ writes' = ~writes
  /\ IF writes THEN pending' = {} /\ editing' = NoKey ELSE UNCHANGED <<pending, editing>>
  /\ Acts
  /\ UNCHANGED <<screen, inserting, asked, db, asks, edits, picked, unsure, lost>>

\* One change, or all of them.
Discard(cs) ==
  /\ Shown /\ cs # {}
  /\ pending' = pending \ cs
  /\ Acts
  /\ UNCHANGED <<screen, panels, asked, db, asks, edits, picked, unsure, lost>>

\* Nothing keeps it from being clicked again before the answer is there.
Apply ==
  /\ Shown /\ writes /\ pending # {} /\ Room(1)
  /\ asked' = asked \cup {[Ask(asks + 1, "apply", Open) EXCEPT !.list = pending]}
  /\ asks' = asks + 1
  /\ Acts
  /\ UNCHANGED <<screen, panels, pending, db, edits, picked, unsure, lost>>

Click ==
  \/ \E s \in Schemas : PickSchema(s)
  \/ \E t \in Table, n \in 1..2 : (n = 1 => t[1] = schema) /\ OpenTable(t, n)
  \/ Refresh \/ StartEdit \/ CancelEdit \/ QueueChange
  \/ StartInsert \/ QueueInsert \/ CancelInsert \/ SetWrites
  \/ \E c \in pending : Discard({c})
  \/ Discard(pending) \/ Apply

-----------------------------------------------------------------------------
(* apply(): one transaction on a connection of its own.  What it has done  *)
(* is seen by nobody before COMMIT, and a connection that breaks or goes   *)
(* back to its pool in the middle is rolled back.                          *)

Becomes(r, q) ==
  /\ asked' = (asked \ {r}) \cup {q}
  /\ UNCHANGED <<screen, panels, pending, asks, edits, picked, hasty, lost>>

Begin(r) ==
  /\ r.op = "apply" /\ r.pc = "sent"
  /\ Becomes(r, [r EXCEPT !.pc = "begun"])
  /\ UNCHANGED <<db, unsure>>

\* The changes are executed in the order they were queued.
IsNext(r, c) == c \in r.list \ r.done /\ \A d \in r.list \ r.done : c.id <= d.id

\* Mutant: without START TRANSACTION every change commits by itself.
ExecAlone(r, c) ==
  /\ r.pc = "begun" /\ IsNext(r, c)
  /\ Becomes(r, [r EXCEPT !.done = @ \cup {c}])
  /\ db' = db \cup Effects(r, {c}) /\ UNCHANGED unsure

Exec(r, c) ==
  /\ r.pc = "begun" /\ IsNext(r, c)
  /\ Becomes(r, [r EXCEPT !.done = @ \cup {c}])
  /\ UNCHANGED <<db, unsure>>

\* Mutant: it does not wait for the last change.
CommitEarly(r) ==
  /\ r.pc = "begun"
  /\ Becomes(r, [r EXCEPT !.pc = "landed"])
  /\ db' = db \cup Effects(r, r.done) /\ UNCHANGED unsure

Commit(r) ==
  /\ r.pc = "begun" /\ r.done = r.list
  /\ Becomes(r, [r EXCEPT !.pc = "landed"])
  /\ db' = db \cup Effects(r, r.list) /\ UNCHANGED unsure

-----------------------------------------------------------------------------
(* Answers: pump(), with the job that ends.                                *)

Answered(r) ==
  /\ asked' = asked \ {r}
  /\ UNCHANGED <<schema, name, inserting, writes, db, edits, picked, hasty>>

\* Mutant: an error in the middle of the batch is answered like a success.
FailedUnseen(r) ==
  /\ r.pc = "begun"
  /\ Becomes(r, [r EXCEPT !.pc = "landed", !.done = r.list])
  /\ UNCHANGED <<db, unsure>>

\* SqlError, at any statement: an apply has rolled back.
Failed(r) ==
  /\ r.pc # "landed"
  /\ Answered(r)
  /\ UNCHANGED <<page, columns, editing, pending, asks, unsure, lost>>

\* The connection breaks in COMMIT: it took effect, the answer is an error.
CommitUnseen(r) ==
  /\ r.pc = "begun" /\ r.done = r.list
  /\ asked' = asked \ {r}
  /\ db' = db \cup Effects(r, r.list) /\ unsure' = TRUE
  /\ UNCHANGED <<screen, panels, pending, asks, edits, picked, hasty, lost>>

\* TableSchema is taken for the table that is open by now.
OnTableSchema(r) ==
  /\ r.op = "describe" /\ Answered(r)
  /\ columns' = r.table
  /\ UNCHANGED <<page, editing, pending, asks, unsure, lost>>

\* Mutant: the page of whatever table.
OnAnyBrowseResult(r) ==
  /\ r.op = "browse" /\ Answered(r)
  /\ page' = r.table
  /\ UNCHANGED <<columns, editing, pending, asks, unsure, lost>>

\* BrowseResult counts if it is of the schema and the table now named.
OnBrowseResult(r) ==
  /\ r.op = "browse" /\ Answered(r)
  /\ page' = IF r.table = Open THEN r.table ELSE page
  /\ UNCHANGED <<columns, editing, pending, asks, unsure, lost>>

Unsaved == {c.id : c \in {e \in pending : \A d \in db : d.change # e}}

\* Mutant: the answer is only logged.
OnChangesAppliedKeeps(r) ==
  /\ r.pc = "landed"
  /\ asked' = asked \ {r}
  /\ UNCHANGED <<screen, panels, pending, db, asks, edits, history>>

\* ChangesApplied empties the whole list, and asks for the page again.
OnChangesApplied(r) ==
  /\ r.pc = "landed"
  /\ pending' = {} /\ editing' = NoKey
  /\ asked' = (asked \ {r}) \cup {Ask(asks + 1, "browse", Open)}
  /\ asks' = asks + 1
  /\ lost' = lost \cup Unsaved
  /\ UNCHANGED <<screen, inserting, writes, db, edits, picked, hasty, unsure>>

Next ==
  \/ Click
  \/ \E r \in asked :
       \/ Begin(r) \/ Commit(r) \/ CommitUnseen(r) \/ Failed(r)
       \/ \E c \in r.list : Exec(r, c)
       \/ OnTableSchema(r) \/ OnBrowseResult(r) \/ OnChangesApplied(r)

Spec == Init /\ [][Next]_vars

-----------------------------------------------------------------------------
\* Types; a transaction executes nothing but its batch, and all of it before it
\* is answered as applied.
BrowserTypeOK ==
  /\ schema \in Schemas \cup {NoTable} /\ name \in Names \cup {NoTable}
  /\ page \in Table \cup {NoTable} /\ columns \in Table \cup {NoTable}
  /\ editing \in Key \cup {NoKey} /\ inserting \in BOOLEAN
  /\ pending \in SUBSET Change /\ writes \in BOOLEAN
  /\ asked \in SUBSET Request
  /\ \A r \in asked : /\ r.done \subseteq r.list
                      /\ r.pc = "landed" => r.done = r.list
  /\ db \in SUBSET [batch : Nat, change : Change]
  /\ asks \in Nat /\ edits \in Nat
  /\ picked \in BOOLEAN /\ hasty \in BOOLEAN /\ unsure \in BOOLEAN
  /\ lost \in SUBSET Nat

\* However late the answers, the rows on screen are rows of the table named
\* above them, unless another schema was picked and no table of it opened.
PageOfTable == page # NoTable /\ ~picked => page = Open

\* src/db/sql.rs:240: a key is "the only WHERE clause that is guaranteed to
\* address exactly one row": it has the columns of the primary key of the
\* table it is used on, and its values come from a row of that table.
AddressesRow(key, t) == key.cols = Pk[t] /\ key.from = t
KeysAddressRows ==
  \A c \in pending : ~IsInsert(c) => AddressesRow(c.key, c.table)

\* It does, for a user who waits for the answers before clicking on.
PatientKeysAddressRows == ~hasty /\ ~picked => KeysAddressRows

\* ... who loses no edit to the list being emptied,
NoEditLost == ~hasty => lost = {}

\* ... and has every edit applied once, if no answer to a COMMIT is lost.
AppliedOnce ==
  ~hasty /\ ~unsure =>
    \A d, e \in db : d.change.id = e.change.id => d = e

\* README.md:476: "applying runs the whole queue in one transaction - any
\* failure rolls the batch back", whatever is under way at the same time.
BatchesAreAtomic == Batches!EditsSpec
=============================================================================
