---------------------------------- MODULE Dump ----------------------------------
(***************************************************************************)
(* One dump, src/db/dump.rs, from the form of src/ui/dump.rs to the end of  *)
(* the file, while other sessions of the server commit; and what a client  *)
(* that runs the file gets.  The file is a sequence of statements; a row is *)
(* a number, and numbers are in the order of the primary key.              *)
(***************************************************************************)
EXTENDS Naturals, Sequences, FiniteSets, SequencesExt

CONSTANTS
  Order,       \* the schema's tables and views in name order
  BaseOf,      \* the views, each with the table it selects from
  RowIds,      \* rows
  Weight,      \* rough_size of a row
  BatchRows,   \* BATCH_ROWS
  BatchBytes,  \* BATCH_BYTES
  MaxCommits   \* bound: commits of other sessions during the dump

Listed == {Order[i] : i \in DOMAIN Order}

ASSUME DumpAssumption ==
  /\ Order \in Seq(Listed)
  /\ \A i, k \in DOMAIN Order : Order[i] = Order[k] => i = k
  /\ RowIds \subseteq Nat /\ Weight \in [RowIds -> Nat]
  /\ BatchRows \in Nat \ {0} /\ BatchBytes \in Nat \ {0} /\ MaxCommits \in Nat

VARIABLES
  pc,       \* where run() stands
  spec,     \* DumpSpec
  server,   \* external: the table each row is in, or "nowhere"
  snap,     \* external: what the dump's transaction sees
  tables,   \* run: tables
  idx,      \* write_all: i
  left,     \* the rows of the result still to be read
  batch,    \* write_table_data: batch
  out,      \* the file
  client,   \* external: where a client stands that runs the file as it grows
  stats,    \* DumpStats
  cancel,   \* the flag CancelDump raises
  result,   \* what run() returned
  moments   \* history: what the server held at each moment since the run began

dumpVars == <<pc, spec, server, snap, tables, idx, left, batch, out, client, stats, cancel, result,
              moments>>

BaseTables == Listed \ DOMAIN BaseOf
Modes == {"structure", "data", "both"}
wants_structure(m) == m # "data"
wants_data(m) == m # "structure"

StoredIn(x) == IF x \in DOMAIN BaseOf THEN BaseOf[x] ELSE x
Content(d, x) == {r \in RowIds : d[r] = StoredIn(x)}

NoSpec == [mode |-> "both", tables |-> {}, drop |-> TRUE, consistent |-> TRUE]
Part(kind, x, rows) == [kind |-> kind, table |-> x, rows |-> rows]

\* External.  A statement that fails stops the client: a table or view made
\* twice, a view of a table that is not there yet, a row whose key is there
\* already; DROP TABLE does not drop a view.
RunPart(db, p) ==
  IF ~db.ok THEN db
  ELSE CASE p.kind = "drop" ->
              [db EXCEPT !.has = @ \ ({p.table} \cap BaseTables),
                         !.rows = {w \in @ : w[2] # p.table}]
         [] p.kind = "create" ->
              [db EXCEPT !.ok = p.table \notin db.has /\ (p.table \in DOMAIN BaseOf => BaseOf[p.table] \in db.has),
                         !.has = @ \cup {p.table}]
         [] p.kind = "insert" ->
              LET new == {<<p.rows[k], StoredIn(p.table)>> : k \in DOMAIN p.rows}
              IN [db EXCEPT !.ok = /\ {p.table, StoredIn(p.table)} \subseteq db.has
                                   /\ IsInjective(p.rows) /\ new \cap db.rows = {},
                            !.rows = @ \cup new]
         [] OTHER -> db

\* The server the file is meant to be run on, its tables empty: nothing is
\* there, or what the file drops, or, when it makes none, the tables.
Before(sp) ==
  [ok |-> TRUE, rows |-> {},
   has |-> IF wants_structure(sp.mode) /\ ~sp.drop THEN {} ELSE Listed]

\* A write is of one statement or of two.
Write(parts) ==
  /\ out' = out \o parts
  /\ client' = LET db == RunPart(client, parts[1])
               IN IF Len(parts) = 1 THEN db ELSE RunPart(db, parts[2])

DumpInit ==
  /\ pc = "idle" /\ spec = NoSpec /\ tables = <<>> /\ idx = 1 /\ left = {} /\ batch = <<>>
  /\ server \in [RowIds -> BaseTables] /\ snap = server /\ moments = {server}
  /\ out = <<>> /\ client = Before(NoSpec)
  /\ stats = [tables |-> 0, rows |-> 0, cancelled |-> FALSE]
  /\ cancel = FALSE /\ result = "none"

-----------------------------------------------------------------------------
(* The form and the loop: what to dump, and when to stop.                  *)

\* Ticked tables; none ticked is the whole schema.
Tickable == SUBSET Listed

\* start_dump: the loop lowers the flag and starts the job.
StartDump ==
  /\ pc = "idle"
  /\ \E m \in Modes, ts \in Tickable, d \in BOOLEAN, c \in BOOLEAN :
       spec' = [mode |-> m, tables |-> ts, drop |-> d, consistent |-> c]
  /\ pc' = "open" /\ cancel' = FALSE /\ client' = Before(spec')
  /\ UNCHANGED <<server, snap, tables, idx, left, batch, out, stats, result, moments>>

CancelDump ==
  /\ pc \notin {"idle", "ended"} /\ ~cancel /\ cancel' = TRUE
  /\ UNCHANGED <<pc, spec, server, snap, tables, idx, left, batch, out, client, stats, result, moments>>

\* Another session commits: a row comes, goes or moves to another table.
Commit ==
  /\ pc \notin {"idle", "ended"} /\ Cardinality(moments) <= MaxCommits
  /\ \E r \in RowIds, x \in BaseTables \cup {"nowhere"} : server' = [server EXCEPT ![r] = x]
  /\ moments' = moments \cup {server'}
  /\ UNCHANGED <<pc, spec, snap, tables, idx, left, batch, out, client, stats, cancel, result>>

-----------------------------------------------------------------------------
(* run() and write_all().                                                  *)

End(how) == pc' = "ended" /\ result' = how

\* The tables that were ticked, in name order; none is all of them.
Wanted == IF spec.tables = {} THEN Listed ELSE spec.tables
Picked ==
  {q \in UNION {[1..n -> Wanted] : n \in 0..Len(Order)} :
     /\ Range(q) = Wanted
     /\ \A i, k \in DOMAIN q : i < k =>
          \E a, b \in DOMAIN Order : a < b /\ Order[a] = q[i] /\ Order[b] = q[k]}

\* The tables, the file, the transaction, the preamble.
OpenFile ==
  /\ pc = "open" /\ pc' = "table" /\ snap' = server
  /\ tables' \in Picked
  /\ Write(<<Part("preamble", "", <<>>)>>)
  /\ UNCHANGED <<spec, server, idx, left, batch, stats, cancel, result, moments>>

\* Mutant: no START TRANSACTION WITH CONSISTENT SNAPSHOT.
SeenNow == server

\* What a statement of the dump reads: the transaction's snapshot, or what
\* is committed when the statement starts.
Seen == IF spec.consistent THEN snap ELSE server

\* A statement or a write fails: the error ends the job, the file stays.
DumpFails ==
  /\ pc \in {"open", "table", "select", "row", "last"} /\ End("failed")
  /\ UNCHANGED <<spec, server, snap, tables, idx, left, batch, out, client, stats, cancel, moments>>

\* The next table: its heading and its DDL, unless the flag is up.
Structure(x) ==
  (IF spec.drop THEN <<Part("drop", x, <<>>)>> ELSE <<>>) \o <<Part("create", x, <<>>)>>

NextTable ==
  /\ pc = "table" /\ idx <= Len(tables)
  /\ IF cancel
     THEN /\ Write(<<Part("cancelled", "", <<>>)>>)
          /\ stats' = [stats EXCEPT !.cancelled = TRUE] /\ End("ok") /\ UNCHANGED idx
     ELSE /\ IF wants_structure(spec.mode) THEN Write(Structure(tables[idx])) ELSE UNCHANGED <<out, client>>
          /\ IF wants_data(spec.mode)
             THEN pc' = "select" /\ UNCHANGED <<idx, stats>>
             ELSE pc' = "table" /\ idx' = idx + 1 /\ stats' = [stats EXCEPT !.tables = @ + 1]
          /\ UNCHANGED result
  /\ UNCHANGED <<spec, server, snap, tables, left, batch, cancel, moments>>

\* Every table is written: the epilogue, and the flag as it now is.
Epilogue ==
  /\ pc = "table" /\ idx > Len(tables)
  /\ Write(<<Part("epilogue", "", <<>>)>>)
  /\ stats' = [stats EXCEPT !.cancelled = cancel] /\ End("ok")
  /\ UNCHANGED <<spec, server, snap, tables, idx, left, batch, cancel, moments>>

-----------------------------------------------------------------------------
(* write_table_data().                                                     *)

Select ==
  /\ pc = "select" /\ pc' = "row" /\ left' = Content(Seen, tables[idx])
  /\ UNCHANGED <<spec, server, snap, tables, idx, batch, out, client, stats, cancel, result, moments>>

Bytes(b) == FoldLeft(LAMBDA s, r : s + Weight[r], 0, b)
Full(b) == Len(b) >= BatchRows \/ Bytes(b) >= BatchBytes

\* A row comes: the flag ends the loop, a full batch is written.
ReadRow ==
  /\ pc = "row" /\ left # {}
  /\ \E r \in left : LET b == Append(batch, r) IN
        /\ \A o \in left : r <= o
        /\ IF cancel THEN pc' = "last" /\ left' = {} /\ UNCHANGED <<batch, out, client, stats>>
           ELSE /\ left' = left \ {r} /\ pc' = "row"
                /\ stats' = [stats EXCEPT !.rows = @ + 1]
                /\ IF Full(b) THEN Write(<<Part("insert", tables[idx], b)>>) /\ batch' = <<>>
                   ELSE batch' = b /\ UNCHANGED <<out, client>>
  /\ UNCHANGED <<spec, server, snap, tables, idx, cancel, result, moments>>

NoMoreRows ==
  /\ pc = "row" /\ left = {} /\ pc' = "last"
  /\ UNCHANGED <<spec, server, snap, tables, idx, left, batch, out, client, stats, cancel, result, moments>>

\* Mutant: what the last full batch left over is forgotten.
RemainderLost ==
  /\ pc = "last" /\ pc' = "table" /\ idx' = idx + 1 /\ batch' = <<>> /\ UNCHANGED <<out, client>>
  /\ stats' = [stats EXCEPT !.tables = @ + 1]
  /\ UNCHANGED <<spec, server, snap, tables, left, cancel, result, moments>>

\* The rows that did not fill a batch.
Remainder ==
  /\ pc = "last" /\ pc' = "table" /\ idx' = idx + 1 /\ batch' = <<>>
  /\ IF batch # <<>> THEN Write(<<Part("insert", tables[idx], batch)>>) ELSE UNCHANGED <<out, client>>
  /\ stats' = [stats EXCEPT !.tables = @ + 1]
  /\ UNCHANGED <<spec, server, snap, tables, left, cancel, result, moments>>

DumpNext ==
  \/ StartDump \/ CancelDump \/ Commit
  \/ OpenFile \/ NextTable \/ Epilogue \/ DumpFails
  \/ Select \/ ReadRow \/ NoMoreRows \/ Remainder

DumpSpec == DumpInit /\ [][DumpNext]_dumpVars

-----------------------------------------------------------------------------

Finished == result = "ok" /\ ~stats.cancelled

Dumped == Range(tables)
FileHas(d, x) ==
  LET of == {r \in RowIds : \E i \in DOMAIN out : out[i].kind = "insert"
                              /\ StoredIn(out[i].table) = StoredIn(x) /\ r \in Range(out[i].rows)}
  IN of = IF wants_data(spec.mode) THEN Content(d, x) ELSE {}

\* README.md:491: "a restorable .sql file".  A dump that says finished, of
\* every table its views select from, runs to its end without an error, and the
\* client then has of each table what was in it at one moment since the dump began.
DumpRestores ==
  Finished /\ (\A v \in Dumped \cap DOMAIN BaseOf : BaseOf[v] \in Dumped) =>
    /\ client.ok
    /\ \A x \in Dumped : \E d \in moments :
         {r \in RowIds : <<r, StoredIn(x)>> \in client.rows}
           = IF wants_data(spec.mode) THEN Content(d, x) ELSE {}

\* README.md:497-499: with the snapshot the file is one point in time and no
\* smear: there is a moment at which every table held what the file has of it.
FileIsOneMoment ==
  Finished /\ spec.consistent => \E d \in moments : \A x \in Dumped : FileHas(d, x)

\* README.md:502-503: "Cancelling ... leaves a valid, truncated file marked
\* cancelled by the user": a file that lacks rows of a table is marked.
CancelledIsMarked ==
  result = "ok" /\ stats.cancelled /\ (\E x \in Dumped : \A d \in moments : ~FileHas(d, x)) =>
    \E i \in DOMAIN out : out[i].kind = "cancelled"
=============================================================================
