------------------------------ MODULE DeskProofs ------------------------------
(* The parts of the program that work alone on one thing: a dump, a set of  *)
(* indexes, a statement to format, a deadlock report.  For any tables and   *)
(* rows, any indexes, any statement and any two sides of a deadlock.        *)
EXTENDS Dump, Advisor, Formatter, Deadlock, FiniteSetTheorems, SequenceTheorems,
        WellFoundedInduction, TLAPS

-----------------------------------------------------------------------------
(* Numbers.                                                                *)

\* Of any numbers one is the least.
LEMMA LeastOf ==
  ASSUME NEW T, T \subseteq Nat, T # {}
  PROVE  \E x \in T : \A y \in T : x <= y
<1> DEFINE F == {0..n : n \in T}
           R == StrictSubsetOrdering(Nat)
<1>1. F \subseteq FiniteSubsetsOf(Nat) /\ F # {}
  <2>1. ASSUME NEW n \in T PROVE 0..n \subseteq Nat /\ IsFiniteSet(0..n)
    BY FS_Interval
  <2> QED
    BY <2>1 DEF FiniteSubsetsOf
<1>2. IsWellFoundedOn(R, FiniteSubsetsOf(Nat))
  BY FS_StrictSubsetOrderingWellFounded
<1> HIDE DEF F, R
<1>3. PICK X \in F : \A Y \in F : ~(<<Y, X>> \in R)
  BY <1>1, <1>2, WFMin
<1>4. PICK x \in T : X = 0..x
  BY DEF F
<1>5. ASSUME NEW y \in T, y < x PROVE FALSE
  <2>1. 0..y \in F /\ 0..y \in SUBSET Nat /\ 0..x \in SUBSET Nat
    BY DEF F
  <2>2. 0..y \subseteq 0..x /\ x \in 0..x /\ x \notin 0..y
    BY <1>5
  <2>3. <<0..y, 0..x>> \in R
    BY <2>1, <2>2 DEF R, StrictSubsetOrdering
  <2> QED
    BY <1>3, <1>4, <2>1, <2>3
<1> QED
  BY <1>5

-----------------------------------------------------------------------------
(* Sequences, as sets of what is in them.                                  *)

LEMMA RangeJoined ==
  ASSUME NEW S, NEW a \in Seq(S), NEW b \in Seq(S)
  PROVE  a \o b \in Seq(S) /\ Range(a \o b) = Range(a) \cup Range(b)
<1>1. /\ a \o b \in Seq(S) /\ Len(a \o b) = Len(a) + Len(b)
      /\ \A k \in 1..Len(a) + Len(b) :
           (a \o b)[k] = IF k <= Len(a) THEN a[k] ELSE b[k - Len(a)]
  BY ConcatProperties
<1>2. /\ Len(a) \in Nat /\ Len(b) \in Nat /\ DOMAIN a = 1..Len(a) /\ DOMAIN b = 1..Len(b)
      /\ DOMAIN (a \o b) = 1..Len(a) + Len(b)
  BY <1>1, LenProperties
<1> DEFINE c == a \o b
<1> HIDE DEF c
<1>3. \A k \in 1..Len(a) : k \in DOMAIN c /\ c[k] = a[k]
  BY <1>1, <1>2 DEF c
<1>4. ASSUME NEW k \in 1..Len(b) PROVE Len(a) + k \in DOMAIN c /\ c[Len(a) + k] = b[k]
  <2>1. Len(a) + k \in 1..Len(a) + Len(b) /\ ~(Len(a) + k <= Len(a)) /\ Len(a) + k - Len(a) = k
    BY <1>2
  <2> QED
    BY <1>1, <1>2, <2>1 DEF c
<1>5. ASSUME NEW k \in DOMAIN c
      PROVE  (k \in DOMAIN a /\ c[k] = a[k]) \/ (k - Len(a) \in DOMAIN b /\ c[k] = b[k - Len(a)])
  <2>1. k \in 1..Len(a) + Len(b)
    BY <1>2 DEF c
  <2>2. CASE k <= Len(a)
    BY <1>1, <1>2, <2>1, <2>2 DEF c
  <2>3. CASE ~(k <= Len(a))
    BY <1>1, <1>2, <2>1, <2>3 DEF c
  <2> QED
    BY <2>2, <2>3
<1>6. Range(c) = Range(a) \cup Range(b)
  <2>1. \A x \in Range(c) : x \in Range(a) \cup Range(b)
    BY <1>5 DEF Range
  <2>2. \A x \in Range(a) \cup Range(b) : x \in Range(c)
    BY <1>2, <1>3, <1>4 DEF Range
  <2> QED
    BY <2>1, <2>2
<1> QED
  BY <1>1, <1>6 DEF c

LEMMA RangeOfOne ==
  ASSUME NEW S, NEW x \in S
  PROVE  <<x>> \in Seq(S) /\ Range(<<x>>) = {x}
BY DEF Range

LEMMA RangeAppended ==
  ASSUME NEW S, NEW a \in Seq(S), NEW x \in S
  PROVE  Append(a, x) \in Seq(S) /\ Range(Append(a, x)) = Range(a) \cup {x}
<1>1. /\ Append(a, x) \in Seq(S) /\ Len(Append(a, x)) = Len(a) + 1
      /\ Append(a, x)[Len(a) + 1] = x
      /\ \A k \in 1..Len(a) : Append(a, x)[k] = a[k]
  BY AppendProperties
<1>2. Len(a) \in Nat /\ DOMAIN a = 1..Len(a) /\ DOMAIN Append(a, x) = 1..Len(a) + 1
  BY <1>1, LenProperties
<1>3. \A k \in 1..Len(a) + 1 : k \in 1..Len(a) \/ k = Len(a) + 1
  BY <1>2
<1>4. Len(a) + 1 \in 1..Len(a) + 1 /\ \A k \in 1..Len(a) : k \in 1..Len(a) + 1
  BY <1>2
<1> QED
  BY <1>1, <1>2, <1>3, <1>4 DEF Range

-----------------------------------------------------------------------------
(* One dump.  While it runs, the file has of each table that is written all *)
(* that the snapshot has, and of the table at hand what is no longer to be  *)
(* read and not in the batch.                                              *)

Kinds == {"preamble", "cancelled", "epilogue", "drop", "create", "insert"}
OutPart == [kind : Kinds, table : Listed \cup {""}, rows : Seq(RowIds)]
HasRow(x, r) == \E p \in Range(out) : p.kind = "insert" /\ p.table = x /\ r \in Range(p.rows)
Has(x, S) == \A r \in S : HasRow(x, r)

DumpTypes ==
  /\ spec \in [mode : Modes, tables : SUBSET Listed, drop : BOOLEAN, consistent : BOOLEAN]
  /\ pc \in {"idle", "open", "table", "select", "row", "last", "ended"}
  /\ tables \in Seq(Listed) /\ idx \in Nat \ {0}
  /\ left \subseteq RowIds /\ batch \in Seq(RowIds) /\ out \in Seq(OutPart)
  /\ stats \in [tables : Nat, rows : Nat, cancelled : BOOLEAN] /\ cancel \in BOOLEAN
  /\ result \in {"none", "ok", "failed"}

DumpStage ==
  /\ server \in moments /\ snap \in moments
  /\ pc \in {"idle", "open"} => out = <<>> /\ idx = 1
  /\ pc \in {"idle", "open", "table", "select"} => batch = <<>>
  /\ pc \in {"select", "row", "last"} => wants_data(spec.mode) /\ idx \in DOMAIN tables
  /\ pc = "last" => left = {}
  /\ result = "ok" => pc = "ended"
  /\ Finished => ~cancel /\ idx > Len(tables)

\* Nothing is written or kept that the snapshot does not have.
NothingElse ==
  /\ \A p \in Range(out) : p.kind = "insert" =>
       wants_data(spec.mode) /\ Range(p.rows) \subseteq Content(snap, p.table)
  /\ pc \in {"row", "last"} => left \cup Range(batch) \subseteq Content(snap, tables[idx])

\* Nothing of it is missing, unless the user cancels.
AllOfIt ==
  wants_data(spec.mode) /\ ~cancel =>
    /\ \A k \in DOMAIN tables : k < idx => Has(tables[k], Content(snap, tables[k]))
    /\ pc \in {"row", "last"} =>
         Has(tables[idx], Content(snap, tables[idx]) \ (left \cup Range(batch)))

DumpInv == DumpTypes /\ DumpStage /\ (spec.consistent => NothingElse /\ AllOfIt)

\* What is written stays, and more joins it.
LEMMA FileGrows ==
  ASSUME NEW q \in Seq(OutPart), out \in Seq(OutPart), Write(q)
  PROVE  /\ out' \in Seq(OutPart) /\ Range(out') = Range(out) \cup Range(q)
         /\ \A x, r : HasRow(x, r) => HasRow(x, r)'
<1>1. out' \in Seq(OutPart) /\ Range(out') = Range(out) \cup Range(q)
  BY RangeJoined DEF Write
<1> QED
  BY <1>1 DEF HasRow

LEMMA DumpInitially == DumpInit => DumpInv
<1> SUFFICES ASSUME DumpInit PROVE DumpInv
  OBVIOUS
<1>1. /\ pc = "idle" /\ spec = NoSpec /\ tables = <<>> /\ idx = 1 /\ left = {} /\ batch = <<>>
      /\ snap = server /\ moments = {server} /\ out = <<>>
      /\ stats = [tables |-> 0, rows |-> 0, cancelled |-> FALSE]
      /\ cancel = FALSE /\ result = "none"
  BY DEF DumpInit
<1>2. tables \in Seq(Listed) /\ batch \in Seq(RowIds) /\ out \in Seq(OutPart)
  BY <1>1, EmptySeq
<1>3. DumpTypes
  <2>1. spec \in [mode : Modes, tables : SUBSET Listed, drop : BOOLEAN, consistent : BOOLEAN]
    BY <1>1 DEF NoSpec, Modes
  <2>2. stats \in [tables : Nat, rows : Nat, cancelled : BOOLEAN]
    BY <1>1
  <2>3. pc \in {"idle", "open", "table", "select", "row", "last", "ended"}
    BY <1>1
  <2>4. idx \in Nat \ {0} /\ left \subseteq RowIds
    BY <1>1
  <2>5. cancel \in BOOLEAN /\ result \in {"none", "ok", "failed"}
    BY <1>1
  <2> QED
    BY <1>2, <2>1, <2>2, <2>3, <2>4, <2>5 DEF DumpTypes
<1>4. DOMAIN out = {} /\ DOMAIN tables = {}
  BY <1>1
<1> QED
  BY <1>1, <1>3, <1>4 DEF DumpInv, DumpStage, NothingElse, AllOfIt, Finished, Range, Has

\* Steps that read nothing of the server and write no row.
LEMMA NoRowWritten ==
  ASSUME DumpTypes, NothingElse, AllOfIt, UNCHANGED <<spec, snap, tables, left, batch>>,
         idx' = idx \/ (~wants_data(spec.mode) /\ pc' \notin {"row", "last"}),
         cancel => cancel', cancel' \in BOOLEAN,
         pc' \in {"row", "last"} => pc \in {"row", "last"},
         \/ out' = out
         \/ \E q \in Seq(OutPart) : Write(q) /\ \A p \in Range(q) : p.kind # "insert"
  PROVE  NothingElse' /\ AllOfIt'
<1>1. /\ \A p \in Range(out') : p.kind = "insert" => p \in Range(out)
      /\ \A x, r : HasRow(x, r) => HasRow(x, r)'
  <2>1. CASE out' = out
    BY <2>1 DEF HasRow
  <2>2. ASSUME NEW q \in Seq(OutPart), Write(q), \A p \in Range(q) : p.kind # "insert"
        PROVE  /\ \A p \in Range(out') : p.kind = "insert" => p \in Range(out)
               /\ \A x, r : HasRow(x, r) => HasRow(x, r)'
    BY <2>2, FileGrows DEF DumpTypes
  <2> QED
    BY <2>1, <2>2
<1>2. \A x, S : Has(x, S) => Has(x, S)'
  BY <1>1 DEF Has
<1>3. \A x : Content(snap, x)' = Content(snap, x)
  BY DEF Content
<1>4. NothingElse'
  BY <1>1, <1>3 DEF NothingElse
<1>5. AllOfIt'
  <2> SUFFICES ASSUME wants_data(spec.mode), ~cancel'
               PROVE  /\ \A k \in DOMAIN tables : k < idx =>
                           Has(tables[k], Content(snap, tables[k]))'
                      /\ pc' \in {"row", "last"} =>
                           Has(tables[idx], Content(snap, tables[idx]) \ (left \cup Range(batch)))'
    BY DEF AllOfIt
  <2>1. ~cancel /\ idx' = idx
    OBVIOUS
  <2>2. ASSUME NEW k \in DOMAIN tables, k < idx
        PROVE  Has(tables[k], Content(snap, tables[k]))'
    <3>1. Has(tables[k], Content(snap, tables[k]))
      BY <2>1, <2>2 DEF AllOfIt
    <3> QED
      BY <1>1, <3>1 DEF Has, Content
  <2>3. ASSUME pc' \in {"row", "last"}
        PROVE  Has(tables[idx], Content(snap, tables[idx]) \ (left \cup Range(batch)))'
    <3>1. Has(tables[idx], Content(snap, tables[idx]) \ (left \cup Range(batch)))
      BY <2>1, <2>3 DEF AllOfIt
    <3> QED
      BY <1>1, <2>1, <3>1 DEF Has, Content
  <2> QED
    BY <2>1, <2>2, <2>3
<1> QED
  BY <1>4, <1>5

LEMMA StartDumpKeeps ==
  ASSUME DumpInv, StartDump PROVE DumpInv'
<1>1. /\ pc = "idle" /\ pc' = "open" /\ cancel' = FALSE
      /\ spec' \in [mode : Modes, tables : SUBSET Listed, drop : BOOLEAN, consistent : BOOLEAN]
      /\ UNCHANGED <<server, snap, tables, idx, left, batch, out, stats, result, moments>>
  BY DEF StartDump, Tickable
<1>2. out = <<>> /\ idx = 1 /\ batch = <<>> /\ result # "ok"
  BY <1>1 DEF DumpInv, DumpStage
<1>3. DumpTypes'
  BY <1>1 DEF DumpInv, DumpTypes
<1>4. DumpStage'
  BY <1>1, <1>2 DEF DumpInv, DumpStage, Finished
<1>5. Range(out') = {} /\ idx' = 1 /\ DOMAIN tables' \subseteq Nat \ {0}
  BY <1>1, <1>2, LenProperties DEF Range, DumpInv, DumpTypes
<1>6. NothingElse' /\ AllOfIt'
  BY <1>1, <1>5 DEF NothingElse, AllOfIt
<1> QED
  BY <1>3, <1>4, <1>6 DEF DumpInv

\* The user, the other sessions, and what goes wrong.
LEMMA OutsideKeeps ==
  ASSUME DumpInv, CancelDump \/ Commit \/ DumpFails \/ NoMoreRows PROVE DumpInv'
<1>1. /\ UNCHANGED <<spec, snap, tables, idx, left, batch, out, stats>>
      /\ pc' = pc \/ pc' = "ended" \/ (pc = "row" /\ left = {} /\ pc' = "last")
      /\ result' = result \/ (pc' = "ended" /\ result' = "failed")
      /\ cancel' = cancel \/ (cancel' = TRUE /\ pc \notin {"idle", "ended"} /\ result' = result)
      /\ moments \subseteq moments' /\ server' \in moments' \cup {server}
  BY DEF CancelDump, Commit, DumpFails, NoMoreRows, End
<1>2. DumpTypes'
  BY <1>1 DEF DumpInv, DumpTypes
<1>3. DumpStage'
  <2>1. pc' # "ended" => pc # "ended"
    BY DEF CancelDump, Commit, DumpFails, NoMoreRows, End
  <2>2. pc' = "ended" => result' # "ok" \/ (pc = "ended" /\ cancel' = cancel /\ result' = result)
    <3>1. result = "ok" => pc = "ended"
      BY DEF DumpInv, DumpStage
    <3>2. CancelDump \/ Commit \/ NoMoreRows => pc # "ended" /\ pc' # "ended"
      BY DEF CancelDump, Commit, NoMoreRows
    <3>3. DumpFails => result' = "failed"
      BY DEF DumpFails, End
    <3> QED
      BY <3>2, <3>3
  <2>3. result' = "ok" => pc' = "ended"
    BY <1>1, <2>1 DEF DumpInv, DumpStage, CancelDump, Commit, DumpFails, NoMoreRows, End
  <2>4. Finished' => ~cancel' /\ idx' > Len(tables')
    <3> SUFFICES ASSUME Finished' PROVE ~cancel' /\ idx' > Len(tables')
      OBVIOUS
    <3>1. pc' = "ended" /\ result' = "ok" /\ ~stats.cancelled
      BY <1>1, <2>3 DEF Finished
    <3>2. Finished /\ cancel' = cancel
      BY <2>2, <3>1 DEF Finished
    <3> QED
      BY <1>1, <3>2 DEF DumpInv, DumpStage
  <2> QED
    BY <1>1, <2>3, <2>4 DEF DumpInv, DumpStage
<1>4. cancel' \in BOOLEAN /\ (cancel => cancel')
  BY <1>1, <1>2 DEF DumpTypes
<1>5. spec.consistent => NothingElse' /\ AllOfIt'
  BY <1>1, <1>4, NoRowWritten DEF DumpInv
<1> QED
  BY <1>1, <1>2, <1>3, <1>5 DEF DumpInv

LEMMA PartType ==
  ASSUME NEW kind \in Kinds, NEW x \in Listed \cup {""}, NEW rows \in Seq(RowIds)
  PROVE  /\ Part(kind, x, rows) \in OutPart
         /\ Part(kind, x, rows).kind = kind /\ Part(kind, x, rows).table = x
         /\ Part(kind, x, rows).rows = rows
BY DEF Part, OutPart

\* The headings and the statements that make a table are no rows.
LEMMA HeadingType ==
  \A kind \in {"preamble", "cancelled", "epilogue"} :
    /\ <<Part(kind, "", <<>>)>> \in Seq(OutPart)
    /\ \A p \in Range(<<Part(kind, "", <<>>)>>) : p.kind # "insert"
<1>1. <<>> \in Seq(RowIds)
  BY EmptySeq
<1>2. ASSUME NEW kind \in {"preamble", "cancelled", "epilogue"}
      PROVE  Part(kind, "", <<>>) \in OutPart /\ Part(kind, "", <<>>).kind # "insert"
  BY <1>1, PartType DEF Kinds
<1>3. ASSUME NEW kind \in {"preamble", "cancelled", "epilogue"}
      PROVE  /\ <<Part(kind, "", <<>>)>> \in Seq(OutPart)
             /\ \A p \in Range(<<Part(kind, "", <<>>)>>) : p.kind # "insert"
  <2> DEFINE h == Part(kind, "", <<>>)
  <2>1. h \in OutPart /\ h.kind # "insert"
    BY <1>2
  <2> HIDE DEF h
  <2>2. <<h>> \in Seq(OutPart) /\ Range(<<h>>) = {h}
    BY <2>1, RangeOfOne
  <2>3. <<h>> \in Seq(OutPart) /\ \A p \in Range(<<h>>) : p.kind # "insert"
    BY <2>1, <2>2
  <2> QED
    BY <2>3 DEF h
<1> QED
  BY <1>3

LEMMA MuteParts ==
  ASSUME NEW x \in Listed
  PROVE  /\ Structure(x) \in Seq(OutPart)
         /\ \A p \in Range(Structure(x)) : p.kind # "insert"
<1>1. <<>> \in Seq(RowIds)
  BY EmptySeq
<1>2. ASSUME NEW kind \in {"drop", "create"},
             NEW y \in Listed
      PROVE  Part(kind, y, <<>>) \in OutPart /\ Part(kind, y, <<>>).kind # "insert"
  BY <1>1, PartType DEF Kinds
<1>3. \A kind \in {"drop", "create"}, y \in Listed :
        /\ <<Part(kind, y, <<>>)>> \in Seq(OutPart)
        /\ Range(<<Part(kind, y, <<>>)>>) = {Part(kind, y, <<>>)}
  BY <1>2, RangeOfOne
<1> DEFINE d == IF spec.drop THEN <<Part("drop", x, <<>>)>> ELSE <<>>
           c == <<Part("create", x, <<>>)>>
<1>4. d \in Seq(OutPart) /\ \A p \in Range(d) : p.kind # "insert"
  <2>1. CASE spec.drop
    BY <1>2, <1>3, <2>1
  <2>2. CASE ~spec.drop
    <3>1. d = <<>> /\ d \in Seq(OutPart)
      BY <2>2, EmptySeq
    <3> QED
      BY <3>1 DEF Range
  <2> QED
    BY <2>1, <2>2
<1>5. c \in Seq(OutPart) /\ \A p \in Range(c) : p.kind # "insert"
  BY <1>2, <1>3
<1>6. Structure(x) = d \o c
  BY DEF Structure
<1> HIDE DEF d, c
<1>7. d \o c \in Seq(OutPart) /\ Range(d \o c) = Range(d) \cup Range(c)
  BY <1>4, <1>5, RangeJoined
<1> QED
  BY <1>4, <1>5, <1>6, <1>7

LEMMA OpenFileKeeps ==
  ASSUME DumpInv, OpenFile PROVE DumpInv'
<1>1. /\ pc = "open" /\ pc' = "table" /\ snap' = server /\ tables' \in Picked
      /\ Write(<<Part("preamble", "", <<>>)>>)
      /\ UNCHANGED <<spec, server, idx, left, batch, stats, cancel, result, moments>>
  BY DEF OpenFile
<1>2. out = <<>> /\ idx = 1 /\ batch = <<>> /\ server \in moments /\ result # "ok"
  BY <1>1 DEF DumpInv, DumpStage
<1> DEFINE q == <<Part("preamble", "", <<>>)>>
<1>3. q \in Seq(OutPart) /\ \A p \in Range(q) : p.kind # "insert"
  BY HeadingType
<1> HIDE DEF q
<1>4. out' \in Seq(OutPart) /\ Range(out') = Range(out) \cup Range(q)
  BY <1>1, <1>3, FileGrows DEF q, DumpInv, DumpTypes
<1>5. Wanted \subseteq Listed
  BY DEF Wanted, DumpInv, DumpTypes
<1>6. tables' \in Seq(Listed)
  <2>1. PICK n \in 0..Len(Order) : tables' \in [1..n -> Wanted]
    BY <1>1 DEF Picked
  <2>2. n \in Nat
    BY <2>1, LenProperties, DumpAssumption
  <2>3. tables' \in [1..n -> Listed]
    BY <1>5, <2>1
  <2> QED
    BY <2>2, <2>3
<1>7. DumpTypes'
  BY <1>1, <1>4, <1>6 DEF DumpInv, DumpTypes
<1>8. DumpStage'
  BY <1>1, <1>2 DEF DumpInv, DumpStage, Finished
<1>9. NothingElse' /\ AllOfIt'
  <2>1. Range(out) = {} /\ DOMAIN tables' \subseteq Nat \ {0}
    BY <1>2, <1>6, LenProperties DEF Range
  <2>2. idx' = 1 /\ pc' \notin {"row", "last"} /\ \A p \in Range(out') : p.kind # "insert"
    BY <1>1, <1>2, <1>3, <1>4, <2>1
  <2>3. \A k \in DOMAIN tables' : ~(k < idx')
    BY <2>1, <2>2
  <2> QED
    BY <2>2, <2>3 DEF NothingElse, AllOfIt
<1> QED
  BY <1>7, <1>8, <1>9 DEF DumpInv

LEMMA NextTableKeeps ==
  ASSUME DumpInv, NextTable PROVE DumpInv'
<1>1. /\ pc = "table" /\ idx <= Len(tables)
      /\ UNCHANGED <<spec, server, snap, tables, left, batch, cancel, moments>>
  BY DEF NextTable
<1>2. /\ tables \in Seq(Listed) /\ idx \in Nat \ {0} /\ DOMAIN tables = 1..Len(tables)
      /\ Len(tables) \in Nat
  BY LenProperties DEF DumpInv, DumpTypes
<1>3. idx \in DOMAIN tables /\ tables[idx] \in Listed
  BY <1>1, <1>2
<1>4. \/ out' = out
      \/ \E q \in Seq(OutPart) : Write(q) /\ \A p \in Range(q) : p.kind # "insert"
  <2>1. CASE cancel
    BY <2>1, HeadingType DEF NextTable
  <2>2. CASE ~cancel /\ wants_structure(spec.mode)
    BY <1>3, <2>2, MuteParts DEF NextTable
  <2>3. CASE ~cancel /\ ~wants_structure(spec.mode)
    BY <2>3 DEF NextTable
  <2> QED
    BY <2>1, <2>2, <2>3
<1>5. out' \in Seq(OutPart)
  BY <1>4, FileGrows DEF DumpInv, DumpTypes
<1>6. result # "ok" /\ batch = <<>> /\ server \in moments /\ snap \in moments
  BY <1>1 DEF DumpInv, DumpStage
<1>7. stats \in [tables : Nat, rows : Nat, cancelled : BOOLEAN]
  BY DEF DumpInv, DumpTypes
<1>8. CASE cancel
  <2>1. /\ stats' = [stats EXCEPT !.cancelled = TRUE] /\ pc' = "ended" /\ result' = "ok"
        /\ idx' = idx
    BY <1>8 DEF NextTable, End
  <2>2. stats' \in [tables : Nat, rows : Nat, cancelled : BOOLEAN] /\ stats'.cancelled = TRUE
    BY <1>7, <2>1
  <2>3. DumpTypes'
    BY <1>1, <1>5, <2>1, <2>2 DEF DumpInv, DumpTypes
  <2>4. DumpStage'
    BY <1>1, <1>6, <2>1, <2>2 DEF DumpStage, Finished
  <2>5. spec.consistent => NothingElse' /\ AllOfIt'
    BY <1>1, <1>4, <2>1, <2>3, NoRowWritten DEF DumpInv, DumpTypes
  <2> QED
    BY <1>1, <2>3, <2>4, <2>5 DEF DumpInv
<1>9. CASE ~cancel /\ wants_data(spec.mode)
  <2>1. pc' = "select" /\ UNCHANGED <<idx, stats, result>>
    BY <1>9 DEF NextTable
  <2>2. DumpTypes'
    BY <1>1, <1>5, <2>1 DEF DumpInv, DumpTypes
  <2>3. DumpStage'
    BY <1>1, <1>3, <1>6, <1>9, <2>1 DEF DumpStage, Finished
  <2>4. spec.consistent => NothingElse' /\ AllOfIt'
    BY <1>1, <1>4, <2>1, <2>2, NoRowWritten DEF DumpInv, DumpTypes
  <2> QED
    BY <1>1, <2>2, <2>3, <2>4 DEF DumpInv
<1>10. CASE ~cancel /\ ~wants_data(spec.mode)
  <2>1. /\ pc' = "table" /\ idx' = idx + 1 /\ UNCHANGED result
        /\ stats' = [stats EXCEPT !.tables = @ + 1]
    BY <1>10 DEF NextTable
  <2>2. stats' \in [tables : Nat, rows : Nat, cancelled : BOOLEAN] /\ idx' \in Nat \ {0}
    BY <1>2, <1>7, <2>1
  <2>3. DumpTypes'
    BY <1>1, <1>5, <2>1, <2>2 DEF DumpInv, DumpTypes
  <2>4. DumpStage'
    BY <1>1, <1>6, <2>1 DEF DumpStage, Finished
  <2>5. spec.consistent => NothingElse' /\ AllOfIt'
    BY <1>1, <1>4, <1>10, <2>1, <2>3, NoRowWritten DEF DumpInv, DumpTypes
  <2> QED
    BY <1>1, <2>3, <2>4, <2>5 DEF DumpInv
<1> QED
  BY <1>8, <1>9, <1>10

LEMMA EpilogueKeeps ==
  ASSUME DumpInv, Epilogue PROVE DumpInv'
<1>1. /\ pc = "table" /\ idx > Len(tables) /\ pc' = "ended" /\ result' = "ok"
      /\ stats' = [stats EXCEPT !.cancelled = cancel]
      /\ Write(<<Part("epilogue", "", <<>>)>>)
      /\ UNCHANGED <<spec, server, snap, tables, idx, left, batch, cancel, moments>>
  BY DEF Epilogue, End
<1>2. \E q \in Seq(OutPart) : Write(q) /\ \A p \in Range(q) : p.kind # "insert"
  BY <1>1, HeadingType
<1>3. out' \in Seq(OutPart)
  BY <1>2, FileGrows DEF DumpInv, DumpTypes
<1>4. stats' \in [tables : Nat, rows : Nat, cancelled : BOOLEAN] /\ stats'.cancelled = cancel
  BY <1>1 DEF DumpInv, DumpTypes
<1>5. DumpTypes'
  BY <1>1, <1>3, <1>4 DEF DumpInv, DumpTypes
<1>6. DumpStage'
  BY <1>1, <1>4 DEF DumpInv, DumpStage, Finished
<1>7. spec.consistent => NothingElse' /\ AllOfIt'
  BY <1>1, <1>2, <1>5, NoRowWritten DEF DumpInv, DumpTypes
<1> QED
  BY <1>1, <1>5, <1>6, <1>7 DEF DumpInv

\* The rows that are to be read are those of the snapshot.
LEMMA SelectKeeps ==
  ASSUME DumpInv, Select PROVE DumpInv'
<1>1. /\ pc = "select" /\ pc' = "row" /\ left' = Content(Seen, tables[idx])
      /\ UNCHANGED <<spec, server, snap, tables, idx, batch, out, stats, cancel, result, moments>>
  BY DEF Select
<1>2. batch = <<>> /\ Range(batch) = {} /\ left' \subseteq RowIds
  BY <1>1 DEF DumpInv, DumpStage, Range, Content
<1>3. DumpTypes'
  BY <1>1, <1>2 DEF DumpInv, DumpTypes
<1>4. DumpStage'
  BY <1>1 DEF DumpInv, DumpStage, Finished
<1>5. ASSUME spec.consistent PROVE NothingElse' /\ AllOfIt'
  <2>1. left' = Content(snap, tables[idx])
    BY <1>1, <1>5 DEF Seen
  <2>2. NothingElse'
    BY <1>1, <1>2, <1>5, <2>1 DEF DumpInv, NothingElse, Content
  <2>3. ASSUME wants_data(spec.mode), ~cancel, NEW k \in DOMAIN tables, k < idx
        PROVE  Has(tables[k], Content(snap, tables[k]))'
    BY <1>1, <1>5, <2>3 DEF DumpInv, AllOfIt, Has, HasRow, Content
  <2>4. Has(tables[idx], Content(snap, tables[idx]) \ (left \cup Range(batch)))'
    <3>1. Content(snap, tables[idx])' = Content(snap, tables[idx])
      BY <1>1 DEF Content
    <3> QED
      BY <2>1, <3>1 DEF Has
  <2> QED
    BY <1>1, <2>2, <2>3, <2>4 DEF AllOfIt
<1> QED
  BY <1>1, <1>3, <1>4, <1>5 DEF DumpInv

\* A batch is written, or a row joins it.
LEMMA ReadRowKeeps ==
  ASSUME DumpInv, ReadRow PROVE DumpInv'
<1>1. /\ pc = "row" /\ UNCHANGED <<spec, server, snap, tables, idx, cancel, result, moments>>
  BY DEF ReadRow
<1>2. PICK r \in left :
        IF cancel THEN pc' = "last" /\ left' = {} /\ UNCHANGED <<batch, out, stats>>
        ELSE /\ left' = left \ {r} /\ pc' = "row"
             /\ stats' = [stats EXCEPT !.rows = @ + 1]
             /\ IF Full(Append(batch, r))
                THEN Write(<<Part("insert", tables[idx], Append(batch, r))>>) /\ batch' = <<>>
                ELSE batch' = Append(batch, r) /\ UNCHANGED out
  BY DEF ReadRow
<1>3. /\ wants_data(spec.mode) /\ idx \in DOMAIN tables /\ result # "ok" /\ r \in RowIds
      /\ server \in moments /\ snap \in moments
  BY <1>1 DEF DumpInv, DumpTypes, DumpStage
<1>4. tables[idx] \in Listed
  BY <1>3, LenProperties DEF DumpInv, DumpTypes
<1>5. CASE cancel
  <2>1. pc' = "last" /\ left' = {} /\ UNCHANGED <<batch, out, stats>>
    BY <1>2, <1>5
  <2>2. DumpTypes'
    BY <1>1, <2>1 DEF DumpInv, DumpTypes
  <2>3. DumpStage'
    BY <1>1, <1>3, <2>1 DEF DumpStage, Finished
  <2>4. spec.consistent => NothingElse' /\ AllOfIt'
    BY <1>1, <1>5, <2>1 DEF DumpInv, NothingElse, AllOfIt, Content
  <2> QED
    BY <1>1, <2>2, <2>3, <2>4 DEF DumpInv
<1>6. CASE ~cancel
  <2> DEFINE b == Append(batch, r)
             p == Part("insert", tables[idx], b)
  <2>1. /\ left' = left \ {r} /\ pc' = "row" /\ stats' = [stats EXCEPT !.rows = @ + 1]
        /\ \/ Write(<<p>>) /\ batch' = <<>>
           \/ batch' = b /\ UNCHANGED out
    BY <1>2, <1>6
  <2>2. b \in Seq(RowIds) /\ Range(b) = Range(batch) \cup {r}
    BY <1>3, RangeAppended DEF DumpInv, DumpTypes
  <2>3. stats' \in [tables : Nat, rows : Nat, cancelled : BOOLEAN]
    <3>1. stats \in [tables : Nat, rows : Nat, cancelled : BOOLEAN]
      BY DEF DumpInv, DumpTypes
    <3> QED
      BY <2>1, <3>1
  <2> HIDE DEF b
  <2>4. /\ p \in OutPart /\ p.kind = "insert" /\ p.table = tables[idx] /\ p.rows = b
    <3>1. "insert" \in Kinds /\ tables[idx] \in Listed \cup {""} /\ b \in Seq(RowIds)
      BY <1>4, <2>2 DEF Kinds
    <3>2. \A x \in Listed \cup {""}, s \in Seq(RowIds) : Part("insert", x, s) \in OutPart
      BY <3>1, PartType
    <3>3. p.kind = "insert" /\ p.table = tables[idx] /\ p.rows = b
      BY DEF Part
    <3> QED
      BY <3>1, <3>2, <3>3
  <2> HIDE DEF p
  <2>5. <<p>> \in Seq(OutPart) /\ Range(<<p>>) = {p}
    BY <2>4, RangeOfOne
  <2>6. \/ /\ out' \in Seq(OutPart) /\ Range(out') = Range(out) \cup {p}
           /\ batch' = <<>> /\ Range(batch') = {} /\ batch' \in Seq(RowIds)
           /\ \A x, s : HasRow(x, s) => HasRow(x, s)'
        \/ /\ out' = out /\ batch' = b /\ Range(batch') = Range(b)
    <3>1. CASE Write(<<p>>) /\ batch' = <<>>
      <4>1. Range(batch') = {} /\ batch' \in Seq(RowIds)
        BY <3>1, EmptySeq DEF Range
      <4>2. /\ out' \in Seq(OutPart) /\ Range(out') = Range(out) \cup {p}
            /\ \A x, s : HasRow(x, s) => HasRow(x, s)'
        BY <2>5, <3>1, FileGrows DEF DumpInv, DumpTypes
      <4> QED
        BY <3>1, <4>1, <4>2
    <3>2. CASE batch' = b /\ UNCHANGED out
      BY <3>2
    <3> QED
      BY <2>1, <3>1, <3>2
  <2>7. DumpTypes'
    <3>1. out' \in Seq(OutPart) /\ batch' \in Seq(RowIds)
      BY <2>2, <2>6 DEF DumpInv, DumpTypes
    <3> QED
      BY <1>1, <2>1, <2>3, <3>1 DEF DumpInv, DumpTypes
  <2>8. DumpStage'
    BY <1>1, <1>3, <2>1 DEF DumpStage, Finished
  <2>9. ASSUME spec.consistent PROVE NothingElse' /\ AllOfIt'
    <3>1. left \cup Range(b) \subseteq Content(snap, tables[idx])
      BY <1>1, <2>2, <2>9 DEF DumpInv, NothingElse
    <3>2. \A x : Content(snap, x)' = Content(snap, x)
      BY <1>1 DEF Content
    <3>3. NothingElse'
      <4>1. \A o \in Range(out') : o \in Range(out) \/ o = p
        BY <2>6
      <4>2. left' \cup Range(batch') \subseteq Content(snap, tables[idx])
        BY <2>1, <2>6, <3>1
      <4>3. ASSUME NEW o \in Range(out'), o.kind = "insert"
            PROVE  Range(o.rows) \subseteq Content(snap, o.table)
        <5>1. CASE o \in Range(out)
          BY <2>9, <4>3, <5>1 DEF DumpInv, NothingElse
        <5>2. CASE o = p
          BY <2>4, <3>1, <5>2
        <5> QED
          BY <4>1, <5>1, <5>2
      <4> QED
        BY <1>1, <1>3, <3>2, <4>2, <4>3 DEF NothingElse
    <3>4. \A x, s : HasRow(x, s) => HasRow(x, s)'
      BY <2>6 DEF HasRow
    <3>5. ASSUME NEW k \in DOMAIN tables, k < idx
          PROVE  Has(tables[k], Content(snap, tables[k]))'
      <4>1. Has(tables[k], Content(snap, tables[k]))
        BY <1>3, <1>6, <2>9, <3>5 DEF DumpInv, AllOfIt
      <4> QED
        BY <1>1, <3>4, <4>1 DEF Has, Content
    <3>6. Has(tables[idx], Content(snap, tables[idx]) \ (left \cup Range(batch)))'
      <4>1. Has(tables[idx], Content(snap, tables[idx]) \ (left \cup Range(batch)))
        BY <1>1, <1>3, <1>6, <2>9 DEF DumpInv, AllOfIt
      <4> SUFFICES ASSUME NEW s \in Content(snap, tables[idx]),
                          s \notin left', s \notin Range(batch')
                   PROVE  HasRow(tables[idx], s)'
        BY <1>1, <3>2 DEF Has
      <4>2. CASE s \notin left \cup Range(batch)
        <5>1. HasRow(tables[idx], s)
          BY <4>1, <4>2 DEF Has
        <5> QED
          BY <1>1, <3>4, <5>1 DEF HasRow
      <4>3. CASE s \in left \cup Range(batch)
        <5>1. s \in Range(b)
          BY <2>1, <2>2, <4>3
        <5>2. Range(out') = Range(out) \cup {p}
          BY <2>6, <5>1
        <5> QED
          BY <1>1, <2>4, <5>1, <5>2 DEF HasRow
      <4> QED
        BY <4>2, <4>3
    <3> QED
      BY <1>1, <3>3, <3>5, <3>6 DEF AllOfIt
  <2> QED
    BY <1>1, <2>7, <2>8, <2>9 DEF DumpInv
<1> QED
  BY <1>5, <1>6

\* What is left in the batch is written, and the table is done.
LEMMA RemainderKeeps ==
  ASSUME DumpInv, Remainder PROVE DumpInv'
<1>1. /\ pc = "last" /\ pc' = "table" /\ idx' = idx + 1 /\ batch' = <<>>
      /\ IF batch # <<>> THEN Write(<<Part("insert", tables[idx], batch)>>) ELSE UNCHANGED out
      /\ stats' = [stats EXCEPT !.tables = @ + 1]
      /\ UNCHANGED <<spec, server, snap, tables, left, cancel, result, moments>>
  BY DEF Remainder
<1>2. /\ wants_data(spec.mode) /\ idx \in DOMAIN tables /\ result # "ok" /\ left = {}
      /\ server \in moments /\ snap \in moments
  BY <1>1 DEF DumpInv, DumpStage
<1>3. tables[idx] \in Listed /\ idx \in Nat \ {0} /\ DOMAIN tables \subseteq Nat
  BY <1>2, LenProperties DEF DumpInv, DumpTypes
<1> DEFINE p == Part("insert", tables[idx], batch)
<1>4. p \in OutPart /\ p.kind = "insert" /\ p.table = tables[idx] /\ p.rows = batch
  <2>1. "insert" \in Kinds /\ tables[idx] \in Listed \cup {""} /\ batch \in Seq(RowIds)
    BY <1>3 DEF Kinds, DumpInv, DumpTypes
  <2>2. \A x \in Listed \cup {""}, s \in Seq(RowIds) : Part("insert", x, s) \in OutPart
    BY <2>1, PartType
  <2>3. p.kind = "insert" /\ p.table = tables[idx] /\ p.rows = batch
    BY DEF Part
  <2> QED
    BY <2>1, <2>2, <2>3
<1> HIDE DEF p
<1>5. /\ out' \in Seq(OutPart) /\ Range(out') \subseteq Range(out) \cup {p}
      /\ \A s \in Range(batch) : p \in Range(out')
      /\ \A x, s : HasRow(x, s) => HasRow(x, s)'
  <2>1. CASE batch # <<>>
    <3>1. Write(<<p>>)
      BY <1>1, <2>1 DEF p
    <3>2. <<p>> \in Seq(OutPart) /\ Range(<<p>>) = {p}
      BY <1>4, RangeOfOne
    <3> QED
      BY <3>1, <3>2, FileGrows DEF DumpInv, DumpTypes
  <2>2. CASE batch = <<>>
    <3>1. out' = out /\ Range(batch) = {}
      BY <1>1, <2>2 DEF Range
    <3> QED
      BY <3>1 DEF HasRow, DumpInv, DumpTypes
  <2> QED
    BY <2>1, <2>2
<1>6. DumpTypes'
  <2>1. stats \in [tables : Nat, rows : Nat, cancelled : BOOLEAN]
    BY DEF DumpInv, DumpTypes
  <2>2. stats' \in [tables : Nat, rows : Nat, cancelled : BOOLEAN] /\ idx' \in Nat \ {0}
    BY <1>1, <1>3, <2>1
  <2>3. batch' \in Seq(RowIds)
    BY <1>1, EmptySeq
  <2> QED
    BY <1>1, <1>5, <2>2, <2>3 DEF DumpInv, DumpTypes
<1>7. DumpStage'
  BY <1>1, <1>2 DEF DumpStage, Finished
<1>8. ASSUME spec.consistent PROVE NothingElse' /\ AllOfIt'
  <2>1. Range(batch) \subseteq Content(snap, tables[idx])
    BY <1>1, <1>8 DEF DumpInv, NothingElse
  <2>2. NothingElse'
    <3>1. ASSUME NEW o \in Range(out'), o.kind = "insert"
          PROVE  Range(o.rows) \subseteq Content(snap, o.table)
      <4>1. CASE o \in Range(out)
        BY <1>8, <3>1, <4>1 DEF DumpInv, NothingElse
      <4>2. CASE o = p
        BY <1>4, <2>1, <4>2
      <4> QED
        BY <1>5, <4>1, <4>2
    <3>2. \A x : Content(snap, x)' = Content(snap, x)
      BY <1>1 DEF Content
    <3> QED
      BY <1>1, <1>2, <3>1, <3>2 DEF NothingElse
  <2>3. ASSUME ~cancel, NEW k \in DOMAIN tables, k < idx'
        PROVE  Has(tables[k], Content(snap, tables[k]))'
    <3> SUFFICES ASSUME NEW s \in Content(snap, tables[k]) PROVE HasRow(tables[k], s)'
      BY <1>1 DEF Has, Content
    <3>1. CASE k < idx
      <4>1. HasRow(tables[k], s)
        BY <1>2, <1>8, <2>3, <3>1 DEF DumpInv, AllOfIt, Has
      <4> QED
        BY <1>1, <1>5, <4>1 DEF HasRow
    <3>2. CASE k = idx
      <4>1. CASE s \in Range(batch)
        BY <1>1, <1>4, <1>5, <3>2, <4>1 DEF HasRow
      <4>2. CASE s \notin Range(batch)
        <5>1. HasRow(tables[k], s)
          BY <1>1, <1>2, <1>8, <2>3, <3>2, <4>2 DEF DumpInv, AllOfIt, Has
        <5> QED
          BY <1>1, <1>5, <5>1 DEF HasRow
      <4> QED
        BY <4>1, <4>2
    <3>3. k < idx \/ k = idx
      BY <1>1, <1>3, <2>3
    <3> QED
      BY <3>1, <3>2, <3>3
  <2> QED
    BY <1>1, <2>2, <2>3 DEF AllOfIt
<1> QED
  BY <1>1, <1>6, <1>7, <1>8 DEF DumpInv

LEMMA DumpInductive == DumpInv /\ [DumpNext]_dumpVars => DumpInv'
<1> SUFFICES ASSUME DumpInv, [DumpNext]_dumpVars PROVE DumpInv'
  OBVIOUS
<1>1. CASE StartDump
  BY <1>1, StartDumpKeeps
<1>2. CASE CancelDump \/ Commit \/ DumpFails \/ NoMoreRows
  BY <1>2, OutsideKeeps
<1>3. CASE OpenFile
  BY <1>3, OpenFileKeeps
<1>4. CASE NextTable
  BY <1>4, NextTableKeeps
<1>5. CASE Epilogue
  BY <1>5, EpilogueKeeps
<1>6. CASE Select
  BY <1>6, SelectKeeps
<1>7. CASE ReadRow
  BY <1>7, ReadRowKeeps
<1>8. CASE Remainder
  BY <1>8, RemainderKeeps
<1>9. CASE UNCHANGED dumpVars
  BY <1>9 DEF dumpVars, DumpInv, DumpTypes, DumpStage, NothingElse, AllOfIt, Has, HasRow, Content,
     Finished
<1> QED
  BY <1>1, <1>2, <1>3, <1>4, <1>5, <1>6, <1>7, <1>8, <1>9 DEF DumpNext

\* The file has of a table what the snapshot has of it: no row more, none less.
LEMMA FileHasSnapshot ==
  ASSUME DumpInv, Finished, spec.consistent, NEW x \in Dumped
  PROVE  FileHas(snap, x)
<1> DEFINE of == {r \in RowIds : \E k \in DOMAIN out : out[k].kind = "insert"
                    /\ StoredIn(out[k].table) = StoredIn(x) /\ r \in Range(out[k].rows)}
<1>1. PICK k \in DOMAIN tables : x = tables[k]
  BY DEF Dumped, Range
<1>2. ~cancel /\ k < idx
  <2>1. ~cancel /\ idx > Len(tables) /\ tables \in Seq(Listed) /\ idx \in Nat
    BY DEF DumpInv, DumpTypes, DumpStage
  <2> QED
    BY <2>1, LenProperties
<1>3. FileHas(snap, x) <=> of = IF wants_data(spec.mode) THEN Content(snap, x) ELSE {}
  BY DEF FileHas
<1>4. ASSUME NEW r \in of PROVE wants_data(spec.mode) /\ r \in Content(snap, x)
  <2>1. PICK p \in Range(out) : p.kind = "insert" /\ StoredIn(p.table) = StoredIn(x)
                                /\ r \in Range(p.rows)
    BY <1>4 DEF Range
  <2> QED
    BY <2>1 DEF DumpInv, NothingElse, Content
<1>5. ASSUME wants_data(spec.mode), NEW r \in Content(snap, x) PROVE r \in of
  <2>1. HasRow(x, r)
    BY <1>1, <1>2, <1>5 DEF DumpInv, AllOfIt, Has
  <2>2. r \in RowIds
    BY DEF Content
  <2> QED
    BY <2>1, <2>2 DEF HasRow, Range
<1> QED
  BY <1>3, <1>4, <1>5

\* Whatever other sessions commit, whichever tables and views are dumped and
\* however rows fall into batches: the file of a consistent dump that finished
\* is the state the server had at one moment since the dump began.
THEOREM DumpIsOneMoment == DumpSpec => []FileIsOneMoment
<1>1. DumpInv => FileIsOneMoment
  BY FileHasSnapshot DEF DumpInv, DumpStage, FileIsOneMoment
<1> QED
  BY <1>1, DumpInitially, DumpInductive, PTL DEF DumpSpec

-----------------------------------------------------------------------------
(* The client that runs the file.  It has the tables that were made, no row  *)
(* twice, and of each table that is written what was there at one moment.    *)

\* Views do no harm when only their definitions are dumped, without DROP, each
\* behind the table it selects from.
ViewsAreHarmless ==
  \A k \in DOMAIN tables : tables[k] \in DOMAIN BaseOf =>
    /\ spec.mode = "structure" /\ ~spec.drop
    /\ \E m \in DOMAIN tables : m < k /\ tables[m] = BaseOf[tables[k]]

Underway == pc \in {"table", "select", "row", "last"}
RowsOf(x) == {r \in RowIds : <<r, x>> \in client.rows}
Made ==
  {tables[k] : k \in {k \in DOMAIN tables : k < idx}}
    \cup (IF pc \in {"select", "row", "last"} THEN {tables[idx]} ELSE {})

Client == [ok : {TRUE}, has : SUBSET Listed, rows : SUBSET (RowIds \X Listed)]
ClientTypes == client \in Client

ClientHas ==
  Underway => client.has = IF wants_structure(spec.mode) /\ ~spec.drop THEN Made ELSE Listed

RowsOnce ==
  /\ Underway => \A k \in DOMAIN tables :
       k > idx \/ (k = idx /\ pc \in {"table", "select"}) => RowsOf(tables[k]) = {}
  /\ pc \in {"row", "last"} =>
       /\ RowsOf(tables[idx]) \cap (left \cup Range(batch)) = {}
       /\ left \cap Range(batch) = {} /\ IsInjective(batch)

RowsOfAMoment ==
  /\ ~wants_data(spec.mode) => client.rows = {}
  /\ wants_data(spec.mode) /\ ~cancel =>
       /\ \A k \in DOMAIN tables : k < idx =>
            \E d \in moments : RowsOf(tables[k]) = Content(d, tables[k])
       /\ pc \in {"row", "last"} =>
            \E d \in moments : RowsOf(tables[idx]) \cup left \cup Range(batch) = Content(d, tables[idx])

ClientInv ==
  IF pc \in {"idle", "open"} THEN client = Before(spec) /\ tables = <<>>
  ELSE /\ IsInjective(tables)
       /\ ViewsAreHarmless => ClientTypes /\ ClientHas /\ RowsOnce /\ RowsOfAMoment

\* What the statements of a file do to a client that has not stopped.
LEMMA RunsDrop ==
  ASSUME NEW c \in Client, NEW x \in BaseTables
  PROVE  RunPart(c, Part("drop", x, <<>>))
           = [ok |-> TRUE, has |-> c.has \ {x}, rows |-> {w \in c.rows : w[2] # x}]
<1> DEFINE p == Part("drop", x, <<>>)
<1>1. p.kind = "drop" /\ p.table = x
  BY DEF Part
<1>2. c.ok = TRUE /\ c = [ok |-> TRUE, has |-> c.has, rows |-> c.rows]
  BY DEF Client
<1> HIDE DEF p
<1>3. RunPart(c, p) = [c EXCEPT !.has = @ \ ({p.table} \cap BaseTables),
                                !.rows = {w \in @ : w[2] # p.table}]
  BY <1>1, <1>2 DEF RunPart
<1>4. {p.table} \cap BaseTables = {x}
  BY <1>1
<1>5. RunPart(c, p) = [c EXCEPT !.has = @ \ {x}, !.rows = {w \in @ : w[2] # x}]
  BY <1>1, <1>3, <1>4
<1> QED
  BY <1>2, <1>5 DEF p

LEMMA RunsCreate ==
  ASSUME NEW c \in Client, NEW x, x \notin c.has, x \in DOMAIN BaseOf => BaseOf[x] \in c.has
  PROVE  RunPart(c, Part("create", x, <<>>))
           = [ok |-> TRUE, has |-> c.has \cup {x}, rows |-> c.rows]
<1> DEFINE p == Part("create", x, <<>>)
<1>1. p.kind = "create" /\ p.table = x
  BY DEF Part
<1>2. c.ok = TRUE /\ c = [ok |-> TRUE, has |-> c.has, rows |-> c.rows]
  BY DEF Client
<1> HIDE DEF p
<1>3. RunPart(c, p) =
        [c EXCEPT !.ok = p.table \notin c.has /\ (p.table \in DOMAIN BaseOf => BaseOf[p.table] \in c.has),
                  !.has = @ \cup {p.table}]
  BY <1>1, <1>2 DEF RunPart
<1>4. (p.table \notin c.has /\ (p.table \in DOMAIN BaseOf => BaseOf[p.table] \in c.has)) = TRUE
  BY <1>1
<1>5. RunPart(c, p) = [c EXCEPT !.ok = TRUE, !.has = @ \cup {x}]
  BY <1>1, <1>3, <1>4
<1> QED
  BY <1>2, <1>5 DEF p

LEMMA RunsInsert ==
  ASSUME NEW c \in Client, NEW x, x \notin DOMAIN BaseOf, x \in c.has,
         NEW b \in Seq(RowIds), IsInjective(b), \A r \in Range(b) : <<r, x>> \notin c.rows
  PROVE  RunPart(c, Part("insert", x, b))
           = [ok |-> TRUE, has |-> c.has, rows |-> c.rows \cup {<<r, x>> : r \in Range(b)}]
<1> DEFINE p == Part("insert", x, b)
           new == {<<p.rows[k], StoredIn(p.table)>> : k \in DOMAIN p.rows}
           fits == {p.table, StoredIn(p.table)} \subseteq c.has /\ IsInjective(p.rows) /\ new \cap c.rows = {}
<1>1. p.kind = "insert" /\ p.table = x /\ p.rows = b
  BY DEF Part
<1>2. c.ok = TRUE /\ c = [ok |-> TRUE, has |-> c.has, rows |-> c.rows]
  BY DEF Client
<1> HIDE DEF p
<1>3. StoredIn(p.table) = x
  BY <1>1 DEF StoredIn
<1>4. new = {<<r, x>> : r \in Range(b)}
  BY <1>1, <1>3 DEF Range
<1>5. RunPart(c, p) = [c EXCEPT !.ok = fits, !.rows = @ \cup new]
  BY <1>1, <1>2 DEF RunPart
<1>6. fits = TRUE
  BY <1>1, <1>3, <1>4
<1> HIDE DEF fits, new
<1>7. RunPart(c, p) = [c EXCEPT !.ok = TRUE, !.rows = @ \cup {<<r, x>> : r \in Range(b)}]
  BY <1>4, <1>5, <1>6
<1> QED
  BY <1>2, <1>7 DEF p

LEMMA RunsHeading ==
  ASSUME NEW c \in Client, NEW kind \in {"preamble", "cancelled", "epilogue"}
  PROVE  RunPart(c, Part(kind, "", <<>>)) = c
<1>1. Part(kind, "", <<>>).kind = kind
  BY DEF Part
<1> QED
  BY <1>1 DEF RunPart

LEMMA WritesOne ==
  ASSUME NEW p, Write(<<p>>)
  PROVE  client' = RunPart(client, p)
BY DEF Write

LEMMA WritesTwo ==
  ASSUME NEW p, NEW q, Write(<<p>> \o <<q>>)
  PROVE  client' = RunPart(RunPart(client, p), q)
<1> DEFINE a == <<p>>  b == <<q>>
<1>1. a \in Seq({p, q}) /\ b \in Seq({p, q}) /\ Len(a) = 1 /\ Len(b) = 1 /\ a[1] = p /\ b[1] = q
  OBVIOUS
<1> HIDE DEF a, b
<1>2. /\ Len(a \o b) = 2 /\ (a \o b)[1] = a[1] /\ (a \o b)[2] = b[1]
  <2>1. /\ a \o b \in Seq({p, q}) /\ Len(a \o b) = Len(a) + Len(b)
        /\ \A k \in 1..Len(a) + Len(b) : (a \o b)[k] = IF k <= Len(a) THEN a[k] ELSE b[k - Len(a)]
    BY <1>1, ConcatProperties
  <2> QED
    BY <1>1, <2>1
<1>3. Write(a \o b)
  BY DEF a, b
<1> QED
  BY <1>1, <1>2, <1>3 DEF Write

\* StartDump ... OpenFile.
LEMMA ClientWaits ==
  ASSUME DumpInv, ClientInv, StartDump PROVE ClientInv'
<1>1. pc = "idle" /\ pc' = "open" /\ client' = Before(spec') /\ tables' = tables
  BY DEF StartDump
<1> QED
  BY <1>1 DEF ClientInv, Before

LEMMA ClientBefore == \A sp : Before(sp) \in Client
  BY DEF Before, Client

LEMMA ClientOpens ==
  ASSUME DumpInv, ClientInv, OpenFile PROVE ClientInv'
<1>1. /\ pc = "open" /\ pc' = "table" /\ tables' \in Picked
      /\ Write(<<Part("preamble", "", <<>>)>>)
      /\ UNCHANGED <<spec, idx, left, batch, cancel, moments>>
  BY DEF OpenFile
<1>2. client' = Before(spec)
  BY <1>1, WritesOne, RunsHeading, ClientBefore DEF ClientInv
<1>3. idx = 1 /\ batch = <<>>
  BY <1>1 DEF DumpInv, DumpStage
<1>4. IsInjective(tables') /\ tables' \in Seq(Listed)
  <2>1. /\ \A k, m \in DOMAIN tables' : k < m =>
            \E a, b \in DOMAIN Order : a < b /\ Order[a] = tables'[k] /\ Order[b] = tables'[m]
    BY <1>1 DEF Picked
  <2>2. tables' \in Seq(Listed) /\ DOMAIN Order \subseteq Nat
    BY OpenFileKeeps, LenProperties, DumpAssumption DEF DumpInv, DumpTypes
  <2>3. ASSUME NEW k \in DOMAIN tables', NEW m \in DOMAIN tables', k < m
        PROVE  tables'[k] # tables'[m]
    <3>1. PICK a \in DOMAIN Order, b \in DOMAIN Order :
            a < b /\ Order[a] = tables'[k] /\ Order[b] = tables'[m]
      BY <2>1, <2>3
    <3>2. a # b
      BY <2>2, <3>1
    <3> QED
      BY <3>1, <3>2, DumpAssumption DEF DumpAssumption
  <2>4. DOMAIN tables' \subseteq Nat
    BY <2>2, LenProperties
  <2>5. ASSUME NEW k \in DOMAIN tables', NEW m \in DOMAIN tables', tables'[k] = tables'[m]
        PROVE  k = m
    <3>1. ~(k < m) /\ ~(m < k)
      BY <2>3, <2>5
    <3> QED
      BY <2>4, <3>1
  <2> QED
    BY <2>2, <2>5 DEF IsInjective
<1>5. DOMAIN tables' \subseteq Nat \ {0}
  BY <1>4, LenProperties
<1>6. Made' = {}
  <2>1. \A k \in DOMAIN tables' : ~(k < 1)
    BY <1>5
  <2> QED
    BY <1>1, <1>3, <2>1 DEF Made
<1>7. ClientTypes' /\ client'.rows = {}
  BY <1>2, ClientBefore DEF ClientTypes, Before
<1>8. ClientHas'
  BY <1>1, <1>2, <1>6 DEF ClientHas, Before
<1>9. RowsOnce'
  <2>1. \A x : RowsOf(x)' = {}
    BY <1>7 DEF RowsOf
  <2> QED
    BY <1>1, <2>1 DEF RowsOnce
<1>10. RowsOfAMoment'
  <2>1. \A k \in DOMAIN tables' : ~(k < 1)
    BY <1>5
  <2> QED
    BY <1>1, <1>3, <1>7, <2>1 DEF RowsOfAMoment
<1> QED
  BY <1>1, <1>4, <1>7, <1>8, <1>9, <1>10 DEF ClientInv

\* A step that writes nothing of a table and reads no row.
LEMMA ClientStays ==
  ASSUME DumpInv, ClientInv, pc \notin {"idle", "open"},
         UNCHANGED <<spec, tables, batch, idx, left>>, ViewsAreHarmless => client' = client,
         moments \subseteq moments', cancel' \in BOOLEAN, cancel => cancel',
         pc' = pc \/ pc' = "ended" \/ (pc = "row" /\ pc' = "last")
  PROVE  ClientInv'
<1>1. ViewsAreHarmless' <=> ViewsAreHarmless
  BY DEF ViewsAreHarmless
<1>2. pc' \notin {"idle", "open"} /\ IsInjective(tables')
  BY DEF ClientInv
<1> SUFFICES ASSUME ViewsAreHarmless PROVE ClientTypes' /\ ClientHas' /\ RowsOnce' /\ RowsOfAMoment'
  BY <1>1, <1>2 DEF ClientInv
<1>3. ClientTypes /\ ClientHas /\ RowsOnce /\ RowsOfAMoment
  BY DEF ClientInv
<1>4. \A x : RowsOf(x)' = RowsOf(x)
  BY DEF RowsOf
<1>5. ClientTypes'
  BY <1>3 DEF ClientTypes
<1>6. ClientHas'
  BY <1>3 DEF ClientHas, Underway, Made
<1>7. RowsOnce'
  BY <1>3, <1>4 DEF RowsOnce, Underway
<1>8. RowsOfAMoment'
  <2>1. ~wants_data(spec'.mode) => client'.rows = {}
    BY <1>3 DEF RowsOfAMoment
  <2>2. ASSUME wants_data(spec.mode), ~cancel', NEW k \in DOMAIN tables, k < idx
        PROVE  \E d \in moments' : RowsOf(tables[k])' = Content(d, tables[k])
    <3>1. PICK d \in moments : RowsOf(tables[k]) = Content(d, tables[k])
      BY <1>3, <2>2 DEF RowsOfAMoment
    <3>2. RowsOf(tables[k])' = RowsOf(tables[k])
      BY DEF RowsOf
    <3> QED
      BY <3>1, <3>2
  <2>3. ASSUME wants_data(spec.mode), ~cancel', pc' \in {"row", "last"}
        PROVE  \E d \in moments' : (RowsOf(tables[idx]) \cup left \cup Range(batch))' = Content(d, tables[idx])
    <3>1. PICK d \in moments : RowsOf(tables[idx]) \cup left \cup Range(batch) = Content(d, tables[idx])
      BY <1>3, <2>3 DEF RowsOfAMoment
    <3>2. RowsOf(tables[idx])' = RowsOf(tables[idx])
      BY DEF RowsOf
    <3> QED
      BY <3>1, <3>2
  <2> QED
    BY <2>1, <2>2, <2>3 DEF RowsOfAMoment
<1> QED
  BY <1>5, <1>6, <1>7, <1>8

LEMMA ClientWatches ==
  ASSUME DumpInv, ClientInv, CancelDump \/ Commit \/ DumpFails \/ NoMoreRows PROVE ClientInv'
<1>1. /\ UNCHANGED <<spec, tables, client, batch, idx, left>> /\ pc # "idle"
      /\ moments \subseteq moments'
      /\ pc' = pc \/ pc' = "ended" \/ (pc = "row" /\ pc' = "last")
      /\ cancel' = cancel \/ cancel' = TRUE
      /\ pc = "open" => pc' \in {"open", "ended"}
  BY DEF CancelDump, Commit, DumpFails, NoMoreRows, End
<1>2. cancel' \in BOOLEAN /\ (cancel => cancel')
  <2>1. cancel \in BOOLEAN /\ cancel' \in BOOLEAN
    BY OutsideKeeps DEF DumpInv, DumpTypes
  <2> QED
    BY <1>1, <2>1
<1>3. CASE pc # "open"
  BY <1>1, <1>2, <1>3, ClientStays
<1>4. CASE pc = "open" /\ pc' = "open"
  BY <1>1, <1>4 DEF ClientInv, Before
<1>5. CASE pc = "open" /\ pc' = "ended"
  <2>1. client' = Before(spec) /\ tables' = <<>> /\ client' \in Client /\ Before(spec).rows = {}
    BY <1>1, <1>5, ClientBefore DEF ClientInv, Before
  <2>2. DOMAIN tables' = {} /\ IsInjective(tables')
    BY <2>1 DEF IsInjective
  <2>3. ClientTypes' /\ ClientHas' /\ RowsOnce' /\ RowsOfAMoment'
    BY <1>5, <2>1, <2>2 DEF ClientTypes, ClientHas, RowsOnce, RowsOfAMoment, Underway
  <2> QED
    BY <1>5, <2>2, <2>3 DEF ClientInv
<1> QED
  BY <1>1, <1>3, <1>4, <1>5

\* The statements that make a table.
LEMMA NewTable ==
  ASSUME DumpInv, ClientInv, ViewsAreHarmless, pc = "table", idx \in DOMAIN tables,
         wants_structure(spec.mode), Write(Structure(tables[idx]))
  PROVE  client' = [ok |-> TRUE, rows |-> client.rows,
                    has |-> IF spec.drop THEN Listed ELSE Made \cup {tables[idx]}]
<1> DEFINE x == tables[idx]
           d == Part("drop", x, <<>>)
           c == Part("create", x, <<>>)
<1>1. /\ client \in Client /\ IsInjective(tables) /\ RowsOf(x) = {}
      /\ client.has = IF spec.drop THEN Listed ELSE Made
  BY DEF ClientInv, ClientTypes, ClientHas, RowsOnce, Underway
<1>2. x \in Listed /\ idx \in Nat /\ DOMAIN tables \subseteq Nat
  BY LenProperties DEF DumpInv, DumpTypes
<1>3. Made = {tables[k] : k \in {k \in DOMAIN tables : k < idx}}
  BY DEF Made
<1>4. CASE spec.drop
  <2>1. x \in BaseTables
    BY <1>2, <1>4 DEF BaseTables, ViewsAreHarmless
  <2> DEFINE db == RunPart(client, d)
  <2>2. Write(<<d>> \o <<c>>)
    BY <1>4 DEF Structure
  <2> HIDE DEF d, c
  <2>3. client' = RunPart(db, c)
    BY <2>2, WritesTwo
  <2>4. {w \in client.rows : w[2] # x} = client.rows
    BY <1>1, <1>2 DEF Client, RowsOf
  <2>5. db = [ok |-> TRUE, has |-> Listed \ {x}, rows |-> client.rows]
    BY <1>1, <1>4, <2>1, <2>4, RunsDrop DEF d
  <2>6. db \in Client /\ db.has = Listed \ {x} /\ db.rows = client.rows
    BY <1>1, <2>5 DEF Client
  <2> HIDE DEF db
  <2>7. x \notin DOMAIN BaseOf
    BY <2>1 DEF BaseTables
  <2>8. client' = [ok |-> TRUE, has |-> db.has \cup {x}, rows |-> db.rows]
    BY <2>3, <2>6, <2>7, RunsCreate DEF c
  <2>9. db.has \cup {x} = Listed
    BY <1>2, <2>6
  <2> QED
    BY <1>4, <2>6, <2>8, <2>9
<1>5. CASE ~spec.drop
  <2>1. Write(<<c>>)
    <3>1. <<c>> \in Seq({c})
      OBVIOUS
    <3>2. <<>> \o <<c>> = <<c>>
      BY <3>1, ConcatEmptySeq
    <3> QED
      BY <1>5, <3>2 DEF Structure
  <2>2. x \notin client.has
    BY <1>1, <1>2, <1>3, <1>5 DEF IsInjective
  <2>3. x \in DOMAIN BaseOf => BaseOf[x] \in client.has
    BY <1>1, <1>3, <1>5 DEF ViewsAreHarmless
  <2> HIDE DEF c
  <2>4. client' = RunPart(client, c)
    BY <2>1, WritesOne
  <2>5. client' = [ok |-> TRUE, has |-> client.has \cup {x}, rows |-> client.rows]
    BY <1>1, <2>2, <2>3, <2>4, RunsCreate DEF c
  <2> QED
    BY <1>1, <1>5, <2>5
<1> QED
  BY <1>4, <1>5

LEMMA MadeGrows ==
  ASSUME DumpInv, tables' = tables, idx \in DOMAIN tables,
         \/ pc = "table" /\ pc' = "select" /\ idx' = idx
         \/ pc \in {"table", "last"} /\ pc' = "table" /\ idx' = idx + 1
  PROVE  Made' = Made \cup {tables[idx]}
<1>1. idx \in Nat /\ DOMAIN tables \subseteq Nat
  BY LenProperties DEF DumpInv, DumpTypes
<1>2. \A k \in DOMAIN tables : k < idx + 1 <=> k < idx \/ k = idx
  BY <1>1
<1>3. CASE pc = "table" /\ pc' = "select" /\ idx' = idx
  BY <1>3 DEF Made
<1>4. CASE pc \in {"table", "last"} /\ pc' = "table" /\ idx' = idx + 1
  <2>1. {tables[k] : k \in {k \in DOMAIN tables : k < idx + 1}}
          = {tables[k] : k \in {k \in DOMAIN tables : k < idx}} \cup {tables[idx]}
    BY <1>2
  <2> QED
    BY <1>4, <2>1 DEF Made
<1> QED
  BY <1>3, <1>4

LEMMA ClientGetsTable ==
  ASSUME DumpInv, ClientInv, NextTable PROVE ClientInv'
<1>1. /\ pc = "table" /\ idx <= Len(tables)
      /\ UNCHANGED <<spec, tables, left, batch, cancel, moments>>
  BY DEF NextTable
<1>2. /\ idx \in Nat \ {0} /\ DOMAIN tables = 1..Len(tables) /\ Len(tables) \in Nat
      /\ cancel \in BOOLEAN
  BY LenProperties DEF DumpInv, DumpTypes
<1>3. idx \in DOMAIN tables
  BY <1>1, <1>2
<1>4. CASE cancel
  <2>1. Write(<<Part("cancelled", "", <<>>)>>) /\ pc' = "ended" /\ idx' = idx
    BY <1>4 DEF NextTable, End
  <2>2. ViewsAreHarmless => client' = client
    BY <1>1, <2>1, WritesOne, RunsHeading DEF ClientInv, ClientTypes
  <2> QED
    BY <1>1, <1>2, <2>1, <2>2, ClientStays
<1>5. CASE ~cancel
  <2>1. /\ IF wants_structure(spec.mode) THEN Write(Structure(tables[idx])) ELSE client' = client
        /\ IF wants_data(spec.mode) THEN pc' = "select" /\ idx' = idx
           ELSE pc' = "table" /\ idx' = idx + 1
    BY <1>5 DEF NextTable
  <2>2. (ViewsAreHarmless' <=> ViewsAreHarmless) /\ IsInjective(tables') /\ pc' \notin {"idle", "open"}
    BY <1>1, <2>1 DEF ViewsAreHarmless, ClientInv
  <2> SUFFICES ASSUME ViewsAreHarmless
               PROVE  ClientTypes' /\ ClientHas' /\ RowsOnce' /\ RowsOfAMoment'
    BY <2>2 DEF ClientInv
  <2>3. client \in Client /\ ClientHas /\ RowsOnce /\ RowsOfAMoment
    BY <1>1 DEF ClientInv, ClientTypes
  <2>4. Made' = Made \cup {tables[idx]}
    BY <1>1, <1>3, <2>1, MadeGrows
  <2>5. /\ client' \in Client /\ client'.rows = client.rows
        /\ client'.has = IF wants_structure(spec.mode) /\ ~spec.drop THEN Made' ELSE Listed
    <3>1. CASE wants_structure(spec.mode)
      <4>1. client' = [ok |-> TRUE, rows |-> client.rows,
                       has |-> IF spec.drop THEN Listed ELSE Made']
        BY <1>1, <1>3, <2>1, <2>4, <3>1, NewTable
      <4>2. Made' \subseteq Listed
        <5>1. \A k \in DOMAIN tables : tables[k] \in Listed
          BY <1>2 DEF DumpInv, DumpTypes
        <5> QED
          BY <1>1, <1>3, <2>4, <5>1 DEF Made
      <4> QED
        BY <2>3, <3>1, <4>1, <4>2 DEF Client
    <3>2. CASE ~wants_structure(spec.mode)
      BY <1>1, <2>1, <2>3, <3>2 DEF ClientHas, Underway
    <3> QED
      BY <3>1, <3>2
  <2>6. \A x : RowsOf(x)' = RowsOf(x)
    BY <2>5 DEF RowsOf
  <2>7. ClientHas'
    BY <1>1, <2>5 DEF ClientHas
  <2>8. RowsOnce'
    <3>1. CASE wants_data(spec.mode)
      BY <1>1, <2>1, <2>3, <2>6, <3>1 DEF RowsOnce, Underway
    <3>2. CASE ~wants_data(spec.mode)
      <4>1. client.rows = {}
        BY <2>3, <3>2 DEF RowsOfAMoment
      <4>2. \A x : RowsOf(x)' = {}
        BY <2>5, <4>1 DEF RowsOf
      <4> QED
        BY <2>1, <3>2, <4>2 DEF RowsOnce
    <3> QED
      BY <3>1, <3>2
  <2>9. RowsOfAMoment'
    BY <1>1, <2>1, <2>3, <2>5, <2>6 DEF RowsOfAMoment
  <2> QED
    BY <2>5, <2>7, <2>8, <2>9 DEF ClientTypes
<1> QED
  BY <1>2, <1>4, <1>5

LEMMA ClientGetsEnd ==
  ASSUME DumpInv, ClientInv, Epilogue PROVE ClientInv'
<1>1. /\ pc = "table" /\ pc' = "ended" /\ Write(<<Part("epilogue", "", <<>>)>>)
      /\ UNCHANGED <<spec, tables, idx, left, batch, cancel, moments>> /\ cancel \in BOOLEAN
  BY DEF Epilogue, End, DumpInv, DumpTypes
<1>2. ViewsAreHarmless => client' = client
  BY <1>1, WritesOne, RunsHeading DEF ClientInv, ClientTypes
<1> QED
  BY <1>1, <1>2, ClientStays

LEMMA ClientSelect ==
  ASSUME DumpInv, ClientInv, Select PROVE ClientInv'
<1>1. /\ pc = "select" /\ pc' = "row" /\ left' = Content(Seen, tables[idx])
      /\ UNCHANGED <<spec, tables, client, idx, batch, cancel, moments>>
  BY DEF Select
<1>2. batch = <<>> /\ Seen \in moments /\ idx \in DOMAIN tables /\ wants_data(spec.mode)
  BY <1>1 DEF DumpInv, DumpStage, Seen
<1>3. (ViewsAreHarmless' <=> ViewsAreHarmless) /\ IsInjective(tables')
  BY <1>1 DEF ViewsAreHarmless, ClientInv
<1> SUFFICES ASSUME ViewsAreHarmless
             PROVE  ClientTypes' /\ ClientHas' /\ RowsOnce' /\ RowsOfAMoment'
  BY <1>1, <1>3 DEF ClientInv
<1>4. ClientTypes /\ ClientHas /\ RowsOnce /\ RowsOfAMoment
  BY <1>1 DEF ClientInv
<1>5. \A x : RowsOf(x)' = RowsOf(x)
  BY <1>1 DEF RowsOf
<1>6. RowsOf(tables[idx]) = {} /\ Range(batch) = {} /\ IsInjective(batch)
  BY <1>1, <1>2, <1>4 DEF RowsOnce, Underway, Range, IsInjective
<1>7. ClientTypes' /\ ClientHas'
  BY <1>1, <1>4 DEF ClientTypes, ClientHas, Underway, Made
<1>8. RowsOnce'
  BY <1>1, <1>4, <1>5, <1>6 DEF RowsOnce, Underway
<1>9. RowsOfAMoment'
  <2>1. (RowsOf(tables[idx]) \cup left \cup Range(batch))' = Content(Seen, tables[idx])
    BY <1>1, <1>5, <1>6
  <2>2. \E d \in moments : (RowsOf(tables[idx]) \cup left \cup Range(batch))' = Content(d, tables[idx])
    BY <1>2, <2>1
  <2> QED
    BY <1>1, <1>2, <1>4, <1>5, <2>2 DEF RowsOfAMoment
<1> QED
  BY <1>7, <1>8, <1>9

\* A batch of rows of the table at hand.
LEMMA Inserted ==
  ASSUME DumpInv, ClientInv, ViewsAreHarmless, pc \in {"row", "last"},
         NEW b \in Seq(RowIds), IsInjective(b), RowsOf(tables[idx]) \cap Range(b) = {},
         Write(<<Part("insert", tables[idx], b)>>)
  PROVE  /\ client' \in Client /\ client'.has = client.has
         /\ \A x : RowsOf(x)' = IF x = tables[idx] THEN RowsOf(x) \cup Range(b) ELSE RowsOf(x)
<1> DEFINE x == tables[idx]
<1>1. /\ client \in Client /\ wants_data(spec.mode) /\ idx \in DOMAIN tables
      /\ client.has = IF wants_structure(spec.mode) /\ ~spec.drop THEN Made ELSE Listed
  BY DEF ClientInv, ClientTypes, ClientHas, Underway, DumpInv, DumpStage
<1>2. x \in Listed /\ Range(b) \subseteq RowIds
  BY <1>1 DEF DumpInv, DumpTypes, Range
<1>3. x \notin DOMAIN BaseOf
  BY <1>1 DEF ViewsAreHarmless, wants_data
<1>4. x \in client.has
  BY <1>1, <1>2 DEF Made
<1>5. \A r \in Range(b) : <<r, x>> \notin client.rows
  BY <1>2 DEF RowsOf
<1> DEFINE new == {<<r, x>> : r \in Range(b)}
<1>6. client' = [ok |-> TRUE, has |-> client.has, rows |-> client.rows \cup new]
  <2>1. client' = RunPart(client, Part("insert", x, b))
    BY WritesOne
  <2> HIDE DEF x
  <2> QED
    BY <1>1, <1>3, <1>4, <1>5, <2>1, RunsInsert
<1>7. new \subseteq RowIds \X Listed
  BY <1>2
<1>8. client' \in Client /\ client'.has = client.has /\ client'.rows = client.rows \cup new
  BY <1>1, <1>6, <1>7 DEF Client
<1>9. ASSUME NEW y PROVE RowsOf(y)' = IF y = x THEN RowsOf(y) \cup Range(b) ELSE RowsOf(y)
  <2>1. \A r : <<r, y>> \in new <=> (y = x /\ r \in Range(b))
    OBVIOUS
  <2> HIDE DEF new, x
  <2> QED
    BY <1>2, <1>8, <2>1 DEF RowsOf
<1> QED
  BY <1>8, <1>9

LEMMA InjectiveAppended ==
  ASSUME NEW S, NEW a \in Seq(S), NEW x \in S, IsInjective(a), x \notin Range(a)
  PROVE  IsInjective(Append(a, x))
<1>1. /\ Append(a, x)[Len(a) + 1] = x
      /\ \A k \in 1..Len(a) : Append(a, x)[k] = a[k]
      /\ DOMAIN Append(a, x) = 1..Len(a) + 1 /\ DOMAIN a = 1..Len(a) /\ Len(a) \in Nat
  BY AppendProperties, LenProperties
<1>2. \A k \in 1..Len(a) + 1 : k \in 1..Len(a) \/ k = Len(a) + 1
  BY <1>1
<1>3. \A k \in 1..Len(a) : a[k] # x
  BY <1>1 DEF Range
<1> QED
  BY <1>1, <1>2, <1>3 DEF IsInjective

LEMMA ClientReadsRow ==
  ASSUME DumpInv, ClientInv, ReadRow PROVE ClientInv'
<1>1. /\ pc = "row" /\ UNCHANGED <<spec, tables, idx, cancel, moments>>
      /\ idx \in DOMAIN tables /\ wants_data(spec.mode) /\ cancel \in BOOLEAN
      /\ batch \in Seq(RowIds) /\ left \subseteq RowIds
  BY DEF ReadRow, DumpInv, DumpStage, DumpTypes
<1>2. PICK r \in left :
        IF cancel THEN pc' = "last" /\ left' = {} /\ UNCHANGED <<batch, client>>
        ELSE /\ left' = left \ {r} /\ pc' = "row"
             /\ \/ Write(<<Part("insert", tables[idx], Append(batch, r))>>) /\ batch' = <<>>
                \/ batch' = Append(batch, r) /\ UNCHANGED client
  BY DEF ReadRow
<1>3. pc' \in {"row", "last"} /\ (ViewsAreHarmless' <=> ViewsAreHarmless) /\ IsInjective(tables')
  BY <1>1, <1>2 DEF ViewsAreHarmless, ClientInv
<1> SUFFICES ASSUME ViewsAreHarmless
             PROVE  ClientTypes' /\ ClientHas' /\ RowsOnce' /\ RowsOfAMoment'
  BY <1>3 DEF ClientInv
<1> DEFINE b == Append(batch, r)
<1>0. PICK x : x = tables[idx]
  OBVIOUS
<1>4. /\ client \in Client /\ ClientHas /\ RowsOnce /\ RowsOfAMoment
      /\ RowsOf(x) \cap (left \cup Range(batch)) = {}
      /\ left \cap Range(batch) = {} /\ IsInjective(batch)
  BY <1>0, <1>1 DEF ClientInv, ClientTypes, RowsOnce
<1>5. b \in Seq(RowIds) /\ Range(b) = Range(batch) \cup {r} /\ IsInjective(b)
  BY <1>1, <1>2, <1>4, RangeAppended, InjectiveAppended
<1> HIDE DEF b
<1>6. /\ client' \in Client /\ client'.has = client.has
      /\ \A y : y # x => RowsOf(y)' = RowsOf(y)
      /\ RowsOf(x)' \cap (left' \cup Range(batch')) = {}
      /\ left' \cap Range(batch') = {} /\ IsInjective(batch')
      /\ ~cancel => RowsOf(x)' \cup left' \cup Range(batch') = RowsOf(x) \cup left \cup Range(batch)
  <2>1. CASE cancel
    <3>1. \A y : RowsOf(y)' = RowsOf(y)
      BY <1>2, <2>1 DEF RowsOf
    <3> QED
      BY <1>2, <1>4, <2>1, <3>1
  <2>2. CASE ~cancel /\ batch' = b /\ client' = client
    <3>1. \A y : RowsOf(y)' = RowsOf(y)
      BY <2>2 DEF RowsOf
    <3>2. left' = left \ {r} /\ Range(batch') = Range(batch) \cup {r}
      BY <1>2, <1>5, <2>2
    <3> QED
      BY <1>2, <1>4, <1>5, <2>2, <3>1, <3>2
  <2>3. CASE ~cancel /\ batch' = <<>> /\ Write(<<Part("insert", tables[idx], b)>>)
    <3>1. RowsOf(tables[idx]) \cap Range(b) = {}
      BY <1>0, <1>2, <1>4, <1>5
    <3>2. /\ client' \in Client /\ client'.has = client.has
          /\ \A y : RowsOf(y)' = IF y = tables[idx] THEN RowsOf(y) \cup Range(b) ELSE RowsOf(y)
      BY <1>1, <1>5, <2>3, <3>1, Inserted
    <3>3. left' = left \ {r} /\ Range(batch') = {} /\ IsInjective(batch')
      BY <1>2, <2>3 DEF Range, IsInjective
    <3> QED
      BY <1>0, <1>2, <1>4, <1>5, <3>2, <3>3
  <2> QED
    BY <1>2, <2>1, <2>2, <2>3 DEF b
<1>7. \A k \in DOMAIN tables : k # idx => tables[k] # x
  BY <1>0, <1>1 DEF ClientInv, IsInjective
<1>8. ClientHas'
  <2>1. Made' = Made /\ Underway /\ Underway'
    BY <1>1, <1>3 DEF Made, Underway
  <2> QED
    BY <1>1, <1>4, <1>6, <2>1 DEF ClientHas
<1>9. idx \in Nat /\ DOMAIN tables \subseteq Nat
  BY LenProperties DEF DumpInv, DumpTypes
<1>10. RowsOnce'
  <2>1. ASSUME NEW k \in DOMAIN tables, k > idx, NEW y, y = tables[k] PROVE RowsOf(y)' = {}
    <3>1. RowsOf(y) = {} /\ k # idx
      BY <1>1, <1>4, <1>9, <2>1 DEF RowsOnce, Underway
    <3> QED
      BY <1>6, <1>7, <2>1, <3>1
  <2> QED
    BY <1>0, <1>1, <1>2, <1>3, <1>6, <2>1 DEF RowsOnce
<1>11. RowsOfAMoment'
  <2>1. ASSUME ~cancel, NEW k \in DOMAIN tables, k < idx, NEW y, y = tables[k]
        PROVE  \E d \in moments : RowsOf(y)' = Content(d, y)
    <3>1. PICK d \in moments : RowsOf(y) = Content(d, y)
      BY <1>1, <1>4, <2>1 DEF RowsOfAMoment
    <3>2. y # x
      BY <1>7, <1>9, <2>1
    <3> QED
      BY <1>6, <3>1, <3>2
  <2>2. ASSUME ~cancel
        PROVE  \E d \in moments : RowsOf(x)' \cup left' \cup Range(batch') = Content(d, x)
    BY <1>0, <1>1, <1>4, <1>6, <2>2 DEF RowsOfAMoment
  <2> QED
    BY <1>0, <1>1, <2>1, <2>2 DEF RowsOfAMoment
<1> QED
  BY <1>6, <1>8, <1>10, <1>11 DEF ClientTypes

LEMMA ClientGetsRest ==
  ASSUME DumpInv, ClientInv, Remainder PROVE ClientInv'
<1>1. /\ pc = "last" /\ pc' = "table" /\ idx' = idx + 1 /\ batch' = <<>>
      /\ IF batch # <<>> THEN Write(<<Part("insert", tables[idx], batch)>>) ELSE client' = client
      /\ UNCHANGED <<spec, tables, left, cancel, moments>>
  BY DEF Remainder
<1>2. /\ wants_data(spec.mode) /\ idx \in DOMAIN tables /\ left = {} /\ batch \in Seq(RowIds)
      /\ idx \in Nat /\ DOMAIN tables \subseteq Nat
  BY <1>1, LenProperties DEF DumpInv, DumpStage, DumpTypes
<1>3. (ViewsAreHarmless' <=> ViewsAreHarmless) /\ IsInjective(tables')
  BY <1>1 DEF ViewsAreHarmless, ClientInv
<1> SUFFICES ASSUME ViewsAreHarmless
             PROVE  ClientTypes' /\ ClientHas' /\ RowsOnce' /\ RowsOfAMoment'
  BY <1>1, <1>3 DEF ClientInv
<1>0. PICK x : x = tables[idx]
  OBVIOUS
<1>4. /\ client \in Client /\ ClientHas /\ RowsOnce /\ RowsOfAMoment
      /\ RowsOf(x) \cap Range(batch) = {} /\ IsInjective(batch)
  BY <1>0, <1>1 DEF ClientInv, ClientTypes, RowsOnce
<1>5. /\ client' \in Client /\ client'.has = client.has
      /\ \A y : RowsOf(y)' = IF y = x THEN RowsOf(y) \cup Range(batch) ELSE RowsOf(y)
  <2>1. CASE batch # <<>>
    BY <1>0, <1>1, <1>2, <1>4, <2>1, Inserted
  <2>2. CASE batch = <<>>
    <3>1. Range(batch) = {} /\ client' = client
      BY <1>1, <2>2 DEF Range
    <3>2. \A y : RowsOf(y)' = RowsOf(y)
      BY <3>1 DEF RowsOf
    <3> QED
      BY <1>4, <3>1, <3>2
  <2> QED
    BY <2>1, <2>2
<1>6. \A k \in DOMAIN tables : k # idx => tables[k] # x
  BY <1>0, <1>2 DEF ClientInv, IsInjective
<1>7. ClientHas'
  <2>1. Made' = Made
    <3>1. Made' = Made \cup {tables[idx]} /\ tables[idx] \in Made
      BY <1>1, <1>2, MadeGrows DEF Made
    <3> QED
      BY <3>1
  <2> QED
    BY <1>1, <1>4, <1>5, <2>1 DEF ClientHas, Underway
<1>8. RowsOnce'
  <2>1. ASSUME NEW k \in DOMAIN tables, k >= idx + 1, NEW y, y = tables[k] PROVE RowsOf(y)' = {}
    <3>1. k > idx /\ k # idx
      BY <1>2, <2>1
    <3>2. RowsOf(y) = {}
      BY <1>1, <1>4, <2>1, <3>1 DEF RowsOnce, Underway
    <3> QED
      BY <1>5, <1>6, <2>1, <3>1, <3>2
  <2>2. \A k \in DOMAIN tables : k > idx + 1 \/ k = idx + 1 => k >= idx + 1
    BY <1>2
  <2> QED
    BY <1>1, <2>1, <2>2 DEF RowsOnce
<1>9. RowsOfAMoment'
  <2>1. ASSUME ~cancel, NEW k \in DOMAIN tables, k < idx + 1, NEW y, y = tables[k]
        PROVE  \E d \in moments : RowsOf(y)' = Content(d, y)
    <3>1. CASE k < idx
      <4>1. PICK d \in moments : RowsOf(y) = Content(d, y)
        BY <1>2, <1>4, <2>1, <3>1 DEF RowsOfAMoment
      <4>2. y # x
        BY <1>2, <1>6, <2>1, <3>1
      <4> QED
        BY <1>5, <4>1, <4>2
    <3>2. CASE k = idx
      <4>1. PICK d \in moments : RowsOf(x) \cup left \cup Range(batch) = Content(d, x)
        BY <1>0, <1>1, <1>2, <1>4, <2>1 DEF RowsOfAMoment
      <4>2. RowsOf(x)' = Content(d, x)
        BY <1>2, <1>5, <4>1
      <4> QED
        BY <1>0, <2>1, <3>2, <4>2
    <3> QED
      BY <1>2, <2>1, <3>1, <3>2
  <2> QED
    BY <1>1, <1>2, <2>1 DEF RowsOfAMoment
<1> QED
  BY <1>5, <1>7, <1>8, <1>9 DEF ClientTypes

LEMMA ClientInductive == DumpInv /\ ClientInv /\ [DumpNext]_dumpVars => ClientInv'
<1> SUFFICES ASSUME DumpInv, ClientInv, [DumpNext]_dumpVars PROVE ClientInv'
  OBVIOUS
<1>1. CASE StartDump
  BY <1>1, ClientWaits
<1>2. CASE CancelDump \/ Commit \/ DumpFails \/ NoMoreRows
  BY <1>2, ClientWatches
<1>3. CASE OpenFile
  BY <1>3, ClientOpens
<1>4. CASE NextTable
  BY <1>4, ClientGetsTable
<1>5. CASE Epilogue
  BY <1>5, ClientGetsEnd
<1>6. CASE Select
  BY <1>6, ClientSelect
<1>7. CASE ReadRow
  BY <1>7, ClientReadsRow
<1>8. CASE Remainder
  BY <1>8, ClientGetsRest
<1>9. CASE UNCHANGED dumpVars
  BY <1>9 DEF dumpVars, ClientInv, ViewsAreHarmless, ClientTypes, ClientHas, RowsOnce, RowsOfAMoment,
     Underway, Made, RowsOf
<1> QED
  BY <1>1, <1>2, <1>3, <1>4, <1>5, <1>6, <1>7, <1>8, <1>9 DEF DumpNext

LEMMA ClientIsKept == DumpSpec => [](DumpInv /\ ClientInv)
<1>1. DumpInit => ClientInv
  BY DEF DumpInit, ClientInv
<1> QED
  BY <1>1, DumpInitially, DumpInductive, ClientInductive, PTL DEF DumpSpec

\* Any file runs, also one that a cancel or an error cut short, as long as its
\* views do no harm.
THEOREM FilesRun == DumpSpec => [](ViewsAreHarmless => client.ok)
<1>1. ClientInv => (ViewsAreHarmless => client.ok)
  BY ClientBefore DEF ClientInv, ClientTypes, Client
<1> QED
  BY <1>1, ClientIsKept, PTL

\* DumpRestores, with or without the snapshot, whatever other sessions commit and
\* however rows fall into batches, as long as the views do no harm.
THEOREM TablesAreRestored == DumpSpec => [](ViewsAreHarmless => DumpRestores)
<1>1. ASSUME DumpInv, ClientInv, ViewsAreHarmless PROVE DumpRestores
  <2> SUFFICES ASSUME Finished
               PROVE  /\ client.ok
                      /\ \A x \in Dumped : \E d \in moments :
                           {r \in RowIds : <<r, StoredIn(x)>> \in client.rows}
                             = IF wants_data(spec.mode) THEN Content(d, x) ELSE {}
    BY DEF DumpRestores
  <2>1. pc = "ended" /\ ~cancel /\ idx > Len(tables)
    BY <1>1 DEF DumpInv, DumpStage, Finished
  <2>2. client \in Client /\ RowsOfAMoment
    BY <1>1, <2>1 DEF ClientInv, ClientTypes
  <2>3. ASSUME NEW x \in Dumped
        PROVE  \E d \in moments : {r \in RowIds : <<r, StoredIn(x)>> \in client.rows}
                                    = IF wants_data(spec.mode) THEN Content(d, x) ELSE {}
    <3>1. PICK k \in DOMAIN tables : x = tables[k]
      BY DEF Dumped, Range
    <3>2. k < idx
      BY <1>1, <2>1, <3>1, LenProperties DEF DumpInv, DumpTypes
    <3>3. CASE wants_data(spec.mode)
      <4>1. StoredIn(x) = x
        BY <1>1, <3>1, <3>3 DEF StoredIn, ViewsAreHarmless, wants_data
      <4>2. PICK d \in moments : RowsOf(x) = Content(d, x)
        BY <2>1, <2>2, <3>1, <3>2, <3>3 DEF RowsOfAMoment
      <4> QED
        BY <3>3, <4>1, <4>2 DEF RowsOf
    <3>4. CASE ~wants_data(spec.mode)
      <4>1. client.rows = {} /\ server \in moments
        BY <1>1, <2>2, <3>4 DEF RowsOfAMoment, DumpInv, DumpStage
      <4> QED
        BY <3>4, <4>1
    <3> QED
      BY <3>3, <3>4
  <2> QED
    BY <2>2, <2>3 DEF Client
<1> QED
  BY <1>1, ClientIsKept, PTL

-----------------------------------------------------------------------------
(* The index advisor.  What is left of the indexes of a chain of prefixes   *)
(* is the longest, and of duplicates the last: advice drops the others, or  *)
(* puts a longer one in the place of the one that is left.                 *)

Existing == Range(IndexNames)
AnIndex == [name : Seq(STRING), columns : Seq(STRING), unique : BOOLEAN]
OnTheTable(S) ==
  /\ S \subseteq AnIndex
  /\ \A a \in S : a.name \in Existing
  /\ \A a \in S, b \in S : a.name = b.name => a = b

\* A hypothesis: what an index is to be called is not the name of one that
\* the table has, as idx_<table>_<columns> might be of one over other columns.
ProposalsAreFresh == \A d \in Statements : Candidate(d) \notin Existing

LEMMA PrefixOfItself ==
  ASSUME NEW S, NEW a \in Seq(S) PROVE IsPrefix(a, a)
BY LenProperties DEF IsPrefix

LEMMA PrefixAtEach ==
  ASSUME NEW S, NEW a \in Seq(S), NEW b \in Seq(S)
  PROVE  IsPrefix(a, b) <=> Len(a) <= Len(b) /\ \A k \in 1..Len(a) : a[k] = b[k]
<1>1. /\ Len(a) \in Nat /\ Len(b) \in Nat
      /\ \A k \in 1..Len(a) : a[k] \in S
      /\ \A k \in 1..Len(b) : b[k] \in S
  BY LenProperties, ElementOfSeq
<1>2. SubSeq(a, 1, Len(a)) = a
  BY SubSeqFull
<1>3. ASSUME Len(a) <= Len(b)
      PROVE  SubSeq(a, 1, Len(a)) = SubSeq(b, 1, Len(a)) <=> \A k \in 1..Len(a) : a[k] = b[k]
  <2> DEFINE c == SubSeq(b, 1, Len(a))
  <2>1. \A k \in 1..Len(a) : b[k] \in S
    BY <1>1, <1>3
  <2>2. c \in Seq(S) /\ Len(c) = Len(a) /\ \A k \in 1..Len(a) : c[k] = b[k]
    <3>1. 1 \in Int /\ Len(a) \in Int /\ \A k \in 1..Len(a) : b[k] \in S
      BY <1>1, <2>1
    <3>2. /\ SubSeq(b, 1, Len(a)) \in Seq(S)
          /\ Len(SubSeq(b, 1, Len(a))) = (IF 1 <= Len(a) THEN Len(a) - 1 + 1 ELSE 0)
          /\ \A k \in 1..Len(a) - 1 + 1 : SubSeq(b, 1, Len(a))[k] = b[1 + k - 1]
      BY <3>1, SubSeqProperties
    <3> QED
      BY <1>1, <3>2
  <2> HIDE DEF c
  <2>3. a = c <=> \A k \in 1..Len(a) : a[k] = c[k]
    BY <2>2, SeqEqual
  <2> QED
    BY <1>2, <2>2, <2>3 DEF c
<1> QED
  BY <1>3 DEF IsPrefix

LEMMA PrefixOfPrefix ==
  ASSUME NEW S, NEW a \in Seq(S), NEW b \in Seq(S), NEW c \in Seq(S),
         IsPrefix(a, b), IsPrefix(b, c)
  PROVE  IsPrefix(a, c)
<1>1. Len(a) \in Nat /\ Len(b) \in Nat /\ Len(c) \in Nat
  BY LenProperties
<1>2. Len(a) <= Len(b) /\ \A k \in 1..Len(a) : a[k] = b[k]
  BY PrefixAtEach
<1>3. Len(b) <= Len(c) /\ \A k \in 1..Len(b) : b[k] = c[k]
  BY PrefixAtEach
<1>4. Len(a) <= Len(c) /\ \A k \in 1..Len(a) : a[k] = c[k]
  BY <1>1, <1>2, <1>3
<1> QED
  BY <1>4, PrefixAtEach

\* A name has one place, and a place one name.
LEMMA RankOfName ==
  /\ \A n \in Existing : Rank(n) \in 1..Len(IndexNames)
  /\ \A n \in Existing, m \in Existing : Rank(n) = Rank(m) => n = m
<1>1. \A n \in Existing : Rank(n) \in DOMAIN IndexNames /\ IndexNames[Rank(n)] = n
  BY DEF Existing, Range, Rank
<1>2. DOMAIN IndexNames = 1..Len(IndexNames)
  BY AdvisorAssumption, LenProperties
<1> QED
  BY <1>1, <1>2

LEMMA IndexesAreFew ==
  ASSUME NEW S, OnTheTable(S) PROVE IsFiniteSet(S)
<1>1. Len(IndexNames) \in Nat
  BY AdvisorAssumption, LenProperties
<1> DEFINE f == [a \in S |-> Rank(a.name)]
<1>2. f \in Injection(S, 1..Len(IndexNames))
  <2>1. f \in [S -> 1..Len(IndexNames)]
    BY RankOfName DEF OnTheTable
  <2>2. ASSUME NEW a \in S, NEW b \in S, f[a] = f[b] PROVE a = b
    BY <2>2, RankOfName DEF OnTheTable
  <2> QED
    BY <2>1, <2>2 DEF Injection, IsInjective
<1>3. IsFiniteSet(1..Len(IndexNames))
  BY <1>1, FS_Interval
<1> HIDE DEF f
<1> QED
  BY <1>2, <1>3, FS_Injection

\* One of the indexes that serve a lookup makes none of the others needed.
LEMMA OneServesBest ==
  ASSUME NEW S, OnTheTable(S), NEW x \in S
  PROVE  \E j \in S : IsPrefix(x.columns, j.columns) /\ \A b \in S : ~Redundant(j, b)
<1> DEFINE Better(a, b) == \/ Len(a.columns) < Len(b.columns)
                           \/ Len(a.columns) = Len(b.columns) /\ Rank(a.name) < Rank(b.name)
           Above(a) == {b \in S : Better(a, b)}
           T == {j \in S : IsPrefix(x.columns, j.columns)}
           F == {Above(j) : j \in T}
           R == StrictSubsetOrdering(S)
<1>1. \A a \in S : a.columns \in Seq(STRING) /\ Len(a.columns) \in Nat /\ Rank(a.name) \in Nat
  BY RankOfName, LenProperties DEF OnTheTable, AnIndex
<1>2. x \in T
  BY <1>1, PrefixOfItself
<1>3. F \subseteq FiniteSubsetsOf(S) /\ F # {}
  <2>1. IsFiniteSet(S)
    BY IndexesAreFew
  <2>2. ASSUME NEW a \in T PROVE Above(a) \subseteq S /\ IsFiniteSet(Above(a))
    BY <2>1, FS_Subset
  <2>3. T # {}
    BY <1>2
  <2> HIDE DEF Above, T
  <2> QED
    BY <2>2, <2>3 DEF FiniteSubsetsOf, F
<1>4. IsWellFoundedOn(R, FiniteSubsetsOf(S))
  BY FS_StrictSubsetOrderingWellFounded
<1>5. ASSUME NEW a \in T, NEW b \in S, Redundant(a, b)
      PROVE  b \in T /\ Better(a, b)
  <2>1. a \in S /\ IsPrefix(x.columns, a.columns) /\ IsPrefix(a.columns, b.columns)
    BY <1>5 DEF Redundant
  <2>2. IsPrefix(x.columns, b.columns)
    BY <1>1, <2>1, PrefixOfPrefix
  <2>3. Len(a.columns) <= Len(b.columns)
    BY <2>1 DEF IsPrefix
  <2>4. /\ a.name # b.name
        /\ ~(Len(a.columns) = Len(b.columns) /\ Rank(a.name) > Rank(b.name))
    BY <1>5 DEF Redundant
  <2>5. Rank(a.name) # Rank(b.name)
    BY <2>1, <2>4, RankOfName DEF OnTheTable
  <2> QED
    BY <1>1, <2>1, <2>2, <2>3, <2>4, <2>5
<1>6. ASSUME NEW a \in S, NEW b \in S, Better(a, b)
      PROVE  <<Above(b), Above(a)>> \in R
  <2>1. /\ Len(a.columns) \in Nat /\ Len(b.columns) \in Nat
        /\ Rank(a.name) \in Nat /\ Rank(b.name) \in Nat
    BY <1>1
  <2>2. ASSUME NEW c \in S, Better(b, c) PROVE Better(a, c)
    <3>1. Len(c.columns) \in Nat /\ Rank(c.name) \in Nat
      BY <1>1
    <3> QED
      BY <1>6, <2>1, <2>2, <3>1
  <2>3. Above(b) \subseteq Above(a) /\ b \in Above(a) /\ b \notin Above(b)
    BY <1>6, <2>1, <2>2
  <2> QED
    BY <2>3 DEF R, StrictSubsetOrdering
<1> HIDE DEF F, R
<1>7. PICK X \in F : \A Y \in F : ~(<<Y, X>> \in R)
  BY <1>3, <1>4, WFMin
<1>8. PICK j \in T : X = Above(j)
  BY DEF F
<1>9. ASSUME NEW b \in S, Redundant(j, b) PROVE FALSE
  <2>1. b \in T /\ Better(j, b)
    BY <1>5, <1>9
  <2>2. <<Above(b), Above(j)>> \in R
    BY <1>6, <2>1
  <2> QED
    BY <1>7, <1>8, <2>1, <2>2 DEF F
<1> QED
  BY <1>9

\* What an index is looked up by is looked up by one of the indexes that are
\* there, which no advice about an index the analysis saw tells to drop.
Serves(j, x) ==
  /\ IsPrefix(x.columns, j.columns)
  /\ j.name \notin Existing \/ (j \in before /\ \A b \in before : ~Redundant(j, b))

AdviceInv ==
  /\ indexes \subseteq AnIndex /\ <<>> \notin {j.name : j \in indexes}
  /\ OnTheTable(before) /\ workload \subseteq Statements
  /\ ~ran => indexes = before /\ findings = {} /\ suggestions = {}
  /\ \A f \in findings : f.drop =>
       \/ f.kind = "unused index"
       \/ \E a \in before, b \in before : f.object = a.name /\ Redundant(a, b)
  /\ \A s \in suggestions :
       /\ s.columns \in Seq(STRING) \ (Existing \cup {<<>>})
       /\ \/ s.extends = Unnamed
          \/ \E e \in before : s.extends = e.name /\ IsPrefix(e.columns, s.columns)
  /\ "unused index" \notin applied => \A x \in before : \E j \in indexes : Serves(j, x)

LEMMA NamesAreNames == \A n \in Existing : n \in Seq(STRING) /\ n # <<>>
<1>1. \A k \in 1..Len(IndexNames) : IndexNames[k] \in Seq(STRING) \ {<<>>}
  BY AdvisorAssumption, ElementOfSeq
<1>2. DOMAIN IndexNames = 1..Len(IndexNames)
  BY AdvisorAssumption, LenProperties
<1> QED
  BY <1>1, <1>2 DEF Existing, Range

LEMMA AdviceBegins ==
  ASSUME AdvisorInit PROVE AdviceInv
<1>1. PICK S \in SUBSET Existing, key \in [Existing -> Keys], u \in SUBSET Existing :
        indexes = {Index(n, key[n], n = Primary \/ n \in u) : n \in S}
  BY DEF AdvisorInit, Existing
<1>2. ~ran /\ findings = {} /\ suggestions = {} /\ before = indexes /\ workload \subseteq Statements
  BY DEF AdvisorInit
<1>3. \A n \in S : /\ Index(n, key[n], n = Primary \/ n \in u) \in AnIndex
                   /\ Index(n, key[n], n = Primary \/ n \in u).name = n
  BY NamesAreNames, AdvisorAssumption DEF Index, AnIndex
<1>4. ASSUME NEW a \in indexes
      PROVE  \E n \in S : /\ a = Index(n, key[n], n = Primary \/ n \in u)
                          /\ a \in AnIndex /\ a.name = n
  <2>1. PICK n \in S : a = Index(n, key[n], n = Primary \/ n \in u)
    BY <1>1, <1>4
  <2> QED
    BY <1>3, <2>1
<1>5. OnTheTable(indexes)
  <2>1. indexes \subseteq AnIndex /\ \A a \in indexes : a.name \in Existing
    BY <1>4
  <2>2. ASSUME NEW a \in indexes, NEW b \in indexes, a.name = b.name PROVE a = b
    BY <1>4, <2>2
  <2> QED
    BY <2>1, <2>2 DEF OnTheTable
<1>6. indexes \subseteq AnIndex /\ <<>> \notin {j.name : j \in indexes}
  BY <1>5, NamesAreNames DEF OnTheTable
<1>7. \A x \in before : \E j \in indexes : Serves(j, x)
  BY <1>2, <1>5, OneServesBest DEF Serves
<1> QED
  BY <1>2, <1>5, <1>6, <1>7 DEF AdviceInv

\* What the analysis says is about the indexes it sees.
LEMMA FindingsAreSound ==
  ASSUME NEW f \in Analyze, f.drop
  PROVE  \/ f.kind = "unused index"
         \/ \E a \in indexes, b \in indexes : f.object = a.name /\ Redundant(a, b)
<1>1. ASSUME NEW about, NEW sev, NEW kind, f = Finding(sev, kind, about, FALSE) PROVE FALSE
  <2>1. f.drop = FALSE
    BY <1>1 DEF Finding
  <2> QED
    BY <2>1
<1>2. CASE f \in RedundantIndexes
  <2>1. PICK a \in {a \in indexes : \E b \in indexes : Redundant(a, b)} :
          \/ f = Finding("high", "duplicate index", a.name, TRUE)
          \/ f = Finding("warn", "redundant index", a.name, TRUE)
    BY <1>2 DEF RedundantIndexes
  <2>2. f.object = a.name
    <3>1. CASE f = Finding("high", "duplicate index", a.name, TRUE)
      BY <3>1 DEF Finding
    <3>2. CASE f = Finding("warn", "redundant index", a.name, TRUE)
      BY <3>2 DEF Finding
    <3> QED
      BY <2>1, <3>1, <3>2
  <2> QED
    BY <2>1, <2>2
<1>3. CASE f \in UnusedIndexes
  <2>1. PICK x \in indexes : f = Finding("warn", "unused index", x.name, TRUE)
    BY <1>3 DEF UnusedIndexes
  <2>2. f.kind = "unused index"
    BY <2>1 DEF Finding
  <2> QED
    BY <2>2
<1>4. CASE f \in MissingPk
  <2>1. f = Finding("warn", "no primary key", Unnamed, FALSE)
    BY <1>4 DEF MissingPk
  <2> QED
    BY <1>1, <2>1
<1>5. CASE f \in StatementFindings
  <2>1. \E d \in workload : \/ f = Finding("high", "statement without index", Candidate(d), FALSE)
                            \/ f = Finding("warn", "function on column", Candidate(d), FALSE)
    BY <1>5 DEF StatementFindings
  <2> QED
    BY <1>1, <2>1
<1> QED
  BY <1>2, <1>3, <1>4, <1>5 DEF Analyze

LEMMA SuggestionsAreSound ==
  ASSUME ProposalsAreFresh, OnTheTable(indexes), workload \subseteq Statements, NEW s \in Suggest
  PROVE  /\ s.columns \in Seq(STRING) \ (Existing \cup {<<>>})
         /\ \/ s.extends = Unnamed
            \/ \E e \in indexes : s.extends = e.name /\ IsPrefix(e.columns, s.columns)
<1> DEFINE Proposed == {c \in {Candidate(d) : d \in {d \in workload : d.count >= MinExecutions /\ d.parses}} :
                          c # <<>> /\ \A ix \in indexes : ~CoveredBy(ix, c)}
           Best(e) == CHOOSE x \in e : \A o \in e : Rank(x.name) <= Rank(o.name)
<1>1. PICK c \in Proposed :
        s = [columns |-> c,
             extends |-> IF Extendable(c) = {} THEN Unnamed ELSE Best(Extendable(c)).name]
  BY DEF Suggest
<1>2. c \in Seq(STRING) /\ c \notin Existing /\ c # <<>>
  BY AdvisorAssumption DEF ProposalsAreFresh
<1>3. ASSUME Extendable(c) # {} PROVE Best(Extendable(c)) \in Extendable(c)
  <2> DEFINE T == {Rank(x.name) : x \in Extendable(c)}
  <2>1. Extendable(c) \subseteq indexes
    BY DEF Extendable
  <2>2. T \subseteq Nat /\ T # {}
    BY <1>3, <2>1, RankOfName DEF OnTheTable
  <2>3. PICK n \in T : \A m \in T : n <= m
    BY <2>2, LeastOf
  <2>4. \E x \in Extendable(c) : \A o \in Extendable(c) : Rank(x.name) <= Rank(o.name)
    BY <2>3
  <2> QED
    BY <2>4
<1>4. ASSUME Extendable(c) # {}
      PROVE  \E e \in indexes : Best(Extendable(c)).name = e.name /\ IsPrefix(e.columns, c)
  BY <1>3, <1>4 DEF Extendable
<1> HIDE DEF Best, Proposed
<1>5. s.columns = c /\ s.extends = (IF Extendable(c) = {} THEN Unnamed ELSE Best(Extendable(c)).name)
  BY <1>1
<1> QED
  BY <1>2, <1>4, <1>5

LEMMA AnalysisKeeps ==
  ASSUME ProposalsAreFresh, AdviceInv, RunAnalysis PROVE AdviceInv'
<1>1. /\ ~ran /\ ran' = TRUE /\ findings' = Analyze /\ suggestions' = Suggest /\ before' = indexes
      /\ UNCHANGED <<indexes, workload, unread, uptime, applied>>
  BY DEF RunAnalysis
<1>2. indexes = before /\ OnTheTable(indexes) /\ workload \subseteq Statements
  BY <1>1 DEF AdviceInv
<1>3. \A f \in findings' : f.drop =>
        \/ f.kind = "unused index"
        \/ \E a \in before', b \in before' : f.object = a.name /\ Redundant(a, b)
  BY <1>1, FindingsAreSound
<1>4. \A s \in suggestions' :
        /\ s.columns \in Seq(STRING) \ (Existing \cup {<<>>})
        /\ \/ s.extends = Unnamed
           \/ \E e \in before' : s.extends = e.name /\ IsPrefix(e.columns, s.columns)
  BY <1>1, <1>2, SuggestionsAreSound
<1>5. before' = before
  BY <1>1, <1>2
<1>6. "unused index" \notin applied' => \A x \in before' : \E j \in indexes' : Serves(j, x)'
  BY <1>1, <1>5 DEF AdviceInv, Serves
<1> QED
  BY <1>1, <1>2, <1>3, <1>4, <1>6 DEF AdviceInv, OnTheTable

LEMMA FindingKeeps ==
  ASSUME AdviceInv, NEW f \in findings, ApplyFinding(f) PROVE AdviceInv'
<1>1. /\ f.drop /\ indexes' = {x \in indexes : x.name # f.object}
      /\ applied' = applied \cup {f.kind}
      /\ UNCHANGED <<workload, findings, suggestions, ran, before>>
  BY DEF ApplyFinding
<1>2. ran
  BY DEF AdviceInv
<1>3. ASSUME "unused index" \notin applied', NEW x \in before
      PROVE  \E j \in indexes' : Serves(j, x)
  <2>1. "unused index" \notin applied /\ f.kind # "unused index"
    BY <1>1, <1>3
  <2>2. PICK j \in indexes : Serves(j, x)
    BY <1>3, <2>1 DEF AdviceInv
  <2>3. PICK a \in before, b \in before : f.object = a.name /\ Redundant(a, b)
    BY <1>1, <2>1 DEF AdviceInv
  <2>4. a.name \in Existing /\ \A c \in before : c.name = a.name => c = a
    BY DEF AdviceInv, OnTheTable
  <2>5. j.name # f.object
    BY <2>2, <2>3, <2>4 DEF Serves
  <2> QED
    BY <1>1, <2>2, <2>5
<1>4. \A x \in before, j \in indexes' : Serves(j, x)' <=> Serves(j, x)
  BY <1>1 DEF Serves
<1>5. indexes' \subseteq AnIndex /\ <<>> \notin {j.name : j \in indexes'}
  BY <1>1 DEF AdviceInv
<1>6. "unused index" \notin applied' => \A x \in before' : \E j \in indexes' : Serves(j, x)'
  BY <1>1, <1>3, <1>4
<1> QED
  BY <1>1, <1>2, <1>5, <1>6 DEF AdviceInv, OnTheTable

LEMMA SuggestionKeeps ==
  ASSUME AdviceInv, NEW s \in suggestions, ApplySuggestion(s) PROVE AdviceInv'
<1> DEFINE new == Index(s.columns, s.columns, FALSE)
<1>1. /\ indexes' = {x \in indexes : x.name # s.extends} \cup {new}
      /\ applied' = applied \cup {"suggestion"}
      /\ UNCHANGED <<workload, findings, suggestions, ran, before>>
  BY DEF ApplySuggestion
<1>2. ran
  BY DEF AdviceInv
<1>3. /\ s.columns \in Seq(STRING) \ (Existing \cup {<<>>})
      /\ \/ s.extends = Unnamed
         \/ \E e \in before : s.extends = e.name /\ IsPrefix(e.columns, s.columns)
  BY DEF AdviceInv
<1>4. new \in AnIndex /\ new.name = s.columns /\ new.columns = s.columns
  BY <1>3 DEF Index, AnIndex
<1> HIDE DEF new
<1>5. ASSUME "unused index" \notin applied', NEW x \in before
      PROVE  \E j \in indexes' : Serves(j, x)
  <2>1. "unused index" \notin applied
    BY <1>1, <1>5
  <2>2. PICK j \in indexes : Serves(j, x)
    BY <1>5, <2>1 DEF AdviceInv
  <2>3. CASE j.name # s.extends
    BY <1>1, <2>2, <2>3
  <2>4. CASE j.name = s.extends
    <3>1. s.extends # Unnamed
      BY <2>4 DEF AdviceInv, Unnamed
    <3>2. PICK e \in before : s.extends = e.name /\ IsPrefix(e.columns, s.columns)
      BY <1>3, <3>1
    <3>3. e.name \in Existing /\ \A c \in before : c.name = e.name => c = e
      BY DEF AdviceInv, OnTheTable
    <3>4. j = e
      BY <2>2, <2>4, <3>2, <3>3 DEF Serves
    <3>5. x.columns \in Seq(STRING) /\ e.columns \in Seq(STRING) /\ s.columns \in Seq(STRING)
      BY <1>3 DEF AdviceInv, OnTheTable, AnIndex
    <3>6. IsPrefix(x.columns, s.columns)
      BY <2>2, <3>2, <3>4, <3>5, PrefixOfPrefix DEF Serves
    <3>7. Serves(new, x)
      BY <1>3, <1>4, <3>6 DEF Serves
    <3> QED
      BY <1>1, <3>7
  <2> QED
    BY <2>3, <2>4
<1>6. \A x \in before, j \in indexes' : Serves(j, x)' <=> Serves(j, x)
  BY <1>1 DEF Serves
<1>7. indexes' \subseteq AnIndex /\ <<>> \notin {j.name : j \in indexes'}
  <2>1. \A j \in indexes' : j \in indexes \/ j = new
    BY <1>1
  <2>2. \A j \in indexes : j \in AnIndex /\ j.name # <<>>
    BY DEF AdviceInv
  <2> QED
    BY <1>3, <1>4, <2>1, <2>2
<1>8. "unused index" \notin applied' => \A x \in before' : \E j \in indexes' : Serves(j, x)'
  BY <1>1, <1>5, <1>6
<1> QED
  BY <1>1, <1>2, <1>7, <1>8 DEF AdviceInv, OnTheTable

\* The advice may be followed in part and in any order: as long as no index is
\* dropped for want of reads, whatever was looked up in an index still is.  The
\* hypothesis is about names: were a proposed index to take the name of one
\* that was dropped as redundant, that advice would apply to it once more.
THEOREM LookupsAreKept ==
  ASSUME ProposalsAreFresh PROVE AdvisorSpec => []AdviceKeepsLookups
<1>1. AdvisorInit => AdviceInv
  BY AdviceBegins
<1>2. AdviceInv /\ [AdvisorNext]_advisorVars => AdviceInv'
  <2> SUFFICES ASSUME AdviceInv, [AdvisorNext]_advisorVars PROVE AdviceInv'
    OBVIOUS
  <2>1. CASE UNCHANGED advisorVars
    BY <2>1 DEF advisorVars, AdviceInv, OnTheTable, Serves
  <2> QED
    BY <2>1, AnalysisKeeps, FindingKeeps, SuggestionKeeps DEF AdvisorNext
<1>3. AdviceInv => AdviceKeepsLookups
  BY DEF AdviceInv, AdviceKeepsLookups, Serves
<1> QED
  BY <1>1, <1>2, <1>3, PTL DEF AdvisorSpec

\* Advice of the kinds that cost no constraint.
Harmless == {"duplicate index", "unused index"}
AdviceIsHarmless == applied \subseteq Harmless

\* Of the unique indexes over the same columns the last by name.
LastOfUnique(S, w) ==
  /\ w \in S /\ w.unique
  /\ \A b \in S : b.unique /\ b.columns = w.columns => Rank(b.name) <= Rank(w.name)

KeptInv ==
  /\ OnTheTable(before)
  /\ ~ran => indexes = before /\ findings = {} /\ suggestions = {}
  /\ \A f \in findings : f.drop /\ f.kind \in Harmless =>
       \A w \in before : LastOfUnique(before, w) => f.object # w.name
  /\ AdviceIsHarmless => \A w \in before : LastOfUnique(before, w) => w \in indexes

LEMMA UniqueHasLast ==
  ASSUME NEW S, OnTheTable(S), NEW x \in S, x.unique
  PROVE  \E w \in S : LastOfUnique(S, w) /\ w.columns = x.columns
<1> DEFINE T == {b \in S : b.unique /\ b.columns = x.columns}
           G == {Len(IndexNames) - Rank(b.name) : b \in T}
<1>1. Len(IndexNames) \in Nat /\ \A b \in S : Rank(b.name) \in 1..Len(IndexNames)
  BY AdvisorAssumption, LenProperties, RankOfName DEF OnTheTable
<1>2. G \subseteq Nat /\ G # {}
  <2>1. x \in T
    OBVIOUS
  <2>2. \A b \in T : Len(IndexNames) - Rank(b.name) \in Nat
    BY <1>1
  <2> QED
    BY <2>1, <2>2
<1>3. PICK n \in G : \A m \in G : n <= m
  BY <1>2, LeastOf
<1>4. PICK w \in T : n = Len(IndexNames) - Rank(w.name)
  OBVIOUS
<1>5. ASSUME NEW b \in T PROVE Rank(b.name) <= Rank(w.name)
  <2>1. n <= Len(IndexNames) - Rank(b.name)
    BY <1>3
  <2>2. Rank(b.name) \in Nat /\ Rank(w.name) \in Nat
    BY <1>1
  <2> QED
    BY <1>1, <1>4, <2>1, <2>2
<1> QED
  BY <1>4, <1>5 DEF LastOfUnique

\* A duplicate has a twin that is kept in its stead, further down by name.
LEMMA LastIsNotAdvised ==
  ASSUME OnTheTable(indexes), NEW f \in Analyze, f.drop, f.kind \in Harmless,
         NEW w \in indexes, LastOfUnique(indexes, w), f.object = w.name
  PROVE  FALSE
<1>1. CASE f \in UnusedIndexes
  <2>1. PICK x \in indexes : f = Finding("warn", "unused index", x.name, TRUE) /\ ~x.unique
    BY <1>1 DEF UnusedIndexes
  <2>2. f.object = x.name
    BY <2>1 DEF Finding
  <2> QED
    BY <2>1, <2>2 DEF LastOfUnique, OnTheTable
<1>2. CASE f \in RedundantIndexes
  <2> DEFINE Reason(a, b) ==
        Redundant(a, b) /\ \A c \in indexes : Redundant(a, c) => Rank(b.name) <= Rank(c.name)
             Why(a) == CHOOSE b \in indexes : Reason(a, b)
  <2>1. PICK a \in indexes :
          /\ \E b \in indexes : Redundant(a, b)
          /\ f = IF Len(a.columns) = Len(Why(a).columns)
                   THEN Finding("high", "duplicate index", a.name, TRUE)
                   ELSE Finding("warn", "redundant index", a.name, TRUE)
    BY <1>2 DEF RedundantIndexes
  <2>2. \E b \in indexes : Reason(a, b)
    <3> DEFINE G == {Rank(b.name) : b \in {b \in indexes : Redundant(a, b)}}
    <3>1. G \subseteq Nat /\ G # {}
      <4>1. \A b \in indexes : Rank(b.name) \in 1..Len(IndexNames)
        BY RankOfName DEF OnTheTable
      <4>2. \A b \in indexes : Rank(b.name) \in Nat
        BY <4>1
      <4> QED
        BY <2>1, <4>2
    <3>2. PICK n \in G : \A m \in G : n <= m
      BY <3>1, LeastOf
    <3> QED
      BY <3>2
  <2>3. Why(a) \in indexes /\ Redundant(a, Why(a))
    BY <2>2
  <2> HIDE DEF Why
  <2>4. f.object = a.name /\ Len(a.columns) = Len(Why(a).columns)
    <3>1. CASE Len(a.columns) = Len(Why(a).columns)
      BY <2>1, <3>1 DEF Finding
    <3>2. CASE Len(a.columns) # Len(Why(a).columns)
      BY <2>1, <3>2 DEF Finding, Harmless
    <3> QED
      BY <3>1, <3>2
  <2>5. a = w
    BY <2>4 DEF OnTheTable
  <2>6. /\ Why(a).unique /\ Why(a).name # a.name
        /\ ~(Rank(a.name) > Rank(Why(a).name)) /\ IsPrefix(a.columns, Why(a).columns)
    BY <2>3, <2>4, <2>5 DEF Redundant, LastOfUnique
  <2>7. Why(a).columns = a.columns
    <3>1. a.columns \in Seq(STRING) /\ Why(a).columns \in Seq(STRING)
      BY <2>3 DEF OnTheTable, AnIndex
    <3>2. \A k \in 1..Len(a.columns) : a.columns[k] = Why(a).columns[k]
      BY <2>6, <3>1, PrefixAtEach
    <3> QED
      BY <2>4, <3>1, <3>2, SeqEqual
  <2>8. Rank(Why(a).name) <= Rank(a.name)
    BY <2>3, <2>5, <2>6, <2>7 DEF LastOfUnique
  <2>9. Rank(a.name) \in Nat /\ Rank(Why(a).name) \in Nat
    BY <2>3, RankOfName DEF OnTheTable
  <2> QED
    BY <2>3, <2>6, <2>8, <2>9, RankOfName DEF OnTheTable
<1>3. CASE f \in MissingPk \cup StatementFindings
  <2>1. \E about, sev, kind : f = Finding(sev, kind, about, FALSE)
    BY <1>3 DEF MissingPk, StatementFindings
  <2> QED
    BY <2>1 DEF Finding
<1> QED
  BY <1>1, <1>2, <1>3 DEF Analyze

LEMMA UniqueKept == ASSUME KeptInv, [AdvisorNext]_advisorVars PROVE KeptInv'
<1>1. CASE RunAnalysis
  <2>1. /\ ~ran /\ ran' /\ findings' = Analyze /\ before' = indexes
        /\ UNCHANGED <<indexes, applied>>
    BY <1>1 DEF RunAnalysis
  <2>2. before = indexes /\ OnTheTable(indexes)
    BY <2>1 DEF KeptInv
  <2>3. \A f \in findings' : f.drop /\ f.kind \in Harmless =>
          \A w \in before' : LastOfUnique(before', w) => f.object # w.name
    BY <2>1, <2>2, LastIsNotAdvised
  <2> QED
    BY <2>1, <2>2, <2>3 DEF KeptInv, OnTheTable, LastOfUnique, AdviceIsHarmless
<1>2. ASSUME NEW f \in findings, ApplyFinding(f) PROVE KeptInv'
  <2>1. /\ f.drop /\ indexes' = {x \in indexes : x.name # f.object}
        /\ applied' = applied \cup {f.kind} /\ ran
        /\ UNCHANGED <<findings, suggestions, ran, before>>
    BY <1>2 DEF ApplyFinding, KeptInv
  <2>2. AdviceIsHarmless' => \A w \in before : LastOfUnique(before, w) => w \in indexes'
    BY <2>1 DEF KeptInv, AdviceIsHarmless
  <2> QED
    BY <2>1, <2>2 DEF KeptInv, OnTheTable, LastOfUnique
<1>3. ASSUME NEW s \in suggestions, ApplySuggestion(s) PROVE KeptInv'
  <2>1. applied' = applied \cup {"suggestion"} /\ ran /\ UNCHANGED <<findings, suggestions, ran, before>>
    BY <1>3 DEF ApplySuggestion, KeptInv
  <2>2. ~AdviceIsHarmless'
    BY <2>1 DEF AdviceIsHarmless, Harmless
  <2> QED
    BY <2>1, <2>2 DEF KeptInv, OnTheTable, LastOfUnique
<1>4. CASE UNCHANGED advisorVars
  BY <1>4 DEF advisorVars, KeptInv, OnTheTable, LastOfUnique, AdviceIsHarmless
<1> QED
  BY <1>1, <1>2, <1>3, <1>4 DEF AdvisorNext

\* Advice that drops only duplicates and what is never read loses no
\* constraint, in whatever order it is followed: of the unique indexes over the
\* same columns the last is never advised away, and what is unused is not unique.
THEOREM HarmlessAdviceKeepsConstraints ==
  AdvisorSpec => [](AdviceIsHarmless => ConstraintsSurvive)
<1>1. AdvisorInit => KeptInv
  <2> SUFFICES ASSUME AdvisorInit PROVE KeptInv
    OBVIOUS
  <2>1. OnTheTable(before)
    BY AdviceBegins DEF AdviceInv
  <2>2. indexes = before /\ findings = {} /\ suggestions = {}
    BY DEF AdvisorInit
  <2> QED
    BY <2>1, <2>2 DEF KeptInv
<1>2. KeptInv /\ [AdvisorNext]_advisorVars => KeptInv'
  BY UniqueKept
<1>3. KeptInv => (AdviceIsHarmless => ConstraintsSurvive)
  <2> SUFFICES ASSUME KeptInv, AdviceIsHarmless, NEW x \in before, x.unique
               PROVE  \E j \in indexes : j.unique /\ Range(j.columns) \subseteq Range(x.columns)
    BY DEF ConstraintsSurvive
  <2>1. PICK w \in before : LastOfUnique(before, w) /\ w.columns = x.columns
    BY UniqueHasLast DEF KeptInv
  <2>2. w \in indexes /\ w.unique
    BY <2>1 DEF KeptInv, LastOfUnique
  <2> QED
    BY <2>1, <2>2
<1> QED
  BY <1>1, <1>2, <1>3, PTL DEF AdvisorSpec

-----------------------------------------------------------------------------
(* The formatter.  A round of its loop writes one token, or the two of a    *)
(* phrase; this is what the rest depends on of how it does.                 *)

Written == [tok : Token, upper : BOOLEAN, sep : {"none", "line", "space"}]

\* What is upper-cased of the words that are not reserved.
Changes ==
  /\ tok \in Words /\ prev \notin BeforeNames
  /\ At(i + 1) = "(" \/ tok = "offset" \/ (tok = "end" /\ cases # <<>>)

\* The token is written after a new line, a space or nothing.
Writes(brk, space, upper) ==
  /\ tok # "" /\ i' = i + 1 /\ toks' = toks
  /\ text' = Append(text, Piece(brk, tok, space, upper))
  /\ fresh' \in BOOLEAN /\ unary' \in BOOLEAN
  /\ fresh => brk
  /\ IF tok \in Skipped THEN fresh' /\ prev' = prev /\ unary' = unary
     ELSE prev' = tok /\ (unary' => tok \in Signs)
  /\ tok \in Wordlike /\ prev \in Wordlike => brk \/ space
  /\ upper /\ tok \notin Reserved => Changes
  /\ cases' # <<>> => tok = "case" \/ (tok # ";" /\ cases # <<>>)
  /\ tok \in Signed /\ unary /\ ~fresh => ~brk /\ ~space
  /\ tok \in Signs => ~fresh'
  /\ tok \in Signs /\ prev \in Signs => unary'

WritesPhrase ==
  /\ tok = "group" /\ At(i + 1) = "by" /\ i' = i + 2 /\ toks' = toks
  /\ text' = text \o <<Piece(TRUE, "group", FALSE, TRUE), [tok |-> "by", upper |-> TRUE, sep |-> "space"]>>
  /\ prev' = "by" /\ unary' = FALSE /\ fresh' \in BOOLEAN /\ cases' = cases

WritesToken ==
  \E brk \in BOOLEAN, space \in BOOLEAN, upper \in BOOLEAN : Writes(brk, space, upper)

FormatTypes ==
  /\ toks \in Inputs /\ text \in Seq(Written)
  /\ i \in Nat \ {0} /\ i <= Len(toks) + 1 /\ Len(text) = i - 1
  /\ fresh \in BOOLEAN /\ unary \in BOOLEAN /\ (unary => prev \in Signs)

LEMMA LineCommentWrites == ASSUME FormatTypes, LineComment PROVE Writes(fresh, TRUE, FALSE)
BY DEF FormatTypes, LineComment, Push, Writes, Wordlike, Words, Reserved, Signed, Signs, Skipped

LEMMA BlockCommentWrites ==
  ASSUME FormatTypes, BlockComment PROVE Writes(fresh, prev # "", FALSE)
BY DEF FormatTypes, BlockComment, Push, Advance, Writes, Wordlike, Words, Reserved, Signed, Signs, Skipped

LEMMA SemicolonWrites == ASSUME FormatTypes, Semicolon PROVE Writes(fresh, FALSE, FALSE)
BY DEF FormatTypes, Semicolon, Push, Advance, Writes, Wordlike, Words, Reserved, Signed, Signs, Skipped

LEMMA OpenWrites == ASSUME FormatTypes, Open PROVE WritesToken
<1> DEFINE space == ~(prev \in Words \ Reserved /\ ~table) /\ prev \notin {"", "("} /\ ~unary
<1>1. /\ tok = "(" /\ Advance /\ Push(fresh, space, FALSE) /\ fresh' = (At(i + 1) = "select")
      /\ cases' = cases
  BY DEF Open
<1>2. space \in BOOLEAN /\ (unary => ~space)
  OBVIOUS
<1> HIDE DEF space
<1>3. Writes(fresh, space, FALSE)
  BY <1>1, <1>2 DEF FormatTypes, Push, Advance, Writes, Wordlike, Words, Reserved, Signed, Signs, Skipped
<1> QED
  BY <1>2, <1>3 DEF WritesToken, FormatTypes

LEMMA CloseWrites == ASSUME FormatTypes, Close PROVE WritesToken
<1> DEFINE f == parens[Len(parens)]
<1>1. /\ tok = ")" /\ Advance /\ fresh' = FALSE /\ cases' = cases
      /\ Push(fresh, FALSE, FALSE) \/ Push(fresh \/ f.block, FALSE, FALSE)
  BY DEF Close
<1>2. \E brk \in BOOLEAN : (fresh => brk) /\ Push(brk, FALSE, FALSE)
  <2>1. CASE Push(fresh, FALSE, FALSE)
    BY <2>1 DEF FormatTypes
  <2>2. CASE Push(fresh \/ f.block, FALSE, FALSE)
    BY <2>2
  <2> QED
    BY <1>1, <2>1, <2>2
<1>3. PICK brk \in BOOLEAN : (fresh => brk) /\ Push(brk, FALSE, FALSE)
  BY <1>2
<1>4. Writes(brk, FALSE, FALSE)
  BY <1>1, <1>3 DEF FormatTypes, Push, Advance, Writes, Wordlike, Words, Reserved, Signed, Signs, Skipped
<1> QED
  BY <1>4 DEF WritesToken

LEMMA CommaWrites == ASSUME FormatTypes, Comma PROVE Writes(fresh, FALSE, FALSE)
<1>1. tok = "," /\ Push(fresh, FALSE, FALSE) /\ Advance /\ fresh' \in BOOLEAN /\ cases' = cases
  BY DEF Comma
<1> QED
  BY <1>1 DEF FormatTypes, Push, Advance, Writes, Wordlike, Words, Reserved, Signed, Signs, Skipped

LEMMA ConnectiveWrites == ASSUME FormatTypes, Connective PROVE Writes(TRUE, FALSE, TRUE)
BY DEF FormatTypes, Connective, IsConnective, Word, ident_expected, Push, Advance, Writes, Changes,
       Wordlike, Words, Reserved, Signed, Signs, Skipped

LEMMA WhenWrites == ASSUME FormatTypes, When PROVE Writes(TRUE, FALSE, TRUE)
BY DEF FormatTypes, When, IsWhen, Word, ident_expected, Push, Advance, Writes, Changes,
       Wordlike, Words, Reserved, Signed, Signs, Skipped

LEMMA CaseEndWrites == ASSUME FormatTypes, CaseEnd PROVE Writes(TRUE, FALSE, TRUE)
BY DEF FormatTypes, CaseEnd, IsEnd, Word, ident_expected, Push, Advance, Writes, Changes,
       Wordlike, Words, Reserved, Signed, Signs, Skipped

LEMMA CaseHeadWrites == ASSUME FormatTypes, CaseHead PROVE WritesToken
<1> DEFINE space == prev \notin {"", "(", "."} /\ ~unary
<1>1. /\ tok = "case" /\ Advance /\ Push(fresh, space, TRUE) /\ fresh' = FALSE
  BY DEF CaseHead
<1>2. space \in BOOLEAN /\ (unary => ~space) /\ (prev \in Wordlike => space)
  BY DEF FormatTypes, Wordlike, Words, Reserved, Signs
<1> HIDE DEF space
<1>3. Writes(fresh, space, TRUE)
  BY <1>1, <1>2 DEF FormatTypes, Push, Advance, Writes, Wordlike, Words, Reserved, Signed, Signs, Skipped
<1> QED
  BY <1>2, <1>3 DEF WritesToken, FormatTypes

LEMMA OrdinaryWrites == ASSUME FormatTypes, Ordinary PROVE WritesToken
<1> DEFINE space == ~(tok = "." \/ prev \in {".", "(", ""} \/ unary)
<1>1. /\ tok \notin {"", "line comment"} /\ Push(fresh, space, Recased) /\ fresh' = FALSE
      /\ i' = i + 1 /\ prev' = tok /\ toks' = toks /\ cases' = cases /\ tok # ";"
      /\ unary' = (tok \in Signs /\ (prev \in {"", "(", ","} \/ (prev \in Punct /\ prev # ")")))
  BY DEF Ordinary, IsOrdinary
<1>2. /\ space \in BOOLEAN /\ (unary => ~space)
      /\ tok \in Wordlike /\ prev \in Wordlike => space
  BY DEF FormatTypes, Wordlike, Words, Reserved, Signs
<1>3. /\ Recased \in BOOLEAN
      /\ Recased /\ tok \notin Reserved => Changes
  BY DEF Recased, is_call, TablePosition, ident_expected, Changes, Words, Reserved, Punct, Signs
<1> HIDE DEF space
<1>4. Writes(fresh, space, Recased)
  BY <1>1, <1>2, <1>3 DEF FormatTypes, Push, Writes, Signs, Punct, Skipped
<1> QED
  BY <1>2, <1>3, <1>4 DEF WritesToken, FormatTypes

\* The phrase that is written is one of the phrases, and stands there.
LEMMA Matched ==
  ASSUME NEW heads, DOMAIN heads \subseteq Nat, Matches(i, heads) # {}
  PROVE  \E n \in DOMAIN heads : match_any(i, heads) = heads[n] /\ match_phrase(i, heads[n])
<1>1. Matches(i, heads) \subseteq DOMAIN heads /\ Matches(i, heads) \subseteq Nat
  BY DEF Matches
<1>2. PICK n \in Matches(i, heads) : \A m \in Matches(i, heads) : n <= m
  BY <1>1, LeastOf
<1> DEFINE k == CHOOSE x \in Matches(i, heads) : \A m \in Matches(i, heads) : x <= m
<1>3. k \in Matches(i, heads)
  BY <1>2
<1> HIDE DEF k
<1>4. match_any(i, heads) = heads[k]
  BY DEF match_any, k
<1> QED
  BY <1>3, <1>4 DEF Matches

LEMMA WordPhraseWrites ==
  ASSUME FormatTypes, NEW w \in {"select", "from", "offset", "join"}, match_phrase(i, <<w>>),
         Phrase(<<w>>), prev \notin BeforeNames, fresh' \in BOOLEAN
  PROVE  WritesToken
<1>1. tok = w
  <2>1. 1 \in DOMAIN <<w>> /\ <<w>>[1] = w /\ i + 1 - 1 = i
    BY DEF FormatTypes
  <2> QED
    BY <2>1 DEF match_phrase, tok
<1>2. text' = Append(text, Piece(TRUE, w, FALSE, TRUE)) /\ i' = i + 1
      /\ prev' = w /\ unary' = FALSE /\ toks' = toks /\ cases' = cases
  <2> DEFINE f == [n \in DOMAIN <<w>> |-> IF n = 1 THEN Piece(TRUE, <<w>>[n], FALSE, TRUE)
                                         ELSE [tok |-> <<w>>[n], upper |-> TRUE, sep |-> "space"]]
  <2>1. /\ text' = text \o f /\ i' = i + Len(<<w>>) /\ prev' = <<w>>[Len(<<w>>)]
        /\ unary' = FALSE /\ toks' = toks /\ cases' = cases
    BY DEF Phrase
  <2>2. DOMAIN <<w>> = {1} /\ Len(<<w>>) = 1 /\ <<w>>[1] = w
    OBVIOUS
  <2>3. f = [n \in {1} |-> Piece(TRUE, w, FALSE, TRUE)]
    BY <2>2
  <2> HIDE DEF f
  <2>4. f = <<Piece(TRUE, w, FALSE, TRUE)>>
    <3> DEFINE x == Piece(TRUE, w, FALSE, TRUE)
    <3> HIDE DEF x
    <3>1. [n \in {1} |-> x] = <<x>>
      OBVIOUS
    <3> QED
      BY <2>3, <3>1 DEF x
  <2>5. Piece(TRUE, w, FALSE, TRUE) \in Written
    <3>1. w \in Token
      BY DEF Token, Words, Reserved
    <3> QED
      BY <3>1 DEF Piece, Written
  <2>6. text \o <<Piece(TRUE, w, FALSE, TRUE)>> = Append(text, Piece(TRUE, w, FALSE, TRUE))
    BY <2>5, AppendIsConcat DEF FormatTypes
  <2> QED
    BY <2>1, <2>2, <2>4, <2>6
<1>3. Writes(TRUE, FALSE, TRUE)
  BY <1>1, <1>2 DEF FormatTypes, Writes, Changes, Wordlike, Words, Reserved, Signed, Signs, Skipped
<1> QED
  BY <1>3 DEF WritesToken

LEMMA GroupByWrites ==
  ASSUME FormatTypes, match_phrase(i, <<"group", "by">>), Phrase(<<"group", "by">>),
         fresh' \in BOOLEAN
  PROVE  WritesPhrase
<1> DEFINE p == <<"group", "by">>
<1>1. DOMAIN p = {1, 2} /\ Len(p) = 2 /\ p[1] = "group" /\ p[2] = "by" /\ DOMAIN p = 1..2
  OBVIOUS
<1>2. tok = "group" /\ At(i + 1) = "by"
  <2>1. i + 1 - 1 = i /\ i + 2 - 1 = i + 1
    BY DEF FormatTypes
  <2> QED
    BY <1>1, <2>1 DEF match_phrase, tok
<1> DEFINE f == [n \in DOMAIN p |-> IF n = 1 THEN Piece(TRUE, p[n], FALSE, TRUE)
                                    ELSE [tok |-> p[n], upper |-> TRUE, sep |-> "space"]]
<1>3. /\ text' = text \o f /\ i' = i + Len(p) /\ prev' = p[Len(p)]
      /\ unary' = FALSE /\ toks' = toks /\ cases' = cases
  BY DEF Phrase
<1>4. f = <<Piece(TRUE, "group", FALSE, TRUE), [tok |-> "by", upper |-> TRUE, sep |-> "space"]>>
  <2> DEFINE x == Piece(TRUE, "group", FALSE, TRUE)
             y == [tok |-> "by", upper |-> TRUE, sep |-> "space"]
  <2>1. f = [n \in 1..2 |-> IF n = 1 THEN x ELSE y]
    BY <1>1
  <2> HIDE DEF x, y, f
  <2>2. [n \in 1..2 |-> IF n = 1 THEN x ELSE y] = <<x, y>>
    OBVIOUS
  <2> QED
    BY <2>1, <2>2 DEF x, y
<1> HIDE DEF f
<1> QED
  BY <1>1, <1>2, <1>3, <1>4 DEF WritesPhrase

LEMMA ClauseHeadWrites == ASSUME FormatTypes, ClauseHead PROVE WritesToken \/ WritesPhrase
<1> DEFINE p == match_any(i, TOP_LEVEL)
<1>1. /\ Matches(i, TOP_LEVEL) # {} /\ prev \notin BeforeNames
      /\ Phrase(p) /\ fresh' \in BOOLEAN
  BY DEF ClauseHead, IsHead, Word, ident_expected
<1> HIDE DEF p
<1>2. /\ DOMAIN TOP_LEVEL = 1..4
      /\ TOP_LEVEL[1] = <<"group", "by">> /\ TOP_LEVEL[2] = <<"select">>
      /\ TOP_LEVEL[3] = <<"from">> /\ TOP_LEVEL[4] = <<"offset">>
  BY DEF TOP_LEVEL
<1>3. PICK n \in 1..4 : p = TOP_LEVEL[n] /\ match_phrase(i, p)
  <2>1. DOMAIN TOP_LEVEL \subseteq Nat
    BY <1>2
  <2> QED
    BY <1>1, <1>2, <2>1, Matched DEF p
<1>4. \/ p = <<"group", "by">>
      \/ \E w \in {"select", "from", "offset", "join"} : p = <<w>>
  BY <1>2, <1>3
<1> QED
  BY <1>1, <1>3, <1>4, WordPhraseWrites, GroupByWrites

LEMMA JoinHeadWrites == ASSUME FormatTypes, JoinHead PROVE WritesToken
<1> DEFINE p == match_any(i, JOINS)
<1>1. /\ Matches(i, JOINS) # {} /\ prev \notin BeforeNames
      /\ Phrase(p) /\ fresh' \in BOOLEAN
  BY DEF JoinHead, IsJoin, Word, ident_expected
<1> HIDE DEF p
<1>2. DOMAIN JOINS = {1} /\ JOINS[1] = <<"join">>
  BY DEF JOINS
<1>3. PICK n \in {1} : p = JOINS[n] /\ match_phrase(i, p)
  <2>1. DOMAIN JOINS \subseteq Nat
    BY <1>2
  <2> QED
    BY <1>1, <1>2, <2>1, Matched DEF p
<1>4. p = <<"join">>
  BY <1>2, <1>3
<1> QED
  BY <1>1, <1>3, <1>4, WordPhraseWrites

LEMMA RoundWrites == ASSUME FormatTypes, FormatNext PROVE WritesToken \/ WritesPhrase
<1>1. TRUE \in BOOLEAN /\ FALSE \in BOOLEAN /\ fresh \in BOOLEAN /\ (prev # "") \in BOOLEAN
  BY DEF FormatTypes
<1>2. \A brk \in BOOLEAN, space \in BOOLEAN, upper \in BOOLEAN :
        Writes(brk, space, upper) => WritesToken
  BY DEF WritesToken
<1>3. CASE LineComment
  BY <1>1, <1>2, <1>3, LineCommentWrites
<1>4. CASE BlockComment
  BY <1>1, <1>2, <1>4, BlockCommentWrites
<1>5. CASE Semicolon
  BY <1>1, <1>2, <1>5, SemicolonWrites
<1>6. CASE Comma
  BY <1>1, <1>2, <1>6, CommaWrites
<1>7. CASE Connective \/ When \/ CaseEnd
  BY <1>1, <1>2, <1>7, ConnectiveWrites, WhenWrites, CaseEndWrites
<1> QED
  BY <1>3, <1>4, <1>5, <1>6, <1>7, OpenWrites, CloseWrites, ClauseHeadWrites, JoinHeadWrites,
     CaseHeadWrites, OrdinaryWrites DEF FormatNext

\* What is written is the tokens so far.  The last of them decides what may
\* stand before the next: a new line after a line comment, and nothing after
\* two signs in a row.  `prev` is the last that is no line comment, and an open
\* CASE is one of this statement.
CommentsEnd == \A n \in 2..i - 1 : toks[n - 1] = "line comment" => text[n].sep = "line"
WordsApart ==
  \A n \in 2..i - 1 : {toks[n - 1], toks[n]} \subseteq Wordlike => text[n].sep # "none"
SignsGlued ==
  \A n \in 3..i - 1 :
    {toks[n - 2], toks[n - 1]} \subseteq Signs /\ text[n - 1].sep = "none" /\ toks[n] \in Signed
      => text[n].sep = "none"
CaseKept == \A n \in 1..i - 1 : text[n].upper => toks[n] \in Reserved \/ MayChange(n)
LastToken ==
  /\ i > 1 => IF toks[i - 1] \in Skipped THEN fresh ELSE prev = toks[i - 1]
  /\ i > 1 /\ toks[i - 1] \in Signs => ~fresh
  /\ i > 2 /\ toks[i - 2] \in Signs /\ toks[i - 1] \in Signs => unary
PrevIsLast ==
  \A m \in 1..i - 1 :
    toks[m] \notin Skipped /\ (\A k \in m + 1..i - 1 : toks[k] \in Skipped) => prev = toks[m]
OpenCase ==
  cases # <<>> => \E m \in 1..i - 1 : toks[m] = "case" /\ \A k \in m..i - 1 : toks[k] # ";"

FormatInv ==
  /\ FormatTypes /\ LastToken /\ PrevIsLast /\ OpenCase
  /\ \A n \in 1..i - 1 : text[n].tok = toks[n]
  /\ CommentsEnd /\ WordsApart /\ SignsGlued /\ CaseKept

LEMMA FormatBegins ==
  ASSUME FormatInit PROVE FormatInv
<1>1. /\ toks \in Inputs /\ i = 1 /\ text = <<>> /\ fresh = FALSE /\ unary = FALSE
      /\ cases = <<>>
  BY DEF FormatInit
<1>2. Len(toks) \in Nat
  BY <1>1, InputsAssumption, LenProperties
<1>3. text \in Seq(Written) /\ Len(text) = 0
  BY <1>1, EmptySeq
<1>4. FormatTypes
  <2>1. i \in Nat \ {0} /\ i <= Len(toks) + 1 /\ Len(text) = i - 1
    BY <1>1, <1>2, <1>3
  <2> QED
    BY <1>1, <1>3, <2>1 DEF FormatTypes
<1>5. 1..i - 1 = {} /\ 2..i - 1 = {} /\ 3..i - 1 = {}
  BY <1>1
<1> QED
  BY <1>1, <1>4, <1>5 DEF FormatInv, LastToken, PrevIsLast, OpenCase, CommentsEnd, WordsApart,
                          SignsGlued, CaseKept

\* A piece, by what it stands after.
LEMMA PieceFields ==
  ASSUME FormatTypes, NEW w \in Token,
         NEW brk \in BOOLEAN, NEW space \in BOOLEAN, NEW upper \in BOOLEAN
  PROVE  LET x == Piece(brk, w, space, upper)
         IN /\ x \in Written /\ x.tok = w /\ x.upper = upper
            /\ i > 1 => /\ brk => x.sep = "line"
                        /\ space => x.sep # "none"
                        /\ ~brk /\ ~space => x.sep = "none"
<1>1. i > 1 => text # <<>>
  <2>1. i > 1 => Len(text) # 0
    BY DEF FormatTypes
  <2>2. Len(<<>>) = 0
    BY EmptySeq
  <2> QED
    BY <2>1, <2>2
<1> DEFINE s == IF text = <<>> THEN "none" ELSE IF brk THEN "line" ELSE IF space THEN "space" ELSE "none"
<1>2. /\ s \in {"none", "line", "space"}
      /\ i > 1 => /\ brk => s = "line"
                  /\ space => s # "none"
                  /\ ~brk /\ ~space => s = "none"
  BY <1>1
<1>3. Piece(brk, w, space, upper) = [tok |-> w, upper |-> upper, sep |-> s]
  BY DEF Piece
<1> HIDE DEF s
<1> QED
  BY <1>2, <1>3 DEF Written

\* Which words may change is a matter of the statement alone.
LEMMA MayChangeStays ==
  ASSUME toks' = toks, NEW n \in Nat PROVE MayChange(n)' <=> MayChange(n)
BY DEF MayChange, Follows, EndsCase, At

\* A line comment is not what a name is due after.
LEMMA NoCommentIsBeforeNames == \A t \in BeforeNames : t \notin Skipped
BY DEF BeforeNames, Skipped

\* What the loop upper-cases at its token may change there.
LEMMA ChangesMay ==
  ASSUME FormatTypes, PrevIsLast, OpenCase, Changes,
         DOMAIN toks = 1..Len(toks), Len(toks) \in Nat, i \in 1..Len(toks)
  PROVE  MayChange(i)
<1>1. \A k \in 1..i : At(k) = toks[k]
  <2>1. \A k \in 1..i : k \in 1..Len(toks)
    OBVIOUS
  <2> QED
    BY <2>1 DEF At
<1>2. At(i) = tok /\ At(i) \in Words
  BY DEF Changes, tok
<1>3. ~Follows(i, BeforeNames, Skipped)
  <2> SUFFICES ASSUME Follows(i, BeforeNames, Skipped) PROVE FALSE
    OBVIOUS
  <2>0. PICK m \in 1..i - 1 : At(m) \in BeforeNames /\ \A k \in m + 1..i - 1 : At(k) \in Skipped
    BY Zenon DEF Follows
  <2>1. m \in 1..i /\ \A k \in m + 1..i - 1 : k \in 1..i
    OBVIOUS
  <2>2. /\ toks[m] \in BeforeNames /\ toks[m] \notin Skipped
        /\ \A k \in m + 1..i - 1 : toks[k] \in Skipped
    BY <1>1, <2>0, <2>1, NoCommentIsBeforeNames
  <2>3. prev = toks[m]
    BY <2>2 DEF PrevIsLast
  <2> QED
    BY <2>2, <2>3 DEF Changes
<1>4. ASSUME tok = "end", cases # <<>> PROVE EndsCase(i)
  <2>1. PICK m \in 1..i - 1 : toks[m] = "case" /\ \A k \in m..i - 1 : toks[k] # ";"
    BY <1>4 DEF OpenCase
  <2>2. m \in 1..i /\ \A k \in m..i : k \in 1..i /\ (k \in m..i - 1 \/ k = i)
    OBVIOUS
  <2>3. At(m) = "case" /\ \A k \in m..i : At(k) # ";"
    BY <1>1, <1>2, <1>4, <2>1, <2>2
  <2> QED
    BY <1>2, <1>4, <2>1, <2>3 DEF EndsCase
<1>5. At(i + 1) = "(" \/ At(i) = "offset" \/ EndsCase(i)
  BY <1>2, <1>4 DEF Changes
<1> QED
  BY <1>2, <1>3, <1>5 DEF MayChange

LEMMA TokenKeeps ==
  ASSUME FormatInv, WritesToken PROVE FormatInv'
<1>1. PICK brk \in BOOLEAN, space \in BOOLEAN, upper \in BOOLEAN : Writes(brk, space, upper)
  BY DEF WritesToken
<1>2. FormatTypes /\ toks \in Seq(Token) /\ Len(toks) \in Nat /\ DOMAIN toks = 1..Len(toks)
  BY InputsAssumption, LenProperties DEF FormatInv, FormatTypes
<1>3. tok = toks[i] /\ i \in 1..Len(toks) /\ tok \in Token
  <2>1. i \in DOMAIN toks
    BY <1>1 DEF Writes, tok, At
  <2> QED
    BY <1>2, <2>1, ElementOfSeq DEF tok, At
<1> DEFINE x == Piece(brk, tok, space, upper)
<1>4. /\ x \in Written /\ x.tok = tok /\ x.upper = upper
      /\ i > 1 => /\ brk => x.sep = "line"
                  /\ space => x.sep # "none"
                  /\ ~brk /\ ~space => x.sep = "none"
  BY <1>2, <1>3, PieceFields
<1>5. text' = Append(text, x) /\ i' = i + 1 /\ toks' = toks
  BY <1>1 DEF Writes
<1> HIDE DEF x
<1>6. /\ text' \in Seq(Written) /\ Len(text') = i /\ text'[i] = x
      /\ \A n \in 1..i - 1 : text'[n] = text[n]
  <2>1. text \in Seq(Written) /\ Len(text) = i - 1 /\ i \in Nat \ {0}
    BY <1>2 DEF FormatTypes
  <2>2. /\ Append(text, x) \in Seq(Written) /\ Len(Append(text, x)) = Len(text) + 1
        /\ Append(text, x)[Len(text) + 1] = x
        /\ \A n \in 1..Len(text) : Append(text, x)[n] = text[n]
    BY <1>4, <2>1, AppendProperties
  <2> QED
    BY <1>5, <2>1, <2>2
<1>7. FormatTypes'
  <2>1. fresh' \in BOOLEAN /\ unary' \in BOOLEAN /\ (unary' => prev' \in Signs)
    BY <1>1, <1>2 DEF Writes, FormatTypes
  <2> QED
    BY <1>2, <1>3, <1>5, <1>6, <2>1 DEF FormatTypes
<1>8. i \in Nat \ {0} /\ i' - 1 = i /\ i' - 2 = i - 1
  BY <1>3, <1>5
<1>9. \A n \in 2..i : n \in 2..i - 1 \/ n = i
  BY <1>8
<1>10. \A n \in 1..i' - 1 : text'[n].tok = toks'[n]
  <2>1. \A n \in 1..i' - 1 : n \in 1..i - 1 \/ n = i
    BY <1>8
  <2> QED
    BY <1>3, <1>4, <1>5, <1>6, <2>1 DEF FormatInv
<1>11. /\ IF tok \in Skipped THEN fresh' ELSE prev' = tok
       /\ tok \in Signs => ~fresh'
  BY <1>1 DEF Writes
<1>12. ASSUME i > 1, toks[i - 1] \in Signs, tok \in Signs PROVE unary'
  <2>1. toks[i - 1] \notin Skipped
    BY <1>12 DEF Signs, Skipped
  <2>2. prev \in Signs
    BY <1>12, <2>1 DEF FormatInv, LastToken
  <2> QED
    BY <1>1, <1>12, <2>2 DEF Writes
<1>13. ASSUME i > 1, toks[i - 1] = "line comment" PROVE x.sep = "line"
  <2>1. fresh
    BY <1>13 DEF FormatInv, LastToken, Skipped
  <2> QED
    BY <1>1, <1>4, <1>13, <2>1 DEF Writes
<1>14. ASSUME i > 1, toks[i - 1] \in Wordlike, tok \in Wordlike PROVE x.sep # "none"
  <2>1. toks[i - 1] \notin Skipped
    BY <1>14 DEF Wordlike, Words, Reserved, Skipped
  <2>2. prev \in Wordlike
    BY <1>14, <2>1 DEF FormatInv, LastToken
  <2>3. brk \/ space
    BY <1>1, <1>14, <2>2 DEF Writes
  <2> QED
    BY <1>4, <1>14, <2>3
<1>15. ASSUME i > 2, toks[i - 2] \in Signs, toks[i - 1] \in Signs, tok \in Signed
       PROVE  x.sep = "none"
  <2>1. unary /\ ~fresh
    <3>1. i > 1
      BY <1>8, <1>15
    <3> QED
      BY <1>15, <3>1 DEF FormatInv, LastToken
  <2>2. ~brk /\ ~space
    BY <1>1, <1>15, <2>1 DEF Writes
  <2> QED
    BY <1>4, <1>8, <1>15, <2>2
<1>16. ASSUME x.upper PROVE toks[i] \in Reserved \/ MayChange(i)
  <2>1. CASE tok \in Reserved
    BY <1>3, <2>1
  <2>2. CASE tok \notin Reserved
    <3>1. Changes
      BY <1>1, <1>4, <1>16, <2>2 DEF Writes
    <3> QED
      BY <1>2, <1>3, <3>1, ChangesMay DEF FormatInv
  <2> QED
    BY <2>1, <2>2
<1>17. CommentsEnd'
  <2> SUFFICES ASSUME NEW n \in 2..i PROVE toks'[n - 1] = "line comment" => text'[n].sep = "line"
    BY <1>5, <1>8 DEF CommentsEnd
  <2>1. CASE n \in 2..i - 1
    <3>1. n \in 1..i - 1
      BY <1>8, <2>1
    <3> QED
      BY <1>5, <1>6, <2>1, <3>1 DEF FormatInv, CommentsEnd
  <2>2. CASE n = i
    <3>1. i > 1
      BY <1>8, <2>2
    <3> QED
      BY <1>3, <1>5, <1>6, <1>13, <2>2, <3>1
  <2> QED
    BY <1>9, <2>1, <2>2
<1>18. WordsApart'
  <2> SUFFICES ASSUME NEW n \in 2..i PROVE {toks'[n - 1], toks'[n]} \subseteq Wordlike => text'[n].sep # "none"
    BY <1>5, <1>8 DEF WordsApart
  <2>1. CASE n \in 2..i - 1
    <3>1. n \in 1..i - 1
      BY <1>8, <2>1
    <3> QED
      BY <1>5, <1>6, <2>1, <3>1 DEF FormatInv, WordsApart
  <2>2. CASE n = i
    <3>1. i > 1
      BY <1>8, <2>2
    <3> QED
      BY <1>3, <1>5, <1>6, <1>14, <2>2, <3>1
  <2> QED
    BY <1>9, <2>1, <2>2
<1>19. SignsGlued'
  <2> SUFFICES ASSUME NEW n \in 3..i
               PROVE  {toks[n - 2], toks[n - 1]} \subseteq Signs /\ text'[n - 1].sep = "none"
                        /\ toks[n] \in Signed => text'[n].sep = "none"
    BY <1>5, <1>8 DEF SignsGlued
  <2>1. CASE n \in 3..i - 1
    <3>1. n \in 1..i - 1 /\ n - 1 \in 1..i - 1
      BY <1>8, <2>1
    <3> QED
      BY <1>5, <1>6, <2>1, <3>1 DEF FormatInv, SignsGlued
  <2>2. CASE n = i
    <3>1. i > 2
      BY <1>8, <2>2
    <3>2. toks[i - 2] \in Signs /\ toks[i - 1] \in Signs /\ tok \in Signed => x.sep = "none"
      BY <1>15, <3>1
    <3> QED
      BY <1>3, <1>5, <1>6, <2>2, <3>2
  <2> QED
    BY <1>8, <2>1, <2>2
<1>20. CaseKept'
  <2> SUFFICES ASSUME NEW n \in 1..i, text'[n].upper PROVE toks[n] \in Reserved \/ MayChange(n)
    <3>1. \A n \in 1..i : n \in Nat
      BY <1>8
    <3>2. \A n \in 1..i : MayChange(n)' <=> MayChange(n)
      BY <1>5, <3>1, MayChangeStays
    <3> QED
      BY <1>5, <1>8, <3>2 DEF CaseKept
  <2>1. CASE n \in 1..i - 1
    BY <1>6, <2>1 DEF FormatInv, CaseKept
  <2>2. CASE n = i
    BY <1>6, <1>16, <2>2
  <2> QED
    BY <1>8, <2>1, <2>2
<1>21. LastToken'
  <2>1. i' > 2 => i > 1
    BY <1>5, <1>8
  <2>2. toks'[i' - 1] = tok /\ toks'[i' - 2] = toks[i - 1]
    BY <1>3, <1>5, <1>8
  <2> QED
    BY <1>11, <1>12, <2>1, <2>2 DEF LastToken
<1>22. PrevIsLast'
  <2> SUFFICES ASSUME NEW m \in 1..i, toks[m] \notin Skipped,
                      \A k \in m + 1..i : toks[k] \in Skipped
               PROVE  prev' = toks[m]
    BY <1>5, <1>8 DEF PrevIsLast
  <2>1. CASE m = i
    BY <1>3, <1>11, <2>1
  <2>2. CASE m \in 1..i - 1
    <3>1. i \in m + 1..i /\ \A k \in m + 1..i - 1 : k \in m + 1..i
      BY <1>8, <2>2
    <3>2. prev' = prev
      BY <1>1, <1>3, <3>1 DEF Writes
    <3> QED
      BY <2>2, <3>1, <3>2 DEF FormatInv, PrevIsLast
  <2> QED
    BY <1>8, <2>1, <2>2
<1>23. OpenCase'
  <2> SUFFICES ASSUME cases' # <<>>
               PROVE  \E m \in 1..i : toks[m] = "case" /\ \A k \in m..i : toks[k] # ";"
    BY <1>5, <1>8 DEF OpenCase
  <2>1. tok = "case" \/ (tok # ";" /\ cases # <<>>)
    BY <1>1 DEF Writes
  <2>2. CASE tok = "case"
    <3>1. i \in 1..i /\ \A k \in i..i : k = i
      BY <1>8
    <3> QED
      BY <1>3, <2>2, <3>1
  <2>3. CASE tok # ";" /\ cases # <<>>
    <3>1. PICK m \in 1..i - 1 : toks[m] = "case" /\ \A k \in m..i - 1 : toks[k] # ";"
      BY <2>3 DEF FormatInv, OpenCase
    <3>2. m \in 1..i /\ \A k \in m..i : k \in m..i - 1 \/ k = i
      BY <1>8
    <3> QED
      BY <1>3, <2>3, <3>1, <3>2
  <2> QED
    BY <2>1, <2>2, <2>3
<1> QED
  BY <1>7, <1>10, <1>17, <1>18, <1>19, <1>20, <1>21, <1>22, <1>23 DEF FormatInv

LEMMA PhraseKeeps ==
  ASSUME FormatInv, WritesPhrase PROVE FormatInv'
<1> DEFINE x == Piece(TRUE, "group", FALSE, TRUE)
           y == [tok |-> "by", upper |-> TRUE, sep |-> "space"]
<1>1. /\ tok = "group" /\ At(i + 1) = "by" /\ i' = i + 2 /\ toks' = toks
      /\ text' = text \o <<x, y>> /\ prev' = "by" /\ unary' = FALSE /\ fresh' \in BOOLEAN
      /\ cases' = cases
  BY DEF WritesPhrase
<1>2. FormatTypes /\ toks \in Seq(Token) /\ Len(toks) \in Nat /\ DOMAIN toks = 1..Len(toks)
  BY InputsAssumption, LenProperties DEF FormatInv, FormatTypes
<1>3. i \in Nat \ {0} /\ i' - 1 = i + 1 /\ i' - 2 = i
  BY <1>1, <1>2 DEF FormatTypes
<1>4. toks[i] = "group" /\ toks[i + 1] = "by" /\ i + 1 <= Len(toks)
  <2>1. i \in DOMAIN toks /\ i + 1 \in DOMAIN toks
    BY <1>1 DEF tok, At
  <2> QED
    BY <1>1, <1>2, <2>1 DEF tok, At
<1>5. /\ x \in Written /\ x.tok = "group" /\ (i > 1 => x.sep = "line")
  <2>1. "group" \in Token
    BY DEF Token, Words, Reserved
  <2> QED
    BY <1>2, <2>1, PieceFields
<1>6. y \in Written /\ y.tok = "by" /\ y.sep = "space"
  BY DEF Written, Token, Words, Reserved
<1> HIDE DEF x, y
<1>7. /\ text' \in Seq(Written) /\ Len(text') = i + 1 /\ text'[i] = x /\ text'[i + 1] = y
      /\ \A n \in 1..i - 1 : text'[n] = text[n]
  <2>1. text \in Seq(Written) /\ Len(text) = i - 1
    BY <1>2 DEF FormatTypes
  <2>2. <<x, y>> \in Seq(Written) /\ Len(<<x, y>>) = 2 /\ <<x, y>>[1] = x /\ <<x, y>>[2] = y
    BY <1>5, <1>6
  <2> DEFINE z == <<x, y>>
  <2> HIDE DEF z
  <2>3. z \in Seq(Written) /\ Len(z) = 2 /\ z[1] = x /\ z[2] = y
    BY <2>2 DEF z
  <2>4. /\ text \o z \in Seq(Written) /\ Len(text \o z) = Len(text) + Len(z)
        /\ \A n \in 1..Len(text) + Len(z) :
             (text \o z)[n] = IF n <= Len(text) THEN text[n] ELSE z[n - Len(text)]
    BY <2>1, <2>3, ConcatProperties
  <2>5. text' = text \o z
    BY <1>1 DEF z
  <2> DEFINE w == text \o z
  <2> HIDE DEF w
  <2>6. /\ Len(text) + Len(z) = i + 1 /\ i - Len(text) = 1 /\ i + 1 - Len(text) = 2
        /\ i \in 1..i + 1 /\ i + 1 \in 1..i + 1 /\ ~(i <= Len(text)) /\ ~(i + 1 <= Len(text))
    BY <1>3, <2>1, <2>3
  <2>7. w[i] = x /\ w[i + 1] = y
    BY <2>3, <2>4, <2>6 DEF w
  <2>8. \A n \in 1..i - 1 : n \in 1..i + 1 /\ n <= Len(text)
    BY <1>3, <2>1
  <2>9. \A n \in 1..i - 1 : w[n] = text[n]
    BY <2>4, <2>6, <2>8 DEF w
  <2> QED
    BY <2>4, <2>5, <2>6, <2>7, <2>9 DEF w
<1>8. FormatTypes'
  <2>1. toks \in Inputs
    BY <1>2 DEF FormatTypes
  <2>2. i' \in Nat \ {0} /\ i' <= Len(toks) + 1 /\ Len(text') = i' - 1
    BY <1>1, <1>2, <1>3, <1>4, <1>7
  <2> QED
    BY <1>1, <1>7, <2>1, <2>2 DEF FormatTypes
<1>9. \A n \in 1..i' - 1 : text'[n].tok = toks'[n]
  <2>1. \A n \in 1..i' - 1 : n \in 1..i - 1 \/ n = i \/ n = i + 1
    BY <1>3
  <2> QED
    BY <1>1, <1>4, <1>5, <1>6, <1>7, <2>1 DEF FormatInv
<1>10. \A n \in 2..i + 1 : (n \in 2..i - 1 /\ n \in 1..i - 1) \/ (n = i /\ i > 1) \/ n = i + 1
  BY <1>3
<1>11. toks[i] # "line comment"
  BY <1>4
<1>11a. toks[i] \notin Signs /\ toks[i] \notin Signed
  BY <1>4 DEF Signs, Signed
<1>12. CommentsEnd'
  <2> SUFFICES ASSUME NEW n \in 2..i + 1 PROVE toks[n - 1] = "line comment" => text'[n].sep = "line"
    BY <1>1, <1>3 DEF CommentsEnd
  <2>1. CASE n \in 2..i - 1 /\ n \in 1..i - 1
    BY <1>7, <2>1 DEF FormatInv, CommentsEnd
  <2>2. CASE n = i /\ i > 1
    BY <1>5, <1>7, <2>2
  <2>3. CASE n = i + 1
    <3>1. n - 1 = i
      BY <1>3, <2>3
    <3> QED
      BY <1>11, <3>1
  <2> QED
    BY <1>10, <2>1, <2>2, <2>3
<1>13. WordsApart'
  <2> SUFFICES ASSUME NEW n \in 2..i + 1
               PROVE  {toks[n - 1], toks[n]} \subseteq Wordlike => text'[n].sep # "none"
    BY <1>1, <1>3 DEF WordsApart
  <2>1. CASE n \in 2..i - 1 /\ n \in 1..i - 1
    BY <1>7, <2>1 DEF FormatInv, WordsApart
  <2> QED
    BY <1>5, <1>6, <1>7, <1>10, <2>1
<1>14. SignsGlued'
  <2> SUFFICES ASSUME NEW n \in 3..i + 1
               PROVE  {toks[n - 2], toks[n - 1]} \subseteq Signs /\ text'[n - 1].sep = "none"
                        /\ toks[n] \in Signed => text'[n].sep = "none"
    BY <1>1, <1>3 DEF SignsGlued
  <2>1. CASE n \in 3..i - 1
    <3>1. n \in 1..i - 1 /\ n - 1 \in 1..i - 1
      BY <1>3, <2>1
    <3> QED
      BY <1>7, <2>1, <3>1 DEF FormatInv, SignsGlued
  <2>2. CASE n = i
    BY <1>11a, <2>2
  <2>3. CASE n = i + 1
    <3>1. n - 1 = i
      BY <1>3, <2>3
    <3> QED
      BY <1>11a, <3>1
  <2> QED
    BY <1>3, <2>1, <2>2, <2>3
<1>15. CaseKept'
  <2> SUFFICES ASSUME NEW n \in 1..i + 1, text'[n].upper PROVE toks[n] \in Reserved \/ MayChange(n)
    <3>1. \A n \in 1..i + 1 : n \in Nat
      BY <1>3
    <3>2. \A n \in 1..i + 1 : MayChange(n)' <=> MayChange(n)
      BY <1>1, <3>1, MayChangeStays
    <3> QED
      BY <1>1, <1>3, <3>2 DEF CaseKept
  <2>1. CASE n \in 1..i - 1
    BY <1>7, <2>1 DEF FormatInv, CaseKept
  <2>2. CASE n = i \/ n = i + 1
    BY <1>4, <2>2 DEF Reserved
  <2> QED
    BY <1>3, <2>1, <2>2
<1>16. LastToken'
  <2>1. toks'[i' - 1] = "by" /\ "by" \notin Signs /\ "by" \notin Skipped
    BY <1>1, <1>3, <1>4 DEF Signs, Skipped
  <2> QED
    BY <1>1, <2>1 DEF LastToken
<1>17. PrevIsLast'
  <2> SUFFICES ASSUME NEW m \in 1..i + 1, \A k \in m + 1..i + 1 : toks[k] \in Skipped
               PROVE  toks[m] = "by"
    BY <1>1, <1>3 DEF PrevIsLast
  <2>1. m < i + 1 => i + 1 \in m + 1..i + 1
    BY <1>3
  <2>2. toks[i + 1] \notin Skipped
    BY <1>4 DEF Skipped
  <2> QED
    BY <1>3, <1>4, <2>1, <2>2
<1>18. OpenCase'
  <2> SUFFICES ASSUME cases # <<>>
               PROVE  \E m \in 1..i + 1 : toks[m] = "case" /\ \A k \in m..i + 1 : toks[k] # ";"
    BY <1>1, <1>3 DEF OpenCase
  <2>1. PICK m \in 1..i - 1 : toks[m] = "case" /\ \A k \in m..i - 1 : toks[k] # ";"
    BY DEF FormatInv, OpenCase
  <2>2. m \in 1..i + 1 /\ \A k \in m..i + 1 : k \in m..i - 1 \/ k = i \/ k = i + 1
    BY <1>3
  <2> QED
    BY <1>4, <2>1, <2>2
<1> QED
  BY <1>8, <1>9, <1>12, <1>13, <1>14, <1>15, <1>16, <1>17, <1>18 DEF FormatInv

LEMMA FormatIsKept == FormatSpec => []FormatInv
<1>1. ASSUME FormatInv, [FormatNext]_formatVars PROVE FormatInv'
  <2>1. CASE UNCHANGED formatVars
    <3>1. CaseKept'
      <4>1. i' = i /\ toks' = toks /\ text' = text
        BY <2>1 DEF formatVars
      <4>2. \A n \in 1..i - 1 : n \in Nat
        BY <1>1 DEF FormatInv, FormatTypes
      <4>3. \A n \in 1..i - 1 : MayChange(n)' <=> MayChange(n)
        BY <4>1, <4>2, MayChangeStays
      <4> QED
        BY <1>1, <4>1, <4>3 DEF FormatInv, CaseKept
    <3> QED
      BY <1>1, <2>1, <3>1 DEF formatVars, FormatInv, FormatTypes, LastToken, PrevIsLast, OpenCase,
                              CommentsEnd, WordsApart, SignsGlued
  <2>2. CASE FormatNext
    BY <1>1, <2>2, RoundWrites, TokenKeeps, PhraseKeeps DEF FormatInv
  <2> QED
    BY <1>1, <2>1, <2>2
<1> QED
  BY FormatBegins, <1>1, PTL DEF FormatSpec

\* The formatter writes the tokens it has read, each once and in their order; it
\* ends the line of a line comment, keeps words and literals apart, and glues two
\* signs to what they sign.  That is so of every sequence of tokens; of signs in
\* front of anything else (a comment, the head of a clause) it says nothing.
THEOREM FormattingKeepsTokens == FormatSpec => []TokensSurvive
<1>1. ASSUME FormatInv PROVE TokensSurvive
  <2>1. /\ toks \in Seq(Token) /\ text \in Seq(Written) /\ i - 1 \in 0..Len(toks)
        /\ Len(text) = i - 1 /\ DOMAIN text = 1..i - 1 /\ i \in Nat \ {0}
    BY <1>1, InputsAssumption, LenProperties DEF FormatInv, FormatTypes
  <2>2. \A n \in 1..i - 1 : text[n].tok = toks[n]
    BY <1>1 DEF FormatInv
  <2>3. [n \in DOMAIN text |-> text[n].tok] = SubSeq(toks, 1, i - 1)
    <3>1. SubSeq(toks, 1, i - 1) = Restrict(toks, 1..i - 1)
      BY <2>1, SubSeqRestrict
    <3> QED
      BY <2>1, <2>2, <3>1 DEF Restrict
  <2>4. ASSUME NEW n \in 2..Len(text)
        PROVE  /\ text[n - 1].tok = "line comment" => text[n].sep = "line"
               /\ {text[n - 1].tok, text[n].tok} \subseteq Wordlike => text[n].sep # "none"
               /\ n < Len(text) /\ GluedSigns(n) /\ text[n + 1].tok \in Signed => Glued(n + 1)
    <3>1. /\ n \in 2..i - 1 /\ n - 1 \in 1..i - 1 /\ n \in 1..i - 1
          /\ n < Len(text) => /\ n + 1 \in 3..i - 1 /\ n + 1 \in DOMAIN text /\ n + 1 \in 1..i - 1
                             /\ n + 1 - 2 = n - 1 /\ n + 1 - 1 = n
      BY <2>1
    <3>2. /\ text[n - 1].tok = toks[n - 1] /\ text[n].tok = toks[n]
          /\ n < Len(text) => text[n + 1].tok = toks[n + 1]
      BY <2>2, <3>1
    <3>3. ASSUME n < Len(text), GluedSigns(n), text[n + 1].tok \in Signed PROVE Glued(n + 1)
      <4>1. toks[n + 1 - 2] \in Signs /\ toks[n + 1 - 1] \in Signs /\ text[n + 1 - 1].sep = "none"
        BY <3>1, <3>2, <3>3 DEF GluedSigns, Glued
      <4>2. text[n + 1].sep = "none"
        BY <1>1, <3>1, <3>2, <3>3, <4>1 DEF FormatInv, SignsGlued
      <4> QED
        BY <3>1, <3>3, <4>2 DEF Glued
    <3>4. text[n - 1].tok = "line comment" => text[n].sep = "line"
      BY <1>1, <3>1, <3>2 DEF FormatInv, CommentsEnd
    <3>5. {text[n - 1].tok, text[n].tok} \subseteq Wordlike => text[n].sep # "none"
      BY <1>1, <3>1, <3>2 DEF FormatInv, WordsApart
    <3> QED
      BY <3>3, <3>4, <3>5
  <2> QED
    BY <2>3, <2>4 DEF TokensSurvive
<1> QED
  BY FormatIsKept, <1>1, PTL

\* README.md:340-341, fmt_sql.rs:260-265: the only words that change case are
\* reserved ones, calls, OFFSET and the END of a CASE, and none of those that are
\* not reserved does so where FROM, JOIN or a dot is the last token before it
\* that is no line comment.  Names of tables elsewhere are not covered.
THEOREM OnlyTheseChangeCase == FormatSpec => []CaseIsKept
<1>1. ASSUME FormatInv PROVE CaseIsKept
  <2>1. DOMAIN text = 1..i - 1
    BY <1>1, LenProperties DEF FormatInv, FormatTypes
  <2> QED
    BY <1>1, <2>1 DEF FormatInv, CaseKept, CaseIsKept
<1> QED
  BY FormatIsKept, <1>1, PTL

-----------------------------------------------------------------------------
(* Deadlock: the invariant, by the place in the report.  A side takes        *)
(* Width(s) lines: its marker, four facts, its statement, what it holds and  *)
(* what it waits for.                                                      *)

\* The lines of the statement, the locks held, and whether the section that
\* lists them is there.
Asks(s) == Len(s.query)
HasLocks(s) == Len(s.holds)
Lists(s) == IF s.holds = <<>> THEN 0 ELSE 1
Width(s) == 8 + Asks(s) + Lists(s) + 2 * HasLocks(s)

\* Where the marker of side k stands, and where the one that names the victim.
Begins(k) == IF k = 1 THEN 7 ELSE 7 + Width(truth.side[1])
Ends == 7 + Width(truth.side[1]) + Width(truth.side[2])

\* What is known of side k when o of its lines have been read.
Told(o) ==
  (IF o >= 2 THEN {"trx"} ELSE {}) \cup (IF o >= 3 THEN {"tables"} ELSE {})
  \cup (IF o >= 4 THEN {"structs"} ELSE {}) \cup (IF o >= 5 THEN {"thread"} ELSE {})
AskedBy(s, o) == IF o <= 5 THEN 0 ELSE IF o >= 5 + Asks(s) THEN Asks(s) ELSE o - 5
HeldBy(s, o) ==
  LET j == o - (5 + Asks(s) + Lists(s))
  IN  IF j <= 0 THEN 0 ELSE IF j >= 2 * HasLocks(s) THEN HasLocks(s) ELSE (j + 1) \div 2
PartyAfter(k, s, o) ==
  [index |-> k, facts |-> Told(o), query |-> SubSeq(s.query, 1, AskedBy(s, o)),
   holds |-> SubSeq(s.holds, 1, HeldBy(s, o)),
   waiting |-> IF o >= Width(s) - 1 THEN <<s.waiting>> ELSE <<>>]
AimAfter(k, s, o) ==
  IF o >= Width(s) - 2 THEN [at |-> "WAITING", n |-> k]
  ELSE IF o <= 5 + Asks(s) THEN NoAim ELSE [at |-> "HOLDS", n |-> k]
AsksAfter(s, o) == 5 <= o /\ o <= 5 + Asks(s)

\* The parties when side n is being read: those before it are whole.
Sides(n, o) ==
  [k \in 1..n |-> PartyAfter(k, truth.side[k], IF k < n THEN Width(truth.side[k]) ELSE o)]

SidesInv ==
  /\ current = IF ln <= 7 THEN 0 ELSE IF ln <= Begins(2) THEN 1 ELSE 2
  /\ parties = Sides(current, ln - Begins(current))
  /\ IF current = 0 THEN aim = NoAim /\ collecting = FALSE
     ELSE /\ aim = AimAfter(current, truth.side[current], ln - Begins(current))
          /\ collecting = AsksAfter(truth.side[current], ln - Begins(current))

SectionAt(n) ==
  IF n <= 4 THEN "before" ELSE IF n <= 6 THEN "header" ELSE IF n <= Ends + 1 THEN "body" ELSE "over"

DeadlockInv ==
  /\ truth \in Truths /\ lines = Report(truth) /\ ln \in 1..(Ends + 2)
  /\ section = SectionAt(ln)
  /\ detected = (ln >= 7)
  /\ victim = (IF ln <= Ends THEN 0 ELSE truth.victim)
  /\ SidesInv

-----------------------------------------------------------------------------
(* Deadlock: the lines of a report.                                        *)

Sayings == STRING \cup {"", "bytes", "other", "time"} \cup Locks
LineKinds == {"TRANSACTION", "HOLDS", "WAITING", "ROLL BACK", "trx", "tables", "structs", "thread",
              "text", "lock", "rule", "header"}
ReportLine == [is : LineKinds, n : Nat, says : Sayings]

LEMMA LineType ==
  ASSUME NEW kind \in LineKinds, NEW n \in Nat, NEW w \in Sayings
  PROVE  Line(kind, n, w) \in ReportLine
BY DEF Line, ReportLine

LEMMA SomeSayings ==
  /\ "" \in Sayings /\ "bytes" \in Sayings /\ "other" \in Sayings /\ "time" \in Sayings
  /\ Locks \subseteq Sayings
BY DEF Sayings

\* Two sequences of lines in a row.
Joined(ab, a, b, m, n) ==
  /\ ab \in Seq(ReportLine) /\ Len(ab) = m + n
  /\ \A j \in 1..m : ab[j] = a[j]
  /\ \A j \in 1..n : ab[m + j] = b[j]

LEMMA LinesJoined ==
  ASSUME NEW a \in Seq(ReportLine), NEW b \in Seq(ReportLine),
         NEW m \in Nat, NEW n \in Nat, Len(a) = m, Len(b) = n
  PROVE  Joined(a \o b, a, b, m, n)
<1>1. /\ a \o b \in Seq(ReportLine) /\ Len(a \o b) = m + n
      /\ \A y \in 1..(m + n) : (a \o b)[y] = IF y <= m THEN a[y] ELSE b[y - m]
  BY ConcatProperties
<1> DEFINE ab == a \o b
<1> HIDE DEF ab
<1>2. ASSUME NEW j \in 1..m PROVE ab[j] = a[j]
  BY <1>1 DEF ab
<1>3. ASSUME NEW j \in 1..n PROVE ab[m + j] = b[j]
  <2>1. m + j \in 1..(m + n) /\ ~(m + j <= m) /\ (m + j) - m = j
    OBVIOUS
  <2> QED
    BY <1>1, <2>1 DEF ab
<1> QED
  BY <1>1, <1>2, <1>3 DEF ab, Joined

\* What a side is made of.
LEMMA SideType ==
  ASSUME NEW s \in Side
  PROVE  /\ s.query \in Seq(Sayings) /\ s.holds \in Seq(Locks) /\ s.waiting \in Locks
         /\ Asks(s) \in Nat /\ HasLocks(s) \in Nat /\ Width(s) \in Nat
         /\ Lists(s) = IF HasLocks(s) = 0 THEN 0 ELSE 1
<1>1. s.query \in Seq(Sayings) /\ s.waiting \in Locks /\ s.holds \in Held
  <2>1. s.query \in Queries /\ s.waiting \in Locks /\ s.holds \in Held
    BY DEF Side
  <2>2. s.query \in Seq(STRING) /\ STRING \subseteq Sayings
    BY <2>1, DeadlockAssumption DEF Sayings
  <2> QED
    BY <2>1, <2>2, SeqMonotonic
<1>2. PICK n \in 0..MaxHeld : s.holds \in [1..n -> Locks]
  BY <1>1 DEF Held
<1>3. s.holds \in Seq(Locks)
  BY <1>2, SeqDef, DeadlockAssumption
<1>4. Asks(s) \in Nat /\ HasLocks(s) \in Nat
  BY <1>1, <1>3, LenProperties DEF Asks, HasLocks
<1>5. s.holds = <<>> <=> HasLocks(s) = 0
  BY <1>3, <1>4, EmptySeq DEF HasLocks
<1> QED
  BY <1>1, <1>3, <1>4, <1>5 DEF Lists, Width

LEMMA TwoSides ==
  ASSUME NEW d \in Truths, NEW k \in {1, 2}
  PROVE  d.side[k] \in Side /\ d.victim \in {1, 2}
BY DEF Truths

\* The bytes of the record follow each lock.
LEMMA LockLinesAre ==
  ASSUME NEW ls \in Seq(Locks)
  PROVE  /\ LockLines(ls) \in Seq(ReportLine) /\ Len(LockLines(ls)) = 2 * Len(ls)
         /\ \A j \in 1..2 * Len(ls) :
              LockLines(ls)[j] = IF j % 2 = 1 THEN Line("lock", 0, ls[(j + 1) \div 2])
                                 ELSE Line("text", 0, "bytes")
<1>1. Len(ls) \in Nat /\ 2 * Len(ls) \in Nat /\ \A m \in 1..Len(ls) : ls[m] \in Locks
  BY LenProperties
<1>2. ASSUME NEW j \in 1..2 * Len(ls), j % 2 = 1
      PROVE  (j + 1) \div 2 \in 1..Len(ls)
  BY <1>1, <1>2
<1>3. ASSUME NEW j \in 1..2 * Len(ls)
      PROVE  /\ Line("text", 0, "bytes") \in ReportLine
             /\ j % 2 = 1 => Line("lock", 0, ls[(j + 1) \div 2]) \in ReportLine
  <2>1. j % 2 = 1 => ls[(j + 1) \div 2] \in Locks
    BY <1>1, <1>2
  <2> QED
    BY <2>1, LineType, SomeSayings DEF LineKinds
<1>4. LockLines(ls) \in [1..2 * Len(ls) -> ReportLine]
  BY <1>3 DEF LockLines
<1>5. LockLines(ls) \in Seq(ReportLine) /\ Len(LockLines(ls)) = 2 * Len(ls)
  BY <1>1, <1>4, SeqDef, LenProperties
<1> QED
  BY <1>5 DEF LockLines

\* A sequence of one line, or two.
LEMMA FewLines ==
  ASSUME NEW a \in ReportLine, NEW b \in ReportLine
  PROVE  /\ <<>> \in Seq(ReportLine) /\ Len(<<>>) = 0
         /\ <<a>> \in Seq(ReportLine) /\ Len(<<a>>) = 1 /\ <<a>>[1] = a
         /\ <<a, b>> \in Seq(ReportLine) /\ Len(<<a, b>>) = 2
OBVIOUS

Opening(n) ==
  <<Line("TRANSACTION", n, ""), Plain("trx"), Plain("tables"), Plain("structs"), Plain("thread")>>
Statement(s) == [k \in DOMAIN s.query |-> Line("text", 0, s.query[k])]
HoldsMarker(n, s) == IF s.holds = <<>> THEN <<>> ELSE <<Line("HOLDS", n, "")>>

\* The lines of one side, by their places.
LEMMA SideLinesAre ==
  ASSUME NEW n \in Nat, NEW s \in Side
  PROVE  /\ SideLines(n, s) \in Seq(ReportLine) /\ Len(SideLines(n, s)) = Width(s)
         /\ \A j \in 1..5 : SideLines(n, s)[j] = Opening(n)[j]
         /\ \A j \in 1..Asks(s) : SideLines(n, s)[5 + j] = Line("text", 0, s.query[j])
         /\ Lists(s) = 1 => SideLines(n, s)[6 + Asks(s)] = Line("HOLDS", n, "")
         /\ \A j \in 1..2 * HasLocks(s) : SideLines(n, s)[5 + Asks(s) + Lists(s) + j] =
              IF j % 2 = 1 THEN Line("lock", 0, s.holds[(j + 1) \div 2])
              ELSE Line("text", 0, "bytes")
         /\ SideLines(n, s)[Width(s) - 2] = Line("WAITING", n, "")
         /\ SideLines(n, s)[Width(s) - 1] = Line("lock", 0, s.waiting)
         /\ SideLines(n, s)[Width(s)] = Line("text", 0, "bytes")
<1> DEFINE A == Opening(n)  B == Statement(s)  C == HoldsMarker(n, s)  D == LockLines(s.holds)
           E == <<Line("WAITING", n, "")>>  F == LockLines(<<s.waiting>>)
           q == Asks(s)  c == Lists(s)  h == HasLocks(s)
<1>1. /\ s.query \in Seq(Sayings) /\ s.holds \in Seq(Locks) /\ s.waiting \in Locks
      /\ q \in Nat /\ h \in Nat /\ c \in {0, 1}
  BY SideType
<1>2. A \in Seq(ReportLine) /\ Len(A) = 5
  <2>1. Line("TRANSACTION", n, "") \in ReportLine
    BY LineType, SomeSayings DEF LineKinds
  <2>2. \A kind \in Facts : Plain(kind) \in ReportLine
    BY LineType, SomeSayings DEF LineKinds, Facts, Plain
  <2> DEFINE a == Line("TRANSACTION", n, "")  b == Plain("trx")  d == Plain("tables")
             e == Plain("structs")  f == Plain("thread")
  <2>3. a \in ReportLine /\ b \in ReportLine /\ d \in ReportLine /\ e \in ReportLine /\ f \in ReportLine
    BY <2>1, <2>2 DEF Facts
  <2>4. A = <<a, b, d, e, f>>
    BY DEF Opening
  <2> HIDE DEF a, b, d, e, f
  <2> QED
    BY <2>3, <2>4
<1>3. B \in Seq(ReportLine) /\ Len(B) = q /\ \A j \in 1..q : B[j] = Line("text", 0, s.query[j])
  <2>1. DOMAIN s.query = 1..q /\ \A j \in 1..q : s.query[j] \in Sayings
    BY <1>1, LenProperties DEF Asks
  <2>2. B \in [1..q -> ReportLine]
    BY <2>1, LineType, SomeSayings DEF LineKinds, Statement
  <2> QED
    BY <1>1, <2>1, <2>2, SeqDef, LenProperties DEF Statement
<1>4. C \in Seq(ReportLine) /\ Len(C) = c /\ (c = 1 => C[1] = Line("HOLDS", n, ""))
  <2>1. Line("HOLDS", n, "") \in ReportLine
    BY LineType, SomeSayings DEF LineKinds
  <2> DEFINE a == Line("HOLDS", n, "")
  <2> HIDE DEF a
  <2>2. /\ <<>> \in Seq(ReportLine) /\ Len(<<>>) = 0
        /\ <<a>> \in Seq(ReportLine) /\ Len(<<a>>) = 1 /\ <<a>>[1] = a
    BY <2>1, FewLines DEF a
  <2>3. CASE s.holds = <<>>
    BY <2>2, <2>3 DEF HoldsMarker, Lists
  <2>4. CASE s.holds # <<>>
    <3>1. C = <<a>> /\ c = 1
      BY <2>4 DEF HoldsMarker, Lists, a
    <3> QED
      BY <2>2, <3>1 DEF a
  <2> QED
    BY <2>3, <2>4
<1>5. /\ D \in Seq(ReportLine) /\ Len(D) = 2 * h
      /\ \A j \in 1..2 * h : D[j] = IF j % 2 = 1 THEN Line("lock", 0, s.holds[(j + 1) \div 2])
                                    ELSE Line("text", 0, "bytes")
  BY <1>1, LockLinesAre DEF HasLocks
<1>6. E \in Seq(ReportLine) /\ Len(E) = 1 /\ E[1] = Line("WAITING", n, "")
  <2>1. Line("WAITING", n, "") \in ReportLine
    BY LineType, SomeSayings DEF LineKinds
  <2> QED
    BY <2>1, FewLines
<1>7. /\ F \in Seq(ReportLine) /\ Len(F) = 2
      /\ F[1] = Line("lock", 0, s.waiting) /\ F[2] = Line("text", 0, "bytes")
  <2>1. <<s.waiting>> \in Seq(Locks) /\ Len(<<s.waiting>>) = 1 /\ <<s.waiting>>[1] = s.waiting
    BY <1>1
  <2>2. 1 % 2 = 1 /\ 2 % 2 = 0 /\ (1 + 1) \div 2 = 1
    OBVIOUS
  <2>3. /\ F \in Seq(ReportLine) /\ Len(F) = 2
        /\ \A j \in 1..2 : F[j] = IF j % 2 = 1 THEN Line("lock", 0, <<s.waiting>>[(j + 1) \div 2])
                                  ELSE Line("text", 0, "bytes")
    <3> DEFINE ls == <<s.waiting>>
    <3> HIDE DEF ls
    <3>1. ls \in Seq(Locks) /\ Len(ls) = 1 /\ 2 * Len(ls) = 2
      BY <2>1 DEF ls
    <3>2. /\ LockLines(ls) \in Seq(ReportLine) /\ Len(LockLines(ls)) = 2
          /\ \A j \in 1..2 : LockLines(ls)[j] = IF j % 2 = 1 THEN Line("lock", 0, ls[(j + 1) \div 2])
                                                ELSE Line("text", 0, "bytes")
      BY <3>1, LockLinesAre
    <3> QED
      BY <3>2 DEF ls
  <2> QED
    BY <2>1, <2>2, <2>3
<1>8. SideLines(n, s) = ((((A \o B) \o C) \o D) \o E) \o F
  BY DEF SideLines, Opening, Statement, HoldsMarker
<1> HIDE DEF A, B, C, D, E, F, q, c, h
<1> DEFINE AB == A \o B  AC == AB \o C  AD == AC \o D  AE == AD \o E
<1> DEFINE p == 5 + q  r == p + c  v == r + 2 * h
<1>11. p \in Nat /\ r \in Nat /\ v \in Nat /\ 5 \in Nat /\ c \in Nat /\ 2 * h \in Nat
       /\ v + 1 \in Nat /\ 1 \in Nat /\ 2 \in Nat
  BY <1>1
<1>12. Joined(AB, A, B, 5, q) /\ AB \in Seq(ReportLine) /\ Len(AB) = p
  <2>1. Joined(AB, A, B, 5, q)
    BY <1>1, <1>2, <1>3, <1>11, LinesJoined
  <2> QED
    BY <2>1 DEF Joined
<1> HIDE DEF AB, p
<1>13. Joined(AC, AB, C, p, c) /\ AC \in Seq(ReportLine) /\ Len(AC) = r
  <2>1. Joined(AC, AB, C, p, c)
    BY <1>4, <1>11, <1>12, LinesJoined
  <2> QED
    BY <2>1 DEF Joined
<1> HIDE DEF AC, r
<1>14. Joined(AD, AC, D, r, 2 * h) /\ AD \in Seq(ReportLine) /\ Len(AD) = v
  <2> DEFINE hh == 2 * h
  <2>1. hh \in Nat /\ Len(D) = hh
    BY <1>5, <1>11
  <2> HIDE DEF hh
  <2>2. Joined(AD, AC, D, r, hh)
    BY <1>5, <1>11, <1>13, <2>1, LinesJoined
  <2> QED
    BY <2>2 DEF Joined, hh
<1> HIDE DEF AD, v
<1>15. Joined(AE, AD, E, v, 1) /\ AE \in Seq(ReportLine) /\ Len(AE) = v + 1
  <2>1. Joined(AE, AD, E, v, 1)
    BY <1>6, <1>11, <1>14, LinesJoined
  <2> QED
    BY <2>1 DEF Joined
<1> HIDE DEF AE
<1> DEFINE L == SideLines(n, s)  u == v + 1  w == u + 2
<1>17. Joined(L, AE, F, u, 2) /\ L \in Seq(ReportLine) /\ Len(L) = w
  <2>1. L = AE \o F
    BY <1>8 DEF AE, AD, AC, AB
  <2>2. Len(AE) = u /\ u \in Nat
    BY <1>11, <1>15
  <2> HIDE DEF L, u
  <2>3. Joined(AE \o F, AE, F, u, 2)
    BY <2>2, <1>11, <1>15, <1>7, LinesJoined
  <2> QED
    BY <2>1, <2>3 DEF Joined
<1> HIDE DEF L
<1>18. p = 5 + q /\ r = p + c /\ v = r + 2 * h /\ u = v + 1
  BY DEF p, r, v
<1>16. Width(s) = w
  <2>1. Width(s) = 8 + q + c + 2 * h
    BY DEF Width, q, c, h
  <2> HIDE DEF u
  <2> QED
    BY <1>1, <1>11, <1>18, <2>1
<1> HIDE DEF u
<1>19. (\A j \in 1..v : L[j] = AD[j]) /\ L[u] = E[1] /\ L[u + 1] = F[1] /\ L[u + 2] = F[2]
  <2>1. (\A j \in 1..v : AE[j] = AD[j]) /\ AE[v + 1] = E[1]
    BY <1>11, <1>15 DEF Joined
  <2>2. (\A j \in 1..u : L[j] = AE[j]) /\ L[u + 1] = F[1] /\ L[u + 2] = F[2]
    BY <1>11, <1>17, <1>18 DEF Joined
  <2> QED
    BY <1>11, <1>18, <2>1, <2>2
<1>20. (\A j \in 1..r : L[j] = AC[j]) /\ (\A j \in 1..2 * h : L[r + j] = D[j])
  BY <1>1, <1>11, <1>14, <1>18, <1>19 DEF Joined
<1>21. (\A j \in 1..p : L[j] = AB[j]) /\ (c = 1 => L[p + 1] = C[1])
  BY <1>1, <1>11, <1>13, <1>18, <1>20 DEF Joined
<1>22. (\A j \in 1..5 : L[j] = A[j]) /\ (\A j \in 1..q : L[5 + j] = B[j])
  BY <1>1, <1>11, <1>12, <1>18, <1>21 DEF Joined
<1>23. u = Width(s) - 2 /\ u + 1 = Width(s) - 1 /\ u + 2 = Width(s)
       /\ p + 1 = 6 + q /\ r = 5 + q + c
  BY <1>1, <1>11, <1>16, <1>18
<1> QED
  BY <1>3, <1>4, <1>5, <1>6, <1>7, <1>16, <1>17, <1>19, <1>20, <1>21, <1>22, <1>23
  DEF A, L, q, c, h

LEMMA LineFields ==
  ASSUME NEW kind, NEW n, NEW w
  PROVE  Line(kind, n, w).is = kind /\ Line(kind, n, w).n = n /\ Line(kind, n, w).says = w
BY DEF Line

\* What the loop sees of the lines of one side, at o lines after its marker.
SideLine(l, k, s, o) ==
  /\ o = 0 => l.is = "TRANSACTION" /\ l.n = k
  /\ o = 1 => l.is = "trx"
  /\ o = 2 => l.is = "tables"
  /\ o = 3 => l.is = "structs"
  /\ o = 4 => l.is = "thread"
  /\ o \in 5..(4 + Asks(s)) => l.is = "text" /\ l.says = s.query[o - 4]
  /\ o = 5 + Asks(s) /\ Lists(s) = 1 => l.is = "HOLDS" /\ l.n = k
  /\ \A j \in 1..2 * HasLocks(s) : o = 4 + Asks(s) + Lists(s) + j =>
       IF j % 2 = 1 THEN l.is = "lock" /\ l.says = s.holds[(j + 1) \div 2] ELSE l.is = "text"
  /\ o = Width(s) - 3 => l.is = "WAITING" /\ l.n = k
  /\ o = Width(s) - 2 => l.is = "lock" /\ l.says = s.waiting
  /\ o = Width(s) - 1 => l.is = "text"

LEMMA SideLineIs ==
  ASSUME NEW k \in Nat, NEW s \in Side, NEW o \in 0..(Width(s) - 1)
  PROVE  SideLine(SideLines(k, s)[o + 1], k, s, o)
<1> DEFINE L == SideLines(k, s)
<1>1. /\ Asks(s) \in Nat /\ HasLocks(s) \in Nat /\ Width(s) \in Nat /\ Lists(s) \in {0, 1}
  BY SideType
<1>9. \A j \in 1..5 : L[j] = Opening(k)[j]
  BY SideLinesAre
<1>2. /\ \A j \in 1..Asks(s) : L[5 + j] = Line("text", 0, s.query[j])
      /\ Lists(s) = 1 => L[6 + Asks(s)] = Line("HOLDS", k, "")
      /\ \A j \in 1..2 * HasLocks(s) : L[5 + Asks(s) + Lists(s) + j] =
           IF j % 2 = 1 THEN Line("lock", 0, s.holds[(j + 1) \div 2]) ELSE Line("text", 0, "bytes")
      /\ L[Width(s) - 2] = Line("WAITING", k, "")
      /\ L[Width(s) - 1] = Line("lock", 0, s.waiting)
      /\ L[Width(s)] = Line("text", 0, "bytes")
  BY SideLinesAre
<1> HIDE DEF L
<1>3. ASSUME o \in 0..4
      PROVE  /\ o = 0 => L[1].is = "TRANSACTION" /\ L[1].n = k
             /\ o = 1 => L[2].is = "trx"
             /\ o = 2 => L[3].is = "tables"
             /\ o = 3 => L[4].is = "structs"
             /\ o = 4 => L[5].is = "thread"
  <2>1. /\ Opening(k)[1] = Line("TRANSACTION", k, "") /\ Opening(k)[2] = Plain("trx")
        /\ Opening(k)[3] = Plain("tables") /\ Opening(k)[4] = Plain("structs")
        /\ Opening(k)[5] = Plain("thread")
    BY DEF Opening
  <2>3. L[1] = Opening(k)[1] /\ L[2] = Opening(k)[2] /\ L[3] = Opening(k)[3]
        /\ L[4] = Opening(k)[4] /\ L[5] = Opening(k)[5]
    BY <1>9
  <2> DEFINE a == Line("TRANSACTION", k, "")  b == Plain("trx")  c == Plain("tables")
             e == Plain("structs")  f == Plain("thread")
  <2>6. /\ a.is = "TRANSACTION" /\ a.n = k /\ b.is = "trx" /\ c.is = "tables"
        /\ e.is = "structs" /\ f.is = "thread"
    BY DEF Line, Plain
  <2>7. L[1] = a /\ L[2] = b /\ L[3] = c /\ L[4] = e /\ L[5] = f
    BY <2>1, <2>3
  <2> HIDE DEF a, b, c, e, f
  <2>4. L[1].is = "TRANSACTION" /\ L[1].n = k
    BY <2>6, <2>7, Zenon
  <2>5. L[2].is = "trx" /\ L[3].is = "tables" /\ L[4].is = "structs" /\ L[5].is = "thread"
    BY <2>6, <2>7, Zenon
  <2> QED
    BY <2>4, <2>5
<1>4. ASSUME o \in 5..(4 + Asks(s)) PROVE L[o + 1].is = "text" /\ L[o + 1].says = s.query[o - 4]
  <2>1. o - 4 \in 1..Asks(s) /\ 5 + (o - 4) = o + 1
    BY <1>1, <1>4
  <2>2. L[o + 1] = Line("text", 0, s.query[o - 4])
    BY <1>2, <2>1
  <2> QED
    BY <2>2, LineFields
<1>5. ASSUME o = 5 + Asks(s), Lists(s) = 1 PROVE L[o + 1].is = "HOLDS" /\ L[o + 1].n = k
  <2>1. o + 1 = 6 + Asks(s)
    BY <1>1, <1>5
  <2> DEFINE a == Line("HOLDS", k, "")
  <2>2. L[o + 1] = a
    BY <1>2, <1>5, <2>1
  <2>3. a.is = "HOLDS" /\ a.n = k
    BY DEF Line
  <2> HIDE DEF a
  <2> QED
    BY <2>2, <2>3, Zenon
<1>6. ASSUME NEW j \in 1..2 * HasLocks(s), o = 4 + Asks(s) + Lists(s) + j
      PROVE  IF j % 2 = 1 THEN L[o + 1].is = "lock" /\ L[o + 1].says = s.holds[(j + 1) \div 2]
             ELSE L[o + 1].is = "text"
  <2>1. o + 1 = 5 + Asks(s) + Lists(s) + j
    BY <1>1, <1>6
  <2>2. L[o + 1] = IF j % 2 = 1 THEN Line("lock", 0, s.holds[(j + 1) \div 2]) ELSE Line("text", 0, "bytes")
    BY <1>2, <2>1
  <2>3. CASE j % 2 = 1
    BY <2>2, <2>3, LineFields
  <2>4. CASE j % 2 # 1
    BY <2>2, <2>4, LineFields
  <2> QED
    BY <2>3, <2>4
<1>7. /\ o = Width(s) - 3 => L[o + 1].is = "WAITING" /\ L[o + 1].n = k
      /\ o = Width(s) - 2 => L[o + 1].is = "lock" /\ L[o + 1].says = s.waiting
      /\ o = Width(s) - 1 => L[o + 1].is = "text"
  <2> DEFINE a == Line("WAITING", k, "")  b == Line("lock", 0, s.waiting)
             c == Line("text", 0, "bytes")
  <2>1. a.is = "WAITING" /\ a.n = k /\ b.is = "lock" /\ b.says = s.waiting /\ c.is = "text"
    BY DEF Line
  <2>2. L[Width(s) - 2] = a /\ L[Width(s) - 1] = b /\ L[Width(s)] = c
    BY <1>2
  <2> HIDE DEF a, b, c
  <2>3. /\ o = Width(s) - 3 => L[o + 1] = a
        /\ o = Width(s) - 2 => L[o + 1] = b
        /\ o = Width(s) - 1 => L[o + 1] = c
    BY <1>1, <2>2
  <2> QED
    BY <2>1, <2>3, Zenon
<1>8. /\ o = 0 => L[o + 1].is = "TRANSACTION" /\ L[o + 1].n = k
      /\ o = 1 => L[o + 1].is = "trx"
      /\ o = 2 => L[o + 1].is = "tables"
      /\ o = 3 => L[o + 1].is = "structs"
      /\ o = 4 => L[o + 1].is = "thread"
  BY <1>3
<1> QED
  BY <1>4, <1>5, <1>6, <1>7, <1>8 DEF SideLine, L

\* A whole report, by its places.
LEMMA ReportIs ==
  ASSUME NEW d \in Truths
  PROVE  /\ Len(Report(d)) = 11 + Width(d.side[1]) + Width(d.side[2])
         /\ \A j \in 1..3 : Report(d)[j].is # "header"
         /\ Report(d)[4].is = "header" /\ Report(d)[5].is = "rule" /\ Report(d)[6].is = "text"
         /\ \A j \in 1..Width(d.side[1]) : Report(d)[6 + j] = SideLines(1, d.side[1])[j]
         /\ \A j \in 1..Width(d.side[2]) :
              Report(d)[6 + Width(d.side[1]) + j] = SideLines(2, d.side[2])[j]
         /\ Report(d)[7 + Width(d.side[1]) + Width(d.side[2])].is = "ROLL BACK"
         /\ Report(d)[7 + Width(d.side[1]) + Width(d.side[2])].n = d.victim
         /\ Report(d)[8 + Width(d.side[1]) + Width(d.side[2])].is = "rule"
<1> DEFINE A == Around  B == <<Plain("header"), Plain("rule"), Line("text", 0, "time")>>
           S == SideLines(1, d.side[1])  T == SideLines(2, d.side[2])
           E == <<Line("ROLL BACK", d.victim, ""), Plain("rule")>>
           v == Width(d.side[1])  w == Width(d.side[2])
           R == Report(d)
<1>1. d.side[1] \in Side /\ d.side[2] \in Side /\ d.victim \in Nat /\ v \in Nat /\ w \in Nat
  BY TwoSides, SideType
<1>2. /\ A \in Seq(ReportLine) /\ Len(A) = 3
      /\ A[1].is = "text" /\ A[2].is = "trx" /\ A[3].is = "rule"
  <2> DEFINE a == Line("text", 0, "other")  b == Plain("trx")  c == Plain("rule")
  <2>1. /\ a \in ReportLine /\ b \in ReportLine /\ c \in ReportLine
    BY LineType, SomeSayings DEF LineKinds, Plain
  <2>3. a.is = "text" /\ b.is = "trx" /\ c.is = "rule"
    BY DEF Line, Plain
  <2>2. A = <<a, b, c>>
    BY DEF Around
  <2> HIDE DEF a, b, c
  <2> QED
    BY <2>1, <2>2, <2>3
<1>3. /\ B \in Seq(ReportLine) /\ Len(B) = 3
      /\ B[1].is = "header" /\ B[2].is = "rule" /\ B[3].is = "text"
  <2> DEFINE a == Plain("header")  b == Plain("rule")  c == Line("text", 0, "time")
  <2>1. /\ a \in ReportLine /\ b \in ReportLine /\ c \in ReportLine
    BY LineType, SomeSayings DEF LineKinds, Plain
  <2>3. a.is = "header" /\ b.is = "rule" /\ c.is = "text"
    BY DEF Line, Plain
  <2>2. B = <<a, b, c>>
    OBVIOUS
  <2> HIDE DEF a, b, c, B
  <2> QED
    BY <2>1, <2>2, <2>3
<1>4. /\ E \in Seq(ReportLine) /\ Len(E) = 2
      /\ E[1].is = "ROLL BACK" /\ E[1].n = d.victim /\ E[2].is = "rule"
  <2> DEFINE a == Line("ROLL BACK", d.victim, "")  b == Plain("rule")
  <2>1. /\ a \in ReportLine /\ b \in ReportLine
    BY <1>1, LineType, SomeSayings DEF LineKinds, Plain
  <2>3. a.is = "ROLL BACK" /\ a.n = d.victim /\ b.is = "rule"
    BY DEF Line, Plain
  <2>2. E = <<a, b>>
    OBVIOUS
  <2> HIDE DEF a, b, E
  <2>4. E \in Seq(ReportLine) /\ Len(E) = 2 /\ E[1] = a /\ E[2] = b
    BY <2>1, <2>2
  <2> QED
    BY <2>3, <2>4, Zenon
<1>5. S \in Seq(ReportLine) /\ Len(S) = v /\ T \in Seq(ReportLine) /\ Len(T) = w
  <2>1. 1 \in Nat /\ 2 \in Nat
    OBVIOUS
  <2> QED
    BY <1>1, <2>1, SideLinesAre
<1>6. R = ((((A \o B) \o S) \o T) \o E) \o A
  BY DEF Report
<1> HIDE DEF A, B, S, T, E, v, w, R
<1> DEFINE AB == A \o B  AS == AB \o S  AT == AS \o T  AE == AT \o E
           p == 6 + v  q == p + w  r == q + 2
<1>7. 3 \in Nat /\ 6 \in Nat /\ 2 \in Nat /\ p \in Nat /\ q \in Nat /\ r \in Nat
  BY <1>1
<1>8. Joined(AB, A, B, 3, 3) /\ AB \in Seq(ReportLine) /\ Len(AB) = 6
  <2>1. Joined(AB, A, B, 3, 3)
    BY <1>2, <1>3, <1>7, LinesJoined
  <2> QED
    BY <2>1 DEF Joined
<1> HIDE DEF AB
<1>9. Joined(AS, AB, S, 6, v) /\ AS \in Seq(ReportLine) /\ Len(AS) = p
  <2>1. Joined(AS, AB, S, 6, v)
    BY <1>1, <1>5, <1>7, <1>8, LinesJoined
  <2> QED
    BY <2>1 DEF Joined
<1> HIDE DEF AS, p
<1>10. Joined(AT, AS, T, p, w) /\ AT \in Seq(ReportLine) /\ Len(AT) = q
  <2>1. Joined(AT, AS, T, p, w)
    BY <1>1, <1>5, <1>7, <1>9, LinesJoined
  <2> QED
    BY <2>1 DEF Joined
<1> HIDE DEF AT, q
<1>11. Joined(AE, AT, E, q, 2) /\ AE \in Seq(ReportLine) /\ Len(AE) = r
  <2>1. Joined(AE, AT, E, q, 2)
    BY <1>4, <1>7, <1>10, LinesJoined
  <2> QED
    BY <2>1 DEF Joined
<1> HIDE DEF AE, r
<1>12. Joined(R, AE, A, r, 3)
  <2>1. R = AE \o A
    BY <1>6 DEF AE, AT, AS, AB
  <2>2. Joined(AE \o A, AE, A, r, 3)
    BY <1>2, <1>7, <1>11, LinesJoined
  <2> QED
    BY <2>1, <2>2
<1>13. p = 6 + v /\ q = p + w /\ r = q + 2
  BY DEF p, q, r
<1>14. Len(R) = r + 3 /\ \A j \in 1..r : R[j] = AE[j]
  BY <1>12 DEF Joined
<1>15. (\A j \in 1..q : R[j] = AT[j]) /\ R[q + 1] = E[1] /\ R[q + 2] = E[2]
  <2>1. (\A j \in 1..q : AE[j] = AT[j]) /\ AE[q + 1] = E[1] /\ AE[q + 2] = E[2]
    BY <1>11 DEF Joined
  <2> QED
    BY <1>7, <1>13, <1>14, <2>1
<1>16. (\A j \in 1..p : R[j] = AS[j]) /\ (\A j \in 1..w : R[p + j] = T[j])
  BY <1>1, <1>7, <1>10, <1>13, <1>15 DEF Joined
<1>17. (\A j \in 1..6 : R[j] = AB[j]) /\ (\A j \in 1..v : R[6 + j] = S[j])
  BY <1>1, <1>7, <1>9, <1>13, <1>16 DEF Joined
<1>18. R[1] = A[1] /\ R[2] = A[2] /\ R[3] = A[3] /\ R[4] = B[1] /\ R[5] = B[2] /\ R[6] = B[3]
  BY <1>8, <1>17 DEF Joined
<1>19. Len(R) = 11 + v + w /\ q + 1 = 7 + v + w /\ q + 2 = 8 + v + w
  BY <1>1, <1>13, <1>14
<1>20. \A j \in 1..3 : R[j].is # "header"
  <2>1. \A j \in 1..3 : j = 1 \/ j = 2 \/ j = 3
    OBVIOUS
  <2> QED
    BY <1>2, <1>18, <2>1
<1> QED
  BY <1>3, <1>4, <1>13, <1>15, <1>16, <1>17, <1>18, <1>19, <1>20 DEF R, S, T, v, w

\* The line that is read o lines after the marker of side k.
LEMMA LineOfSide ==
  ASSUME DeadlockInv, NEW k \in {1, 2}, NEW o \in 0..(Width(truth.side[k]) - 1),
         ln = Begins(k) + o
  PROVE  SideLine(line, k, truth.side[k], o)
<1>1. truth \in Truths /\ lines = Report(truth)
  BY DEF DeadlockInv
<1>2. truth.side[1] \in Side /\ truth.side[2] \in Side
  BY <1>1, TwoSides
<1> DEFINE v == Width(truth.side[1])  w == Width(truth.side[2])
<1>3. v \in Nat /\ w \in Nat
  BY <1>2, SideType
<1>4. /\ \A j \in 1..v : lines[6 + j] = SideLines(1, truth.side[1])[j]
      /\ \A j \in 1..w : lines[6 + v + j] = SideLines(2, truth.side[2])[j]
  BY <1>1, ReportIs
<1>5. CASE k = 1
  <2>1. o + 1 \in 1..v /\ ln = 6 + (o + 1)
    BY <1>3, <1>5 DEF Begins
  <2>2. line = SideLines(1, truth.side[1])[o + 1]
    BY <1>4, <2>1 DEF line
  <2> QED
    BY <1>2, <1>5, <2>2, SideLineIs
<1>6. CASE k = 2
  <2>1. o + 1 \in 1..w /\ ln = 6 + v + (o + 1)
    BY <1>3, <1>6 DEF Begins
  <2>2. line = SideLines(2, truth.side[2])[o + 1]
    BY <1>4, <2>1 DEF line
  <2> QED
    BY <1>2, <1>6, <2>2, SideLineIs
<1> QED
  BY <1>5, <1>6

-----------------------------------------------------------------------------
(* Deadlock: what is known of a party, a line later.                       *)

LEMMA PrefixGrows ==
  ASSUME NEW S, NEW q \in Seq(S), NEW n \in 0..(Len(q) - 1)
  PROVE  Append(SubSeq(q, 1, n), q[n + 1]) = SubSeq(q, 1, n + 1)
<1>1. Len(q) \in Nat /\ \A y \in 1..Len(q) : q[y] \in S
  BY LenProperties
<1>2. n \in Int /\ n + 1 \in Int /\ 1 \in Int /\ n + 1 \in 1..Len(q) /\ 1 <= n + 1
      /\ (\A y \in 1..n : q[y] \in S) /\ (\A y \in 1..(n + 1) : q[y] \in S)
  BY <1>1
<1> DEFINE a == SubSeq(q, 1, n)  b == SubSeq(q, 1, n + 1)  c == Append(a, q[n + 1])
<1>3. a \in Seq(S) /\ Len(a) = n /\ \A y \in 1..n : a[y] = q[y]
  BY <1>2, SubSeqProperties
<1>4. b \in Seq(S) /\ Len(b) = n + 1 /\ \A y \in 1..(n + 1) : b[y] = q[y]
  BY <1>2, SubSeqProperties
<1> HIDE DEF a, b
<1>5. q[n + 1] \in S
  BY <1>2
<1>6. /\ c \in Seq(S) /\ Len(c) = n + 1
      /\ \A y \in 1..n : c[y] = a[y]
      /\ c[n + 1] = q[n + 1]
  BY <1>3, <1>5, AppendProperties
<1> HIDE DEF c
<1>7. \A y \in 1..Len(c) : c[y] = b[y]
  BY <1>2, <1>3, <1>4, <1>6
<1>8. c = b
  BY <1>4, <1>6, <1>7, SeqEqual
<1> QED
  BY <1>8 DEF a, b, c

\* The statement grows by the lines that follow the facts.
LEMMA AskedGrows ==
  ASSUME NEW s \in Side, NEW o \in Nat
  PROVE  /\ AskedBy(s, o) \in 0..Asks(s)
         /\ o \in 5..(4 + Asks(s)) => AskedBy(s, o) = o - 5 /\ AskedBy(s, o + 1) = o - 4
         /\ ~(o \in 5..(4 + Asks(s))) => AskedBy(s, o + 1) = AskedBy(s, o)
         /\ o >= 5 + Asks(s) => AskedBy(s, o) = Asks(s)
<1>1. Asks(s) \in Nat
  BY SideType
<1> QED
  BY <1>1 DEF AskedBy

\* The locks held grow with every second line of theirs.
LEMMA HeldGrows ==
  ASSUME NEW s \in Side, NEW o \in Nat
  PROVE  /\ HeldBy(s, o) \in 0..HasLocks(s)
         /\ \A j \in 1..2 * HasLocks(s) : o = 4 + Asks(s) + Lists(s) + j =>
              IF j % 2 = 1 THEN HeldBy(s, o) = (j + 1) \div 2 - 1 /\ HeldBy(s, o + 1) = (j + 1) \div 2
                                /\ (j + 1) \div 2 \in 1..HasLocks(s)
              ELSE HeldBy(s, o + 1) = HeldBy(s, o)
         /\ o < 5 + Asks(s) + Lists(s) => HeldBy(s, o + 1) = HeldBy(s, o)
         /\ o >= Width(s) - 3 => HeldBy(s, o) = HasLocks(s)
<1> DEFINE q == Asks(s)  h == HasLocks(s)  c == Lists(s)  b == 5 + q + c
<1>1. q \in Nat /\ h \in Nat /\ c \in Nat /\ b \in Nat /\ Width(s) - 3 = b + 2 * h
  <2>1. Asks(s) \in Nat /\ HasLocks(s) \in Nat /\ Lists(s) \in Nat
    BY SideType
  <2>2. Width(s) = 8 + Asks(s) + Lists(s) + 2 * HasLocks(s)
    BY DEF Width
  <2> QED
    BY <2>1, <2>2
<1>2. \A y \in Nat : HeldBy(s, y) = IF y - b <= 0 THEN 0 ELSE IF y - b >= 2 * h THEN h
                                      ELSE ((y - b) + 1) \div 2
  BY DEF HeldBy
<1>3. 4 + Asks(s) + Lists(s) = b - 1
  BY <1>1
<1> HIDE DEF q, h, c, b
<1>4. HeldBy(s, o) \in 0..h
  BY <1>1, <1>2
<1>5. ASSUME NEW j \in 1..2 * h, o = b - 1 + j
      PROVE  IF j % 2 = 1 THEN HeldBy(s, o) = (j + 1) \div 2 - 1 /\ HeldBy(s, o + 1) = (j + 1) \div 2
                               /\ (j + 1) \div 2 \in 1..h
             ELSE HeldBy(s, o + 1) = HeldBy(s, o)
  <2>1. o - b = j - 1 /\ (o + 1) - b = j /\ o + 1 \in Nat /\ j \in Nat
    BY <1>1, <1>5
  <2>2. HeldBy(s, o) = IF j - 1 <= 0 THEN 0 ELSE j \div 2
    BY <1>1, <1>2, <2>1
  <2>3. HeldBy(s, o + 1) = IF j >= 2 * h THEN h ELSE (j + 1) \div 2
    BY <1>1, <1>2, <2>1
  <2>4. j = 1 => j \div 2 = 0
    OBVIOUS
  <2>5. j % 2 = 1 => j \div 2 = (j + 1) \div 2 - 1 /\ (j + 1) \div 2 \in 1..h /\ j < 2 * h
    BY <1>1, <1>5, <2>1
  <2>6. j % 2 # 1 => (j + 1) \div 2 = j \div 2 /\ j # 1 /\ (j = 2 * h => j \div 2 = h)
    BY <1>1, <1>5, <2>1
  <2> QED
    BY <1>1, <1>5, <2>1, <2>2, <2>3, <2>4, <2>5, <2>6
<1>6. o < b => HeldBy(s, o + 1) = HeldBy(s, o)
  BY <1>1, <1>2
<1>7. o >= b + 2 * h => HeldBy(s, o) = h
  BY <1>1, <1>2
<1> QED
  BY <1>1, <1>3, <1>4, <1>5, <1>6, <1>7 DEF h, b, q, c

LEMMA ToldGrows ==
  /\ Told(1) = {}
  /\ Told(2) = Told(1) \cup {"trx"} /\ Told(3) = Told(2) \cup {"tables"}
  /\ Told(4) = Told(3) \cup {"structs"} /\ Told(5) = Told(4) \cup {"thread"}
  /\ \A o \in Nat : o >= 5 => Told(o) = Facts
BY DEF Told, Facts

-----------------------------------------------------------------------------
(* Deadlock: the steps.                                                    *)

\* Each line of the body is taken by one action, by its kind.
LEMMA LineIsTaken ==
  ASSUME DeadlockNext, section = "body", current # 0
  PROVE  /\ line.is \in Facts => FactLine
         /\ line.is = "text" => TextLine
         /\ line.is = "lock" => LockLine
         /\ line.is \in Markers => Marker
         /\ line.is = "rule" => Skip
BY DEF DeadlockNext, Skip, Marker, LockLine, TimeLine, FactLine, TextLine, InBody, Facts, Markers

LEMMA LineIsNext ==
  ASSUME FactLine \/ TextLine \/ LockLine \/ Marker \/ TimeLine
  PROVE  ln' = ln + 1 /\ truth' = truth /\ lines' = lines /\ section' = "body"
BY DEF FactLine, TextLine, LockLine, Marker, TimeLine, InBody, Read

\* The place of a side that is being read.
AtSide(k, o) ==
  /\ k \in {1, 2} /\ o \in Nat /\ ln = Begins(k) + o /\ section = "body"
  /\ current = k /\ parties = Sides(k, o)
  /\ aim = AimAfter(k, truth.side[k], o) /\ collecting = AsksAfter(truth.side[k], o)

\* What one of its lines leaves.
SideMoves(k, o) ==
  /\ ln' = ln + 1 /\ truth' = truth /\ lines' = lines /\ section' = "body"
  /\ detected' = detected /\ victim' = victim /\ current' = k
  /\ parties' = Sides(k, o)
  /\ aim' = AimAfter(k, truth.side[k], o) /\ collecting' = AsksAfter(truth.side[k], o)

LEMMA SidesAre ==
  ASSUME NEW k \in {1, 2}, NEW o
  PROVE  /\ DOMAIN Sides(k, o) = 1..k
         /\ Sides(k, o)[k] = PartyAfter(k, truth.side[k], o)
         /\ \A y \in 1..k : Sides(k, o)[y].index = y
         /\ [Sides(k, o) EXCEPT ![k] = PartyAfter(k, truth.side[k], o + 1)] = Sides(k, o + 1)
         /\ PartyAfter(k, truth.side[k], o + 1) = PartyAfter(k, truth.side[k], o) =>
              Sides(k, o + 1) = Sides(k, o)
<1>1. /\ DOMAIN Sides(k, o) = 1..k
      /\ Sides(k, o)[k] = PartyAfter(k, truth.side[k], o)
  BY DEF Sides
<1>2. \A y \in 1..k : Sides(k, o)[y].index = y
  BY DEF Sides, PartyAfter
<1>3. [Sides(k, o) EXCEPT ![k] = PartyAfter(k, truth.side[k], o + 1)] = Sides(k, o + 1)
  <2> DEFINE p == PartyAfter(k, truth.side[k], o + 1)  a == PartyAfter(k, truth.side[k], o)
             W(y) == PartyAfter(y, truth.side[y], Width(truth.side[y]))
             f == [y \in 1..k |-> IF y < k THEN W(y) ELSE a]
             g == [y \in 1..k |-> IF y < k THEN W(y) ELSE p]
  <2>1. Sides(k, o) = f
    <3>1. \A y \in 1..k : y < k \/ y = k
      OBVIOUS
    <3>2. \A y \in 1..k : PartyAfter(y, truth.side[y], IF y < k THEN Width(truth.side[y]) ELSE o)
                        = IF y < k THEN W(y) ELSE a
      BY <3>1
    <3> QED
      BY <3>2 DEF Sides
  <2>2. Sides(k, o + 1) = g
    <3>1. \A y \in 1..k : y < k \/ y = k
      OBVIOUS
    <3>2. \A y \in 1..k : PartyAfter(y, truth.side[y], IF y < k THEN Width(truth.side[y]) ELSE o + 1)
                        = IF y < k THEN W(y) ELSE p
      BY <3>1
    <3> QED
      BY <3>2 DEF Sides
  <2> HIDE DEF W, a, p
  <2>3. [f EXCEPT ![k] = p] = g
    <3>1. k \in 1..k /\ ~(k < k) /\ \A y \in 1..k : y < k \/ y = k
      OBVIOUS
    <3> QED
      BY <3>1
  <2> QED
    BY <2>1, <2>2, <2>3 DEF p
<1>4. ASSUME PartyAfter(k, truth.side[k], o + 1) = PartyAfter(k, truth.side[k], o)
      PROVE  Sides(k, o + 1) = Sides(k, o)
  <2> DEFINE f == Sides(k, o)
  <2>1. f = [y \in 1..k |-> f[y]] /\ k \in DOMAIN f
    BY DEF Sides
  <2> HIDE DEF f
  <2>2. [f EXCEPT ![k] = f[k]] = f
    BY <2>1
  <2> QED
    BY <1>1, <1>3, <1>4, <2>2 DEF f
<1> QED
  BY <1>1, <1>2, <1>3, <1>4

\* Numbers of one side, all at once.
SideNumbers(s) ==
  /\ Asks(s) \in Nat /\ HasLocks(s) \in Nat /\ Lists(s) \in {0, 1}
  /\ Lists(s) = 0 <=> HasLocks(s) = 0
  /\ Width(s) = 8 + Asks(s) + Lists(s) + 2 * HasLocks(s)

LEMMA NumbersOfSide == ASSUME NEW s \in Side PROVE SideNumbers(s)
BY SideType DEF SideNumbers, Width

\* A party is its five fields.
Known(y, f, q, h, w) == [index |-> y, facts |-> f, query |-> q, holds |-> h, waiting |-> w]

LEMMA KnownFields ==
  ASSUME NEW y, NEW f, NEW q, NEW h, NEW w
  PROVE  /\ Known(y, f, q, h, w).index = y /\ Known(y, f, q, h, w).facts = f
         /\ Known(y, f, q, h, w).query = q /\ Known(y, f, q, h, w).holds = h
         /\ Known(y, f, q, h, w).waiting = w
BY DEF Known

LEMMA KnownFacts ==
  ASSUME NEW y, NEW f, NEW q, NEW h, NEW w, NEW x
  PROVE  [Known(y, f, q, h, w) EXCEPT !.facts = x] = Known(y, x, q, h, w)
BY DEF Known

LEMMA KnownQuery ==
  ASSUME NEW y, NEW f, NEW q, NEW h, NEW w, NEW x
  PROVE  [Known(y, f, q, h, w) EXCEPT !.query = x] = Known(y, f, x, h, w)
BY DEF Known

LEMMA KnownHolds ==
  ASSUME NEW y, NEW f, NEW q, NEW h, NEW w, NEW x
  PROVE  [Known(y, f, q, h, w) EXCEPT !.holds = x] = Known(y, f, q, x, w)
BY DEF Known

LEMMA KnownWaiting ==
  ASSUME NEW y, NEW f, NEW q, NEW h, NEW w, NEW x
  PROVE  [Known(y, f, q, h, w) EXCEPT !.waiting = x] = Known(y, f, q, h, x)
BY DEF Known

LEMMA PartyIsKnown ==
  ASSUME NEW k, NEW s, NEW o
  PROVE  PartyAfter(k, s, o) =
           Known(k, Told(o), SubSeq(s.query, 1, AskedBy(s, o)), SubSeq(s.holds, 1, HeldBy(s, o)),
                 IF o >= Width(s) - 1 THEN <<s.waiting>> ELSE <<>>)
BY DEF PartyAfter, Known

\* A fact.
LEMMA FactKeeps ==
  ASSUME DeadlockInv, DeadlockNext, NEW k, NEW o \in 1..4, AtSide(k, o)
  PROVE  SideMoves(k, o + 1)
<1> DEFINE s == truth.side[k]
<1>1. s \in Side /\ SideNumbers(s)
  BY TwoSides, NumbersOfSide DEF AtSide, DeadlockInv
<1>2. SideLine(line, k, s, o)
  BY <1>1, LineOfSide DEF AtSide, SideNumbers
<1>3. line.is \in Facts /\ Told(o + 1) = Told(o) \cup {line.is} /\ (line.is = "thread" <=> o = 4)
  <2>1. o = 1 \/ o = 2 \/ o = 3 \/ o = 4
    OBVIOUS
  <2> QED
    BY <1>2, <2>1, ToldGrows DEF SideLine, Facts
<1>4. FactLine
  BY <1>3, LineIsTaken DEF AtSide
<1>5. AskedBy(s, o + 1) = AskedBy(s, o) /\ HeldBy(s, o + 1) = HeldBy(s, o)
      /\ ~(o >= Width(s) - 1) /\ ~(o + 1 >= Width(s) - 1)
  <2> HIDE DEF s
  <2>1. o \in Nat /\ ~(o \in 5..(4 + Asks(s))) /\ o < 5 + Asks(s) + Lists(s)
        /\ ~(o >= Width(s) - 1) /\ ~(o + 1 >= Width(s) - 1)
    BY <1>1 DEF SideNumbers
  <2> QED
    BY <1>1, <2>1, AskedGrows, HeldGrows
<1>6. [PartyAfter(k, s, o) EXCEPT !.facts = @ \cup {line.is}] = PartyAfter(k, s, o + 1)
  <2> DEFINE q == SubSeq(s.query, 1, AskedBy(s, o))  h == SubSeq(s.holds, 1, HeldBy(s, o))
             f == Told(o)  g == Told(o + 1)  w == <<>>
  <2>1. PartyAfter(k, s, o) = Known(k, f, q, h, w) /\ PartyAfter(k, s, o + 1) = Known(k, g, q, h, w)
    BY <1>5, PartyIsKnown
  <2>2. g = f \cup {line.is}
    BY <1>3
  <2> HIDE DEF q, h, f, g, w
  <2>3. PartyAfter(k, s, o).facts \cup {line.is} = g
    BY <2>1, <2>2, KnownFields
  <2>4. [Known(k, f, q, h, w) EXCEPT !.facts = g] = Known(k, g, q, h, w)
    BY KnownFacts
  <2> QED
    BY <2>1, <2>3, <2>4
<1>7. parties' = Sides(k, o + 1)
  <2>1. parties' = [parties EXCEPT ![k].facts = @ \cup {line.is}] /\ parties = Sides(k, o)
    BY <1>4 DEF FactLine, AtSide
  <2> DEFINE p == PartyAfter(k, s, o + 1)
  <2> HIDE DEF p
  <2>3. k \in {1, 2} /\ Sides(k, o)[k] = PartyAfter(k, s, o) /\ [Sides(k, o) EXCEPT ![k] = p] = Sides(k, o + 1)
    BY SidesAre DEF AtSide, p
  <2>4. [Sides(k, o)[k] EXCEPT !.facts = @ \cup {line.is}] = p
    BY <1>6, <2>3 DEF p
  <2>2. parties' = [Sides(k, o) EXCEPT ![k] = p]
    BY <2>1, <2>4
  <2> QED
    BY <2>2, <2>3
<1>8. /\ AimAfter(k, s, o + 1) = AimAfter(k, s, o)
      /\ AsksAfter(s, o + 1) = (AsksAfter(s, o) \/ o = 4)
  BY <1>1 DEF AimAfter, AsksAfter, SideNumbers
<1>9. collecting' = (collecting \/ line.is = "thread")
  BY <1>4 DEF FactLine
<1>10. collecting' = AsksAfter(s, o + 1)
  BY <1>3, <1>8, <1>9 DEF AtSide
<1> QED
  BY <1>4, <1>7, <1>8, <1>10, LineIsNext DEF FactLine, AtSide, SideMoves

\* What is known of a side does not change where neither its statement nor its
\* locks are read.
LEMMA NothingNew ==
  ASSUME NEW k, NEW s \in Side, NEW o \in Nat, o >= 5 + Asks(s),
         HeldBy(s, o + 1) = HeldBy(s, o), o # Width(s) - 2
  PROVE  PartyAfter(k, s, o + 1) = PartyAfter(k, s, o)
<1>1. SideNumbers(s)
  BY NumbersOfSide
<1>2. AskedBy(s, o + 1) = AskedBy(s, o)
  BY <1>1, AskedGrows DEF SideNumbers
<1>3. Told(o + 1) = Told(o)
  BY <1>1, ToldGrows DEF SideNumbers
<1>4. o >= Width(s) - 1 <=> o + 1 >= Width(s) - 1
  BY <1>1 DEF SideNumbers
<1>5. (IF o >= Width(s) - 1 THEN <<s.waiting>> ELSE <<>>)
      = (IF o + 1 >= Width(s) - 1 THEN <<s.waiting>> ELSE <<>>)
  BY <1>4
<1> QED
  BY <1>2, <1>3, <1>5, PartyIsKnown

\* A line of the statement.
LEMMA StatementKeeps ==
  ASSUME DeadlockInv, DeadlockNext, NEW k, NEW o, AtSide(k, o), o \in 5..(4 + Asks(truth.side[k]))
  PROVE  SideMoves(k, o + 1)
<1> DEFINE s == truth.side[k]
<1>1. s \in Side /\ SideNumbers(s) /\ o \in Nat /\ k \in {1, 2} /\ s.query \in Seq(Sayings)
  BY TwoSides, NumbersOfSide, SideType DEF AtSide, DeadlockInv
<1>2. o \in 0..(Width(s) - 1)
  BY <1>1 DEF SideNumbers
<1>3. SideLine(line, k, s, o)
  BY <1>2, LineOfSide DEF AtSide
<1>4. line.is = "text" /\ line.says = s.query[o - 4]
  BY <1>3 DEF SideLine
<1>5. TextLine
  BY <1>4, LineIsTaken DEF AtSide
<1> DEFINE q == Asks(s)
<1> HIDE DEF s, q
<1>13. /\ q \in Nat /\ Width(s) \in Nat /\ Width(s) >= 8 + q /\ Lists(s) \in Nat /\ o \in 5..(4 + q) /\ o \in Nat
  <2>1. q \in Nat /\ HasLocks(s) \in Nat /\ Lists(s) \in Nat
    BY <1>1 DEF SideNumbers, q
  <2>2. Width(s) = 8 + q + Lists(s) + 2 * HasLocks(s)
    BY <1>1 DEF SideNumbers, q
  <2>3. o \in 5..(4 + q)
    BY DEF s, q
  <2> QED
    BY <2>1, <2>2, <2>3
<1>12. AsksAfter(s, o) /\ AsksAfter(s, o + 1)
  BY <1>13 DEF AsksAfter, q
<1>6. collecting
  BY <1>12 DEF AtSide, s
<1>7. /\ AskedBy(s, o) = o - 5 /\ AskedBy(s, o + 1) = (o - 5) + 1
      /\ HeldBy(s, o + 1) = HeldBy(s, o) /\ Told(o + 1) = Told(o)
      /\ ~(o >= Width(s) - 1) /\ ~(o + 1 >= Width(s) - 1)
  <2>1. o < 5 + Asks(s) + Lists(s) /\ o >= 5 /\ o + 1 >= 5 /\ o + 1 \in Nat /\ o - 4 = (o - 5) + 1
        /\ ~(o >= Width(s) - 1) /\ ~(o + 1 >= Width(s) - 1) /\ o \in 5..(4 + Asks(s))
    BY <1>13 DEF q
  <2> QED
    BY <1>1, <2>1, AskedGrows, HeldGrows, ToldGrows
<1>8. Append(SubSeq(s.query, 1, AskedBy(s, o)), line.says) = SubSeq(s.query, 1, AskedBy(s, o + 1))
  <2>1. o - 5 \in 0..(Len(s.query) - 1) /\ o - 4 = (o - 5) + 1
    BY <1>1 DEF SideNumbers, Asks, s
  <2>2. Append(SubSeq(s.query, 1, o - 5), s.query[(o - 5) + 1]) = SubSeq(s.query, 1, (o - 5) + 1)
    BY <1>1, <2>1, PrefixGrows
  <2> QED
    BY <1>4, <1>7, <2>1, <2>2 DEF s
<1>9. [PartyAfter(k, s, o) EXCEPT !.query = Append(@, line.says)] = PartyAfter(k, s, o + 1)
  <2> DEFINE a == SubSeq(s.query, 1, AskedBy(s, o))  h == SubSeq(s.holds, 1, HeldBy(s, o))
             f == Told(o)  g == SubSeq(s.query, 1, AskedBy(s, o + 1))  w == <<>>
  <2>1. PartyAfter(k, s, o) = Known(k, f, a, h, w) /\ PartyAfter(k, s, o + 1) = Known(k, f, g, h, w)
    BY <1>7, PartyIsKnown
  <2>2. g = Append(a, line.says)
    BY <1>8
  <2> HIDE DEF a, h, f, g, w
  <2>3. Append(PartyAfter(k, s, o).query, line.says) = g
    BY <2>1, <2>2, KnownFields
  <2>4. [Known(k, f, a, h, w) EXCEPT !.query = g] = Known(k, f, g, h, w)
    BY KnownQuery
  <2> QED
    BY <2>1, <2>3, <2>4
<1>10. parties' = Sides(k, o + 1)
  <2>1. parties' = [parties EXCEPT ![k].query = Append(@, line.says)] /\ parties = Sides(k, o)
    BY <1>5, <1>6 DEF TextLine, AtSide
  <2> DEFINE p == PartyAfter(k, s, o + 1)
  <2> HIDE DEF p
  <2>2. Sides(k, o)[k] = PartyAfter(k, s, o) /\ [Sides(k, o) EXCEPT ![k] = p] = Sides(k, o + 1)
    BY <1>1, SidesAre DEF p, s
  <2>3. [Sides(k, o)[k] EXCEPT !.query = Append(@, line.says)] = p
    BY <1>9, <2>2 DEF p
  <2>4. parties' = [Sides(k, o) EXCEPT ![k] = p]
    BY <2>1, <2>3
  <2> QED
    BY <2>2, <2>4
<1>11. AimAfter(k, s, o + 1) = AimAfter(k, s, o)
  <2>1. /\ ~(o >= Width(s) - 2) /\ ~(o + 1 >= Width(s) - 2)
        /\ o <= 5 + Asks(s) /\ o + 1 <= 5 + Asks(s)
    BY <1>13 DEF q
  <2> QED
    BY <2>1 DEF AimAfter
<1>14. aim' = AimAfter(k, s, o + 1) /\ collecting' = collecting /\ current' = k
       /\ detected' = detected /\ victim' = victim
  BY <1>5, <1>11 DEF TextLine, AtSide, s
<1>15. collecting' = AsksAfter(s, o + 1)
  BY <1>6, <1>12, <1>14 DEF AsksAfter
<1> QED
  BY <1>5, <1>10, <1>14, <1>15, LineIsNext DEF SideMoves, s

\* The bytes of a record are of no party.
LEMMA BytesKeep ==
  ASSUME DeadlockInv, DeadlockNext, NEW k, NEW o, AtSide(k, o),
         o > 5 + Asks(truth.side[k]), o < Width(truth.side[k]), o # Width(truth.side[k]) - 2,
         o # Width(truth.side[k]) - 3,
         line.is = "text", HeldBy(truth.side[k], o + 1) = HeldBy(truth.side[k], o)
  PROVE  SideMoves(k, o + 1)
<1> DEFINE s == truth.side[k]
<1>1. s \in Side /\ SideNumbers(s) /\ o \in Nat /\ k \in {1, 2}
  BY TwoSides, NumbersOfSide DEF AtSide, DeadlockInv
<1>2. TextLine
  BY LineIsTaken DEF AtSide
<1>3. ~AsksAfter(s, o) /\ ~AsksAfter(s, o + 1)
  BY <1>1 DEF AsksAfter, SideNumbers
<1>4. AimAfter(k, s, o + 1) = AimAfter(k, s, o)
  BY <1>1 DEF AimAfter, SideNumbers
<1>5. PartyAfter(k, s, o + 1) = PartyAfter(k, s, o)
  BY <1>1, NothingNew DEF SideNumbers
<1>6. Sides(k, o + 1) = Sides(k, o)
  BY <1>1, <1>5, SidesAre
<1>7. ~collecting
  BY <1>3 DEF AtSide
<1>8. parties' = parties
  BY <1>2, <1>7 DEF TextLine
<1>9. aim' = AimAfter(k, s, o + 1) /\ collecting' = collecting /\ current' = k
       /\ detected' = detected /\ victim' = victim
  BY <1>2, <1>4 DEF TextLine, AtSide
<1>12. AsksAfter(s, o + 1) = AsksAfter(s, o)
  BY <1>3 DEF AsksAfter
<1>10. collecting' = AsksAfter(s, o + 1)
  BY <1>9, <1>12 DEF AtSide
<1>11. parties' = Sides(k, o + 1)
  BY <1>6, <1>8 DEF AtSide
<1> QED
  BY <1>2, <1>9, <1>10, <1>11, LineIsNext DEF SideMoves

\* A marker that opens a list of the side being read.
LEMMA ListOpens ==
  ASSUME DeadlockInv, DeadlockNext, NEW k, NEW o, AtSide(k, o),
         o >= 5 + Asks(truth.side[k]), o # Width(truth.side[k]) - 2,
         line.is \in {"HOLDS", "WAITING"}, line.n = k,
         HeldBy(truth.side[k], o + 1) = HeldBy(truth.side[k], o),
         AimAfter(k, truth.side[k], o + 1) = [at |-> line.is, n |-> k]
  PROVE  SideMoves(k, o + 1)
<1> DEFINE s == truth.side[k]
<1>1. s \in Side /\ SideNumbers(s) /\ o \in Nat /\ k \in {1, 2}
  BY TwoSides, NumbersOfSide DEF AtSide, DeadlockInv
<1>2. Marker
  <2>1. line.is \in Markers
    BY DEF Markers
  <2> QED
    BY <2>1, <1>1, LineIsTaken DEF AtSide
<1>3. /\ parties' = parties /\ current' = current /\ detected' = detected /\ victim' = victim
      /\ collecting' = FALSE /\ aim' = [at |-> line.is, n |-> line.n]
  BY <1>2 DEF Marker
<1>4. AsksAfter(s, o + 1) = FALSE
  BY <1>1 DEF AsksAfter, SideNumbers
<1>5. Sides(k, o + 1) = Sides(k, o)
  <2>1. PartyAfter(k, s, o + 1) = PartyAfter(k, s, o)
    BY <1>1, NothingNew
  <2> QED
    BY <1>1, <2>1, SidesAre
<1>6. aim' = AimAfter(k, s, o + 1)
  BY <1>3
<1>7. parties' = Sides(k, o + 1) /\ collecting' = AsksAfter(s, o + 1) /\ current' = k
  BY <1>3, <1>4, <1>5 DEF AtSide
<1> QED
  BY <1>2, <1>3, <1>6, <1>7, LineIsNext DEF SideMoves

\* The marker names the side it stands in.
LEMMA AimedAtSide ==
  ASSUME NEW k, NEW o, AtSide(k, o), aim.n = k, aim.at # "none"
  PROVE  Aimed = {k} /\ First = k
<1>1. /\ k \in {1, 2} /\ DOMAIN parties = 1..k /\ \A y \in 1..k : parties[y].index = y
  BY SidesAre DEF AtSide
<1>2. Aimed = {k}
  BY <1>1 DEF Aimed
<1>3. k \in Aimed /\ \A j \in Aimed : k <= j
  BY <1>1, <1>2
<1>4. First \in Aimed
  BY <1>3 DEF First
<1> QED
  BY <1>2, <1>4

\* A lock that is held.
LEMMA HeldLockKeeps ==
  ASSUME DeadlockInv, DeadlockNext, NEW k, NEW o, AtSide(k, o),
         NEW j \in 1..2 * HasLocks(truth.side[k]), j % 2 = 1,
         o = 4 + Asks(truth.side[k]) + Lists(truth.side[k]) + j
  PROVE  SideMoves(k, o + 1)
<1> DEFINE s == truth.side[k]
<1>1. s \in Side /\ SideNumbers(s) /\ o \in Nat /\ k \in {1, 2} /\ s.holds \in Seq(Locks)
  BY TwoSides, NumbersOfSide, SideType DEF AtSide, DeadlockInv
<1> HIDE DEF s
<1>2. /\ o \in 0..(Width(s) - 1) /\ o >= 6 + Asks(s) /\ o + 1 < Width(s) - 2
      /\ o < Width(s) - 3 /\ Lists(s) = 1 /\ o \in Nat /\ Asks(s) \in Nat /\ Width(s) \in Nat
  <2>1. /\ j \in 1..2 * HasLocks(s) /\ o = 4 + Asks(s) + Lists(s) + j
        /\ Asks(s) \in Nat /\ HasLocks(s) \in Nat /\ Lists(s) \in {0, 1} /\ (Lists(s) = 0 <=> HasLocks(s) = 0)
        /\ Width(s) = 8 + Asks(s) + Lists(s) + 2 * HasLocks(s)
    BY <1>1 DEF SideNumbers, s
  <2>2. j < 2 * HasLocks(s)
    BY <2>1
  <2> QED
    BY <2>1, <2>2
<1>3. line.is = "lock" /\ line.says = s.holds[(j + 1) \div 2]
  <2>1. SideLine(line, k, s, o)
    BY <1>1, <1>2, LineOfSide DEF AtSide, s
  <2> QED
    BY <2>1 DEF SideLine, s
<1>4. LockLine
  BY <1>3, LineIsTaken DEF AtSide
<1>5. /\ AimAfter(k, s, o) = [at |-> "HOLDS", n |-> k]
      /\ AimAfter(k, s, o + 1) = AimAfter(k, s, o)
      /\ AsksAfter(s, o) = FALSE /\ AsksAfter(s, o + 1) = FALSE
  <2>1. /\ ~(o >= Width(s) - 2) /\ ~(o + 1 >= Width(s) - 2)
        /\ ~(o <= 5 + Asks(s)) /\ ~(o + 1 <= 5 + Asks(s))
    BY <1>2
  <2> QED
    BY <2>1 DEF AimAfter, AsksAfter
<1>6. aim = [at |-> "HOLDS", n |-> k]
  BY <1>5 DEF AtSide, s
<1>7. aim.at = "HOLDS" /\ Aimed # {} /\ First = k
  BY <1>6, AimedAtSide
<1>8. /\ parties' = [parties EXCEPT ![k].holds = Append(@, line.says)]
      /\ collecting' = FALSE /\ detected' = detected /\ current' = current
      /\ aim' = aim /\ victim' = victim
  BY <1>4, <1>7 DEF LockLine
<1> DEFINE m == (j + 1) \div 2 - 1
<1>9. /\ HeldBy(s, o) = m /\ HeldBy(s, o + 1) = m + 1 /\ m \in 0..(HasLocks(s) - 1) /\ (j + 1) \div 2 = m + 1
  <2>1. HeldBy(s, o) = (j + 1) \div 2 - 1 /\ HeldBy(s, o + 1) = (j + 1) \div 2 /\ (j + 1) \div 2 \in 1..HasLocks(s)
    BY <1>1, HeldGrows DEF s
  <2> QED
    BY <1>1, <2>1 DEF SideNumbers
<1> HIDE DEF m
<1>10. AskedBy(s, o + 1) = AskedBy(s, o) /\ Told(o + 1) = Told(o)
       /\ ~(o >= Width(s) - 1) /\ ~(o + 1 >= Width(s) - 1)
  <2>1. ~(o \in 5..(4 + Asks(s))) /\ o >= 5 /\ o + 1 >= 5 /\ o + 1 \in Nat
        /\ ~(o >= Width(s) - 1) /\ ~(o + 1 >= Width(s) - 1)
    BY <1>2
  <2> QED
    BY <1>1, <2>1, AskedGrows, ToldGrows
<1>11. Append(SubSeq(s.holds, 1, HeldBy(s, o)), line.says) = SubSeq(s.holds, 1, HeldBy(s, o + 1))
  <2>1. m \in 0..(Len(s.holds) - 1)
    BY <1>9 DEF HasLocks
  <2>2. Append(SubSeq(s.holds, 1, m), s.holds[m + 1]) = SubSeq(s.holds, 1, m + 1)
    BY <1>1, <2>1, PrefixGrows
  <2> QED
    BY <1>3, <1>9, <2>2
<1>12. [PartyAfter(k, s, o) EXCEPT !.holds = Append(@, line.says)] = PartyAfter(k, s, o + 1)
  <2> DEFINE a == SubSeq(s.query, 1, AskedBy(s, o))  h == SubSeq(s.holds, 1, HeldBy(s, o))
             f == Told(o)  g == SubSeq(s.holds, 1, HeldBy(s, o + 1))  w == <<>>
  <2>1. PartyAfter(k, s, o) = Known(k, f, a, h, w) /\ PartyAfter(k, s, o + 1) = Known(k, f, a, g, w)
    BY <1>10, PartyIsKnown
  <2>2. g = Append(h, line.says)
    BY <1>11
  <2> HIDE DEF a, h, f, g, w
  <2>3. Append(PartyAfter(k, s, o).holds, line.says) = g
    BY <2>1, <2>2, KnownFields
  <2>4. [Known(k, f, a, h, w) EXCEPT !.holds = g] = Known(k, f, a, g, w)
    BY KnownHolds
  <2> QED
    BY <2>1, <2>3, <2>4
<1>13. parties' = Sides(k, o + 1)
  <2> DEFINE p == PartyAfter(k, s, o + 1)
  <2> HIDE DEF p
  <2>2. Sides(k, o)[k] = PartyAfter(k, s, o) /\ [Sides(k, o) EXCEPT ![k] = p] = Sides(k, o + 1)
    BY <1>1, SidesAre DEF p, s
  <2>3. [Sides(k, o)[k] EXCEPT !.holds = Append(@, line.says)] = p
    BY <1>12, <2>2 DEF p
  <2>4. parties' = [Sides(k, o) EXCEPT ![k] = p]
    BY <1>8, <2>3 DEF AtSide
  <2> QED
    BY <2>2, <2>4
<1>14. aim' = AimAfter(k, s, o + 1) /\ collecting' = AsksAfter(s, o + 1) /\ current' = k
  BY <1>5, <1>6, <1>8 DEF AtSide
<1> QED
  BY <1>4, <1>8, <1>13, <1>14, LineIsNext DEF SideMoves, s

\* The lock that is waited for.
LEMMA AwaitedLockKeeps ==
  ASSUME DeadlockInv, DeadlockNext, NEW k, NEW o, AtSide(k, o), o = Width(truth.side[k]) - 2
  PROVE  SideMoves(k, o + 1)
<1> DEFINE s == truth.side[k]
<1>1. s \in Side /\ SideNumbers(s) /\ o \in Nat /\ k \in {1, 2}
  BY TwoSides, NumbersOfSide DEF AtSide, DeadlockInv
<1> HIDE DEF s
<1>2. /\ o \in 0..(Width(s) - 1) /\ o >= 6 + Asks(s) /\ o = Width(s) - 2
  BY <1>1 DEF SideNumbers, s
<1>3. line.is = "lock" /\ line.says = s.waiting
  <2>1. SideLine(line, k, s, o)
    BY <1>1, <1>2, LineOfSide DEF AtSide, s
  <2> QED
    BY <1>2, <2>1 DEF SideLine
<1>4. LockLine
  BY <1>3, LineIsTaken DEF AtSide
<1>5. /\ AimAfter(k, s, o) = [at |-> "WAITING", n |-> k]
      /\ AimAfter(k, s, o + 1) = AimAfter(k, s, o)
      /\ AsksAfter(s, o) = FALSE /\ AsksAfter(s, o + 1) = FALSE
  <2>1. /\ o >= Width(s) - 2 /\ o + 1 >= Width(s) - 2
        /\ ~(o <= 5 + Asks(s)) /\ ~(o + 1 <= 5 + Asks(s))
    BY <1>1, <1>2 DEF SideNumbers
  <2> QED
    BY <2>1 DEF AimAfter, AsksAfter
<1>6. aim = [at |-> "WAITING", n |-> k]
  BY <1>5 DEF AtSide, s
<1>7. aim.at = "WAITING" /\ Aimed # {} /\ First = k
  BY <1>6, AimedAtSide
<1>8. /\ parties' = [parties EXCEPT ![k].waiting = <<line.says>>]
      /\ collecting' = FALSE /\ detected' = detected /\ current' = current
      /\ aim' = aim /\ victim' = victim
  BY <1>4, <1>7 DEF LockLine
<1>10. AskedBy(s, o + 1) = AskedBy(s, o) /\ Told(o + 1) = Told(o) /\ HeldBy(s, o + 1) = HeldBy(s, o)
       /\ ~(o >= Width(s) - 1) /\ o + 1 >= Width(s) - 1
  <2>1. ~(o \in 5..(4 + Asks(s))) /\ o >= 5 /\ o + 1 >= 5 /\ o + 1 \in Nat
        /\ ~(o >= Width(s) - 1) /\ o + 1 >= Width(s) - 1
        /\ o >= Width(s) - 3 /\ o + 1 >= Width(s) - 3
    BY <1>1, <1>2 DEF SideNumbers
  <2> QED
    BY <1>1, <2>1, AskedGrows, HeldGrows, ToldGrows
<1>12. [PartyAfter(k, s, o) EXCEPT !.waiting = <<line.says>>] = PartyAfter(k, s, o + 1)
  <2> DEFINE a == SubSeq(s.query, 1, AskedBy(s, o))  h == SubSeq(s.holds, 1, HeldBy(s, o))
             f == Told(o)  g == <<line.says>>  w == <<>>
  <2>1. PartyAfter(k, s, o) = Known(k, f, a, h, w)
    BY <1>10, PartyIsKnown
  <2>2. PartyAfter(k, s, o + 1) = Known(k, f, a, h, g)
    BY <1>3, <1>10, PartyIsKnown
  <2> HIDE DEF a, h, f, g, w
  <2>4. [Known(k, f, a, h, w) EXCEPT !.waiting = g] = Known(k, f, a, h, g)
    BY KnownWaiting
  <2> QED
    BY <2>1, <2>2, <2>4 DEF g
<1>13. parties' = Sides(k, o + 1)
  <2> DEFINE p == PartyAfter(k, s, o + 1)
  <2> HIDE DEF p
  <2>2. Sides(k, o)[k] = PartyAfter(k, s, o) /\ [Sides(k, o) EXCEPT ![k] = p] = Sides(k, o + 1)
    BY <1>1, SidesAre DEF p, s
  <2>3. [Sides(k, o)[k] EXCEPT !.waiting = <<line.says>>] = p
    BY <1>12, <2>2 DEF p
  <2>4. parties' = [Sides(k, o) EXCEPT ![k] = p]
    BY <1>8, <2>3 DEF AtSide
  <2> QED
    BY <2>2, <2>4
<1>14. aim' = AimAfter(k, s, o + 1) /\ collecting' = AsksAfter(s, o + 1) /\ current' = k
  BY <1>5, <1>6, <1>8 DEF AtSide
<1> QED
  BY <1>4, <1>8, <1>13, <1>14, LineIsNext DEF SideMoves, s

\* Every line of a side after its marker.
LEMMA SideKeeps ==
  ASSUME DeadlockInv, DeadlockNext, NEW k, NEW o, AtSide(k, o), o \in 1..(Width(truth.side[k]) - 1)
  PROVE  SideMoves(k, o + 1)
<1> DEFINE s == truth.side[k]  q == Asks(s)  c == Lists(s)  h == HasLocks(s)  w == Width(s)
<1>1. s \in Side /\ SideNumbers(s) /\ o \in Nat /\ k \in {1, 2}
  BY TwoSides, NumbersOfSide DEF AtSide, DeadlockInv
<1>2. /\ q \in Nat /\ h \in Nat /\ c \in {0, 1} /\ (c = 0 <=> h = 0)
      /\ w = 8 + q + c + 2 * h /\ w \in Nat
  BY <1>1 DEF SideNumbers
<1>3. SideLine(line, k, s, o)
  <2>1. o \in 0..(w - 1)
    BY <1>1, <1>2
  <2> QED
    BY <1>1, <2>1, LineOfSide DEF AtSide
<1> HIDE DEF s, q, c, h, w
<1>4. CASE o \in 1..4
  BY <1>4, FactKeeps
<1>5. CASE o \in 5..(4 + q)
  BY <1>5, StatementKeeps DEF s, q
<1>6. CASE o = 5 + q /\ c = 1
  <2>1. o >= 5 + q /\ o # w - 2 /\ ~(o + 1 >= w - 2) /\ ~(o + 1 <= 5 + q) /\ o < 5 + q + c
    BY <1>1, <1>2, <1>6
  <2>2. line.is = "HOLDS" /\ line.n = k
    BY <1>3, <1>6 DEF SideLine, q, c
  <2>3. HeldBy(s, o + 1) = HeldBy(s, o)
    BY <1>1, <2>1, HeldGrows DEF q, c
  <2>4. AimAfter(k, s, o + 1) = [at |-> line.is, n |-> k]
    BY <2>1, <2>2 DEF AimAfter, q, w
  <2> QED
    BY <2>1, <2>2, <2>3, <2>4, ListOpens DEF s, q, w
<1>7. CASE o = w - 3
  <2>1. o >= 5 + q /\ o # w - 2 /\ o + 1 >= w - 2 /\ o >= w - 3 /\ o + 1 >= w - 3 /\ o + 1 \in Nat
    BY <1>1, <1>2, <1>7
  <2>2. line.is = "WAITING" /\ line.n = k
    BY <1>3, <1>7 DEF SideLine, w
  <2>3. HeldBy(s, o + 1) = HeldBy(s, o)
    BY <1>1, <2>1, HeldGrows DEF w
  <2>4. AimAfter(k, s, o + 1) = [at |-> line.is, n |-> k]
    BY <2>1, <2>2 DEF AimAfter, w
  <2> QED
    BY <2>1, <2>2, <2>3, <2>4, ListOpens DEF s, q, w
<1>8. CASE o = w - 2
  BY <1>8, AwaitedLockKeeps DEF s, w
<1>9. CASE o = w - 1
  <2>1. /\ o > 5 + q /\ o < w /\ o # w - 2 /\ o # w - 3
        /\ o >= w - 3 /\ o + 1 >= w - 3 /\ o + 1 \in Nat
    BY <1>1, <1>2, <1>9
  <2>2. line.is = "text"
    BY <1>3, <1>9 DEF SideLine, w
  <2>3. HeldBy(s, o + 1) = HeldBy(s, o)
    BY <1>1, <2>1, HeldGrows DEF w
  <2> QED
    BY <2>1, <2>2, <2>3, BytesKeep DEF s, q, w
<1>10. ASSUME NEW j \in 1..2 * h, o = 4 + q + c + j PROVE SideMoves(k, o + 1)
  <2>1. CASE j % 2 = 1
    BY <1>10, <2>1, HeldLockKeeps DEF s, q, c, h
  <2>2. CASE j % 2 # 1
    <3>1. o > 5 + q /\ o < w /\ o # w - 2 /\ o # w - 3
      BY <1>1, <1>2, <1>10, <2>2
    <3>2. line.is = "text"
      BY <1>3, <1>10, <2>2 DEF SideLine, q, c, h
    <3>3. HeldBy(s, o + 1) = HeldBy(s, o)
      BY <1>1, <1>10, <2>2, HeldGrows DEF q, c, h
    <3> QED
      BY <3>1, <3>2, <3>3, BytesKeep DEF s, q, w
  <2> QED
    BY <2>1, <2>2
<1>11. ASSUME o > 4 + q + c, o < w - 3 PROVE \E j \in 1..2 * h : o = 4 + q + c + j
  <2> DEFINE j == o - (4 + q + c)
  <2>1. j \in 1..2 * h /\ o = 4 + q + c + j
    BY <1>1, <1>2, <1>11
  <2> QED
    BY <2>1
<1>12. o \in 1..(w - 1)
  BY DEF s, w
<1>13. CASE o > 4 + q + c /\ o < w - 3
  <2>1. PICK j \in 1..2 * h : o = 4 + q + c + j
    BY <1>11, <1>13
  <2> QED
    BY <1>10, <2>1
<1>14. \/ o \in 1..4
       \/ o \in 5..(4 + q)
       \/ o = 5 + q /\ c = 1
       \/ o > 4 + q + c /\ o < w - 3
       \/ o = w - 3
       \/ o = w - 2
       \/ o = w - 1
  <2>1. CASE c = 0
    <3>1. w = 8 + q
      BY <1>2, <2>1
    <3> QED
      BY <1>1, <1>2, <1>12, <2>1, <3>1
  <2>2. CASE c = 1
    BY <1>1, <1>2, <1>12, <2>2
  <2> QED
    BY <1>2, <2>1, <2>2
<1> QED
  BY <1>4, <1>5, <1>6, <1>7, <1>8, <1>9, <1>13, <1>14

\* A marker of a side, before any of its lines.
LEMMA PartyBegins ==
  ASSUME NEW k, NEW s \in Side
  PROVE  /\ PartyAfter(k, s, 1) = Party(k) /\ AimAfter(k, s, 1) = NoAim
         /\ AsksAfter(s, 1) = FALSE
<1>1. SideNumbers(s)
  BY NumbersOfSide
<1>2. /\ ~(1 >= Width(s) - 1) /\ ~(1 >= Width(s) - 2) /\ 1 <= 5 + Asks(s)
      /\ 1 - (5 + Asks(s) + Lists(s)) <= 0
  BY <1>1 DEF SideNumbers
<1>3. AskedBy(s, 1) = 0 /\ HeldBy(s, 1) = 0
  BY <1>2 DEF AskedBy, HeldBy
<1>4. SubSeq(s.query, 1, 0) = <<>> /\ SubSeq(s.holds, 1, 0) = <<>>
  BY SubSeqEmpty
<1>5. AimAfter(k, s, 1) = NoAim /\ AsksAfter(s, 1) = FALSE
  BY <1>2 DEF AimAfter, AsksAfter
<1> QED
  BY <1>2, <1>3, <1>4, <1>5, ToldGrows DEF PartyAfter, Party

LEMMA SidesOpen ==
  ASSUME truth \in Truths, NEW n \in {1, 2}, NEW o, n = 2 => o = Width(truth.side[1])
  PROVE  /\ Append(Sides(n - 1, o), Party(n)) = Sides(n, 1)
         /\ Len(Append(Sides(n - 1, o), Party(n))) = n
<1> DEFINE f == Sides(n - 1, o)  T == {f[y] : y \in 1..(n - 1)} \cup {Party(n)}
           g == Append(f, Party(n))  e == Sides(n, 1)
<1>1. f = [y \in 1..(n - 1) |-> f[y]]
  BY DEF Sides
<1>2. e = [y \in 1..n |-> e[y]]
  BY DEF Sides
<1>3. \A y \in 1..(n - 1) : f[y] = e[y]
  <2>1. CASE n = 1
    BY <2>1
  <2>2. CASE n = 2
    <3>1. f[1] = PartyAfter(1, truth.side[1], o) /\ e[1] = PartyAfter(1, truth.side[1], Width(truth.side[1]))
      BY <2>2 DEF Sides
    <3> QED
      BY <2>2, <3>1
  <2> QED
    BY <2>1, <2>2
<1>4. e[n] = Party(n)
  <2>1. e[n] = PartyAfter(n, truth.side[n], 1)
    BY DEF Sides
  <2> QED
    BY <2>1, TwoSides, PartyBegins
<1> HIDE DEF f, e
<1>5. f \in Seq(T) /\ Len(f) = n - 1
  <2>1. f \in [1..(n - 1) -> T] /\ n - 1 \in Nat
    BY <1>1
  <2> QED
    BY <2>1, SeqDef, LenProperties
<1>6. Party(n) \in T
  OBVIOUS
<1> HIDE DEF T
<1>7. /\ g \in Seq(T) /\ Len(g) = n /\ g[n] = Party(n)
      /\ \A y \in 1..(n - 1) : g[y] = f[y]
  BY <1>5, <1>6, AppendProperties
<1> HIDE DEF g
<1>8. g = [y \in 1..n |-> g[y]]
  BY <1>7, LenProperties
<1>9. \A y \in 1..n : g[y] = e[y]
  BY <1>3, <1>4, <1>7
<1>10. g = e
  BY <1>2, <1>8, <1>9
<1> QED
  BY <1>7, <1>10 DEF g, f, e

\* Where the invariant stands in the lines, all at once.
LEMMA Places ==
  ASSUME DeadlockInv
  PROVE  /\ truth.side[1] \in Side /\ truth.side[2] \in Side
         /\ SideNumbers(truth.side[1]) /\ SideNumbers(truth.side[2])
         /\ Width(truth.side[1]) \in Nat /\ Width(truth.side[1]) >= 8
         /\ Width(truth.side[2]) \in Nat /\ Width(truth.side[2]) >= 8
         /\ Begins(1) = 7 /\ Begins(2) = 7 + Width(truth.side[1])
         /\ Ends = Begins(2) + Width(truth.side[2]) /\ ln \in 1..(Ends + 2) /\ Ends \in Nat
<1>1. truth.side[1] \in Side /\ truth.side[2] \in Side /\ ln \in 1..(Ends + 2)
  BY TwoSides DEF DeadlockInv
<1>2. SideNumbers(truth.side[1]) /\ SideNumbers(truth.side[2])
  BY <1>1, NumbersOfSide
<1>3. /\ Width(truth.side[1]) \in Nat /\ Width(truth.side[1]) >= 8
      /\ Width(truth.side[2]) \in Nat /\ Width(truth.side[2]) >= 8
  BY <1>2 DEF SideNumbers
<1>4. Begins(1) = 7 /\ Begins(2) = 7 + Width(truth.side[1])
  BY DEF Begins
<1>5. Ends = Begins(2) + Width(truth.side[2]) /\ Ends \in Nat
  BY <1>3, <1>4 DEF Ends
<1> QED
  BY <1>1, <1>2, <1>3, <1>4, <1>5

\* The places of the next state are those of this one.
LEMMA PlacesStay ==
  ASSUME truth' = truth
  PROVE  /\ Ends' = Ends /\ (\A k : Begins(k)' = Begins(k))
         /\ (\A n, o : Sides(n, o)' = Sides(n, o)) /\ \A n : SectionAt(n)' = SectionAt(n)
BY DEF Ends, Begins, Sides, SectionAt

LEMMA Sections ==
  ASSUME NEW n \in Nat, Ends \in Nat, Ends >= 7
  PROVE  /\ n <= 4 => SectionAt(n) = "before"
         /\ n = 5 \/ n = 6 => SectionAt(n) = "header"
         /\ n >= 7 /\ n <= Ends + 1 => SectionAt(n) = "body"
         /\ n = Ends + 2 => SectionAt(n) = "over"
BY DEF SectionAt

\* The lines before the first marker and those after the second side.
LEMMA AroundTheSides ==
  ASSUME DeadlockInv
  PROVE  /\ ln <= 3 => line.is # "header"
         /\ ln = 4 => line.is = "header"
         /\ ln = 5 => line.is = "rule"
         /\ ln = 6 => line.is = "text"
         /\ ln = Ends => line.is = "ROLL BACK" /\ line.n = truth.victim
         /\ ln = Ends + 1 => line.is = "rule"
<1>1. truth \in Truths /\ lines = Report(truth) /\ ln \in 1..(Ends + 2) /\ Ends \in Nat
  BY Places DEF DeadlockInv
<1>2. /\ \A j \in 1..3 : lines[j].is # "header"
      /\ lines[4].is = "header" /\ lines[5].is = "rule" /\ lines[6].is = "text"
      /\ lines[Ends].is = "ROLL BACK" /\ lines[Ends].n = truth.victim
      /\ lines[8 + Width(truth.side[1]) + Width(truth.side[2])].is = "rule"
  BY <1>1, ReportIs DEF Ends
<1>3. 8 + Width(truth.side[1]) + Width(truth.side[2]) = Ends + 1
  BY Places
<1>4. ln <= 3 => ln \in 1..3
  BY <1>1
<1> QED
  BY <1>2, <1>3, <1>4, Zenon DEF line

\* The parties stay as they are when no side is read.
SidesStay ==
  /\ parties' = parties /\ current' = current /\ aim' = aim /\ collecting' = collecting

LEMMA SidesLater ==
  ASSUME truth' = truth, NEW c \in {0, 1, 2}, NEW m, current' = c, ln' = m,
         c = (IF m <= 7 THEN 0 ELSE IF m <= Begins(2) THEN 1 ELSE 2),
         parties' = Sides(c, m - Begins(c)),
         c = 0 => aim' = NoAim /\ collecting' = FALSE,
         c # 0 => /\ aim' = AimAfter(c, truth.side[c], m - Begins(c))
                  /\ collecting' = AsksAfter(truth.side[c], m - Begins(c))
  PROVE  SidesInv'
<1>1. parties' = Sides(current, ln - Begins(current))'
  BY DEF Sides, Begins
<1>2. current' = (IF ln' <= 7 THEN 0 ELSE IF ln' <= Begins(2)' THEN 1 ELSE 2)
  BY DEF Begins
<1>3. Begins(current)' = Begins(c)
  BY DEF Begins
<1> QED
  BY <1>1, <1>2, <1>3 DEF SidesInv

LEMMA BeforeKeeps ==
  ASSUME DeadlockInv, DeadlockNext, ln <= 6
  PROVE  DeadlockInv'
<1>1. /\ ln \in Nat /\ ln \in 1..6 /\ ln < Ends /\ Ends \in Nat /\ ln <= 7 /\ ln <= Ends
      /\ ~(ln >= 7) /\ Ends >= 7
  BY Places
<1>2. truth \in Truths /\ lines = Report(truth) /\ section = SectionAt(ln) /\ victim = 0
  BY <1>1 DEF DeadlockInv
<1>3. detected = FALSE
  <2>1. detected = (ln >= 7)
    BY DEF DeadlockInv
  <2>2. (ln >= 7) = FALSE
    BY <1>1
  <2> QED
    BY <2>1, <2>2
<1>4. current = 0 /\ parties = Sides(0, ln - Begins(0)) /\ aim = NoAim /\ collecting = FALSE
  BY <1>1 DEF DeadlockInv, SidesInv
<1>5. ln' = ln + 1 /\ truth' = truth /\ lines' = lines
  BY DEF DeadlockNext, Skip, Marker, LockLine, TimeLine, FactLine, TextLine, InBody, Read
<1>6. SidesStay /\ victim' = 0 /\ section' = SectionAt(ln + 1) /\ detected' = (ln + 1 >= 7)
  <2>1. CASE ln <= 4
    <3>1. ln <= 3 \/ ln = 4
      BY <1>1, <2>1
    <3>2. section = "before" /\ (line.is = "header" <=> ln = 4)
      <4>1. section = "before"
        BY <1>1, <1>2, <2>1, Sections
      <4>2. CASE ln <= 3
        BY <1>1, <4>1, <4>2, AroundTheSides
      <4>3. CASE ln = 4
        BY <4>1, <4>3, AroundTheSides, Zenon
      <4> QED
        BY <3>1, <4>2, <4>3
    <3>3. Skip
      BY <3>2 DEF DeadlockNext, Marker, LockLine, TimeLine, FactLine, TextLine, InBody
    <3>4. NothingRead /\ section' = (IF ln = 4 THEN "header" ELSE "before")
      BY <3>2, <3>3 DEF Skip
    <3>5. section' = SectionAt(ln + 1) /\ (ln + 1 >= 7) = FALSE
      <4>1. ln + 1 \in Nat /\ (ln = 4 => ln + 1 = 5) /\ (ln # 4 => ln + 1 <= 4) /\ ~(ln + 1 >= 7)
        BY <1>1, <2>1
      <4> QED
        BY <1>1, <3>4, <4>1, Sections
    <3>6. victim' = 0 /\ SidesStay /\ detected' = FALSE
      BY <1>2, <1>3, <3>4 DEF NothingRead, SidesStay
    <3> QED
      BY <3>5, <3>6
  <2>2. CASE ln = 5
    <3>1. line.is = "rule"
      BY <2>2, AroundTheSides, Zenon
    <3>2. section = "header" /\ SectionAt(ln + 1) = "header" /\ (ln + 1 >= 7) = FALSE
      BY <1>1, <1>2, <2>2, Sections
    <3>3. Skip
      BY <3>1, <3>2 DEF DeadlockNext, Marker, LockLine, TimeLine, FactLine, TextLine, InBody, Markers, Facts
    <3>4. NothingRead /\ section' = "header"
      BY <3>1, <3>2, <3>3 DEF Skip
    <3>6. victim' = 0 /\ SidesStay /\ detected' = FALSE
      BY <1>2, <1>3, <3>4 DEF NothingRead, SidesStay
    <3> QED
      BY <3>2, <3>4, <3>6
  <2>3. CASE ln = 6
    <3>1. line.is = "text"
      BY <2>3, AroundTheSides, Zenon
    <3>2. section = "header" /\ SectionAt(ln + 1) = "body" /\ ln + 1 >= 7
      BY <1>1, <1>2, <2>3, Sections
    <3>3. TimeLine
      BY <1>4, <3>1, <3>2 DEF DeadlockNext, Skip, Marker, LockLine, FactLine, TextLine, InBody, Markers, Facts
    <3>4. /\ UNCHANGED <<parties, current, aim, collecting, victim>> /\ detected' = TRUE
          /\ section' = "body"
      BY <3>3 DEF TimeLine, InBody
    <3> QED
      BY <1>2, <3>2, <3>4 DEF SidesStay
  <2> QED
    BY <1>1, <2>1, <2>2, <2>3
<1>7. Sides(0, (ln + 1) - Begins(0)) = Sides(0, ln - Begins(0))
  BY DEF Sides
<1>8. ln + 1 \in 1..(Ends + 2) /\ ln + 1 <= 7 /\ ln + 1 <= Ends
  BY <1>1
<1>9. /\ Ends' = Ends /\ (\A k : Begins(k)' = Begins(k)) /\ (\A n, o : Sides(n, o)' = Sides(n, o))
      /\ \A n : SectionAt(n)' = SectionAt(n)
  BY <1>5, PlacesStay
<1>10. /\ current' = 0 /\ aim' = NoAim /\ collecting' = FALSE
       /\ parties' = Sides(0, (ln + 1) - Begins(0))
  BY <1>4, <1>6, <1>7 DEF SidesStay
<1>11. SidesInv'
  <2>1. 0 \in {0, 1, 2} /\ ln' = ln + 1
        /\ 0 = (IF ln + 1 <= 7 THEN 0 ELSE IF ln + 1 <= Begins(2) THEN 1 ELSE 2)
    BY <1>5, <1>8
  <2> DEFINE m == ln + 1
  <2>4. ln' = m
    BY <1>5
  <2>2. parties' = Sides(0, m - Begins(0))
    BY <1>10
  <2>3. 0 = (IF m <= 7 THEN 0 ELSE IF m <= Begins(2) THEN 1 ELSE 2)
    BY <2>1
  <2> HIDE DEF m
  <2> QED
    BY <1>5, <1>10, <2>1, <2>2, <2>3, <2>4, SidesLater
<1> QED
  BY <1>2, <1>5, <1>6, <1>8, <1>9, <1>11 DEF DeadlockInv

\* A step within the body keeps what is known beside the parties.
LEMMA BodyLater ==
  ASSUME DeadlockInv, ln >= 7, ln <= Ends + 1, ln' = ln + 1, truth' = truth, lines' = lines,
         section' = (IF ln <= Ends THEN "body" ELSE "over"),
         detected' = detected, victim' = (IF ln < Ends THEN 0 ELSE truth.victim), SidesInv'
  PROVE  DeadlockInv'
<1>1. ln \in Nat /\ Ends \in Nat /\ ln + 1 \in 1..(Ends + 2) /\ Ends >= 7
  BY Places
<1>2. Ends' = Ends /\ \A n : SectionAt(n)' = SectionAt(n)
  BY PlacesStay
<1>3. section' = SectionAt(ln + 1)
  <2>1. CASE ln <= Ends
    <3>1. ln + 1 >= 7 /\ ln + 1 <= Ends + 1 /\ ln + 1 \in Nat
      BY <1>1, <2>1
    <3> QED
      BY <1>1, <2>1, <3>1, Sections
  <2>2. CASE ln = Ends + 1
    <3>1. ln + 1 = Ends + 2 /\ ln + 1 \in Nat /\ ~(ln <= Ends)
      BY <1>1, <2>2
    <3> QED
      BY <1>1, <3>1, Sections
  <2> QED
    BY <1>1, <2>1, <2>2
<1>4. detected' = (ln + 1 >= 7)
  <2>1. detected = (ln >= 7)
    BY DEF DeadlockInv
  <2>2. (ln >= 7) = TRUE /\ (ln + 1 >= 7) = TRUE
    BY <1>1
  <2> QED
    BY <2>1, <2>2
<1>5. victim' = (IF ln + 1 <= Ends THEN 0 ELSE truth.victim)
  BY <1>1
<1>6. truth \in Truths /\ lines = Report(truth)
  BY DEF DeadlockInv
<1> QED
  BY <1>1, <1>2, <1>3, <1>4, <1>5, <1>6 DEF DeadlockInv

\* What the invariant says of the body.
LEMMA InTheBody ==
  ASSUME DeadlockInv, ln >= 7, ln <= Ends + 1
  PROVE  /\ section = "body" /\ victim = (IF ln <= Ends THEN 0 ELSE truth.victim)
         /\ current = (IF ln <= 7 THEN 0 ELSE IF ln <= Begins(2) THEN 1 ELSE 2)
         /\ parties = Sides(current, ln - Begins(current))
         /\ current # 0 => /\ aim = AimAfter(current, truth.side[current], ln - Begins(current))
                            /\ collecting = AsksAfter(truth.side[current], ln - Begins(current))
<1>1. section = "body"
  BY Places, Sections DEF DeadlockInv
<1> QED
  BY <1>1 DEF DeadlockInv, SidesInv

LEMMA OpeningKeeps ==
  ASSUME DeadlockInv, DeadlockNext, NEW k \in {1, 2}, ln = Begins(k)
  PROVE  DeadlockInv'
<1> DEFINE w == Width(truth.side[k])
<1>1. /\ truth \in Truths /\ truth.side[k] \in Side /\ w \in Nat /\ w >= 8 /\ ln >= 7 /\ ln < Ends
      /\ ln \in Nat /\ ln <= Ends + 1 /\ ln <= Ends /\ Ends \in Nat
  BY Places DEF DeadlockInv
<1>2. current = k - 1 /\ parties = Sides(k - 1, ln - Begins(k - 1))
      /\ (k = 2 => ln - Begins(k - 1) = Width(truth.side[1]))
  <2>1. CASE k = 1
    BY <1>1, <2>1, InTheBody, Places
  <2>2. CASE k = 2
    BY <1>1, <2>2, InTheBody, Places
  <2> QED
    BY <2>1, <2>2
<1>3. line.is = "TRANSACTION" /\ line.n = k
  <2>1. 0 \in 0..(w - 1) /\ ln = Begins(k) + 0
    BY <1>1
  <2>2. SideLine(line, k, truth.side[k], 0)
    BY <2>1, LineOfSide
  <2> QED
    BY <2>2 DEF SideLine
<1>4. Marker
  <2>1. section = "body"
    BY <1>1, InTheBody
  <2> QED
    BY <1>3, <2>1 DEF DeadlockNext, Skip, LockLine, TimeLine, FactLine, TextLine, InBody, Markers, Facts
<1>5. /\ ln' = ln + 1 /\ truth' = truth /\ lines' = lines /\ section' = "body"
  BY <1>4, LineIsNext
<1>6. /\ parties' = Append(parties, Party(k)) /\ current' = Len(parties')
      /\ aim' = NoAim /\ collecting' = FALSE /\ detected' = detected /\ victim' = victim
  BY <1>3, <1>4 DEF Marker
<1>7. parties' = Sides(k, 1) /\ current' = k
  BY <1>1, <1>2, <1>6, SidesOpen
<1>8. aim' = AimAfter(k, truth.side[k], 1) /\ collecting' = AsksAfter(truth.side[k], 1)
  BY <1>1, <1>6, PartyBegins
<1> DEFINE m == ln + 1
<1>9. ln' = m /\ m - Begins(k) = 1 /\ k = (IF m <= 7 THEN 0 ELSE IF m <= Begins(2) THEN 1 ELSE 2)
      /\ k \in {0, 1, 2} /\ k # 0
  <2>1. CASE k = 1
    BY <1>1, <1>5, <2>1, Places
  <2>2. CASE k = 2
    BY <1>1, <1>5, <2>2, Places
  <2> QED
    BY <2>1, <2>2
<1> HIDE DEF m
<1>10. SidesInv'
  BY <1>5, <1>7, <1>8, <1>9, SidesLater
<1>11. victim' = 0
  BY <1>1, <1>6, InTheBody
<1> QED
  BY <1>1, <1>5, <1>6, <1>10, <1>11, BodyLater

LEMMA SideLineKeeps ==
  ASSUME DeadlockInv, DeadlockNext, ln > 7, ln # Begins(2), ln < Ends
  PROVE  DeadlockInv'
<1> DEFINE k == IF ln < Begins(2) THEN 1 ELSE 2  o == ln - Begins(k)
<1>1. /\ k \in {1, 2} /\ o \in 1..(Width(truth.side[k]) - 1) /\ o \in Nat /\ ln = Begins(k) + o
      /\ ln \in Nat /\ ln >= 7 /\ ln <= Ends + 1 /\ ln <= Ends /\ Ends \in Nat
      /\ k = (IF ln <= 7 THEN 0 ELSE IF ln <= Begins(2) THEN 1 ELSE 2)
      /\ k = (IF ln + 1 <= 7 THEN 0 ELSE IF ln + 1 <= Begins(2) THEN 1 ELSE 2)
      /\ (ln + 1) - Begins(k) = o + 1
  <2>1. CASE ln < Begins(2)
    BY <2>1, Places
  <2>2. CASE ~(ln < Begins(2))
    BY <2>2, Places
  <2> QED
    BY <2>1, <2>2
<1> HIDE DEF k
<1>2. AtSide(k, o)
  BY <1>1, InTheBody DEF AtSide
<1> HIDE DEF o
<1>3. SideMoves(k, o + 1)
  BY <1>1, <1>2, SideKeeps
<1> DEFINE m == ln + 1
<1>4. /\ m - Begins(k) = o + 1 /\ k \in {0, 1, 2} /\ k # 0
      /\ k = (IF m <= 7 THEN 0 ELSE IF m <= Begins(2) THEN 1 ELSE 2)
  BY <1>1
<1>5. ln' = m /\ truth' = truth /\ current' = k
  BY <1>3 DEF SideMoves
<1> HIDE DEF m
<1>6. SidesInv'
  <2>1. /\ parties' = Sides(k, m - Begins(k)) /\ aim' = AimAfter(k, truth.side[k], m - Begins(k))
        /\ collecting' = AsksAfter(truth.side[k], m - Begins(k))
    BY <1>3, <1>4 DEF SideMoves
  <2> QED
    BY <1>4, <1>5, <2>1, SidesLater
<1>7. /\ ln' = ln + 1 /\ lines' = lines /\ section' = "body" /\ detected' = detected /\ victim' = victim
  BY <1>3 DEF SideMoves
<1>8. victim' = 0
  BY <1>1, <1>7, InTheBody
<1> QED
  BY <1>1, <1>5, <1>6, <1>7, <1>8, BodyLater

\* The marker that names the victim, and the rule under it.
LEMMA EndKeeps ==
  ASSUME DeadlockInv, DeadlockNext, ln = Ends \/ ln = Ends + 1
  PROVE  DeadlockInv'
<1> DEFINE s == truth.side[2]  w == Width(s)  o == ln - Begins(2)  b == Begins(2)
<1>7. /\ s \in Side /\ SideNumbers(s) /\ w \in Nat /\ w >= 8 /\ b \in Nat /\ b >= 15
      /\ Ends = b + w /\ ln \in Nat
  BY Places
<1>8. Asks(s) \in Nat /\ w >= 8 + Asks(s)
  <2> HIDE DEF s
  <2> QED
    BY <1>7 DEF SideNumbers
<1>1. /\ s \in Side /\ w \in Nat /\ w >= 8 /\ o \in Nat /\ o >= w /\ ln \in Nat /\ ln > Begins(2)
      /\ ln > 7 /\ ln >= 7 /\ ln <= Ends + 1 /\ ln = Begins(2) + o /\ (ln + 1) - Begins(2) = o + 1
      /\ o >= 5 + Asks(s) /\ o # w - 2 /\ o >= w - 3 /\ o + 1 >= w - 3 /\ o + 1 \in Nat
      /\ ~(ln < Ends) /\ 2 = (IF ln <= 7 THEN 0 ELSE IF ln <= Begins(2) THEN 1 ELSE 2)
      /\ 2 = (IF ln + 1 <= 7 THEN 0 ELSE IF ln + 1 <= Begins(2) THEN 1 ELSE 2)
  <2>1. o = ln - b
    OBVIOUS
  <2> HIDE DEF s, w, o, b
  <2>2. /\ o \in Nat /\ o >= w /\ ln > b /\ ln > 7 /\ ln = b + o /\ (ln + 1) - b = o + 1
    BY <1>7, <2>1
  <2>3. /\ o >= 5 + Asks(s) /\ o # w - 2 /\ o >= w - 3 /\ o + 1 >= w - 3 /\ o + 1 \in Nat
    BY <1>7, <1>8, <2>2
  <2>4. /\ ln >= 7 /\ ln <= Ends + 1 /\ ~(ln < Ends)
        /\ 2 = (IF ln <= 7 THEN 0 ELSE IF ln <= b THEN 1 ELSE 2)
        /\ 2 = (IF ln + 1 <= 7 THEN 0 ELSE IF ln + 1 <= b THEN 1 ELSE 2)
    BY <1>7, <2>2
  <2> QED
    BY <1>7, <2>2, <2>3, <2>4 DEF b
<1>2. /\ current = 2 /\ section = "body" /\ parties = Sides(2, o)
      /\ aim = AimAfter(2, s, o) /\ collecting = AsksAfter(s, o)
      /\ victim = (IF ln <= Ends THEN 0 ELSE truth.victim)
  BY <1>1, InTheBody
<1>3. /\ Sides(2, o + 1) = Sides(2, o)
      /\ AimAfter(2, s, o + 1) = AimAfter(2, s, o) /\ AsksAfter(s, o + 1) = AsksAfter(s, o)
      /\ AsksAfter(s, o) = FALSE
  <2>1. HeldBy(s, o + 1) = HeldBy(s, o)
    BY <1>1, HeldGrows
  <2>2. PartyAfter(2, s, o + 1) = PartyAfter(2, s, o)
    BY <1>1, <2>1, NothingNew
  <2>3. o >= w - 2 /\ o + 1 >= w - 2
    BY <1>1
  <2>4. AimAfter(2, s, o + 1) = AimAfter(2, s, o)
    BY <2>3 DEF AimAfter
  <2>5. ~(o <= 5 + Asks(s)) /\ ~(o + 1 <= 5 + Asks(s))
    <3> HIDE DEF s, o, w
    <3> QED
      BY <1>1, <1>7, <1>8
  <2>6. AsksAfter(s, o) = FALSE /\ AsksAfter(s, o + 1) = FALSE
    BY <2>5 DEF AsksAfter
  <2>7. Sides(2, o + 1) = Sides(2, o)
    BY <2>2, SidesAre
  <2> QED
    BY <2>4, <2>6, <2>7
<1> HIDE DEF s, w, o
<1>4. /\ ln' = ln + 1 /\ truth' = truth /\ lines' = lines /\ SidesStay /\ detected' = detected
      /\ section' = (IF ln <= Ends THEN "body" ELSE "over") /\ victim' = truth.victim
  <2>1. CASE ln = Ends
    <3>1. line.is = "ROLL BACK" /\ line.n = truth.victim
      BY <2>1, AroundTheSides, Zenon
    <3>2. Marker
      BY <1>2, <3>1 DEF DeadlockNext, Skip, LockLine, TimeLine, FactLine, TextLine, InBody, Markers, Facts
    <3>3. /\ collecting' = FALSE /\ parties' = parties /\ current' = current /\ aim' = aim
          /\ victim' = truth.victim /\ detected' = detected
      BY <3>1, <3>2 DEF Marker
    <3>4. collecting' = collecting
      BY <1>2, <1>3, <3>3
    <3>5. ln <= Ends
      BY <1>1, <2>1
    <3> QED
      BY <3>2, <3>3, <3>4, <3>5, LineIsNext DEF SidesStay
  <2>2. CASE ln = Ends + 1
    <3>1. line.is = "rule"
      BY <2>2, AroundTheSides, Zenon
    <3>2. Skip
      BY <1>2, <3>1 DEF DeadlockNext, Marker, LockLine, TimeLine, FactLine, TextLine, InBody, Markers, Facts
    <3>3. /\ NothingRead /\ section' = "over" /\ ln' = ln + 1 /\ truth' = truth /\ lines' = lines
      BY <1>2, <3>1, <3>2 DEF Skip, Read
    <3>4. ~(ln <= Ends)
      BY <2>2, Places
    <3> QED
      BY <1>2, <3>3, <3>4 DEF NothingRead, SidesStay
  <2> QED
    BY <2>1, <2>2
<1> DEFINE m == ln + 1
<1>5. /\ ln' = m /\ m - Begins(2) = o + 1
      /\ 2 = (IF m <= 7 THEN 0 ELSE IF m <= Begins(2) THEN 1 ELSE 2)
  BY <1>1, <1>4
<1> HIDE DEF m
<1>6. SidesInv'
  <2>1. /\ parties' = Sides(2, m - Begins(2)) /\ aim' = AimAfter(2, truth.side[2], m - Begins(2))
        /\ collecting' = AsksAfter(truth.side[2], m - Begins(2)) /\ current' = 2
    BY <1>2, <1>3, <1>4, <1>5 DEF SidesStay, s
  <2>2. 2 \in {0, 1, 2} /\ 2 # 0
    OBVIOUS
  <2> QED
    BY <1>4, <1>5, <2>1, <2>2, SidesLater
<1> QED
  BY <1>1, <1>4, <1>6, BodyLater

LEMMA DeadlockBegins == DeadlockInit => DeadlockInv
<1> SUFFICES ASSUME DeadlockInit PROVE DeadlockInv
  OBVIOUS
<1>1. /\ truth \in Truths /\ lines = Report(truth) /\ ln = 1 /\ section = "before"
      /\ detected = FALSE /\ parties = <<>> /\ current = 0
      /\ aim = NoAim /\ collecting = FALSE /\ victim = 0
  BY DEF DeadlockInit
<1>2. Ends \in Nat /\ Ends >= 7
  <2>1. /\ Width(truth.side[1]) \in Nat /\ Width(truth.side[2]) \in Nat
    BY <1>1, TwoSides, SideType
  <2> QED
    BY <2>1 DEF Ends
<1>3. ln \in 1..(Ends + 2) /\ ln <= 7 /\ ln <= Ends /\ ln <= 4 /\ (ln >= 7) = FALSE
  BY <1>1, <1>2
<1>4. Sides(0, ln - Begins(0)) = <<>>
  BY DEF Sides
<1>5. section = SectionAt(ln) /\ detected = (ln >= 7)
  BY <1>1, <1>3 DEF SectionAt
<1>6. SidesInv
  BY <1>1, <1>3, <1>4 DEF SidesInv
<1> QED
  BY <1>1, <1>3, <1>5, <1>6 DEF DeadlockInv

LEMMA DeadlockKeeps == DeadlockInv /\ [DeadlockNext]_deadlockVars => DeadlockInv'
<1> SUFFICES ASSUME DeadlockInv, [DeadlockNext]_deadlockVars PROVE DeadlockInv'
  OBVIOUS
<1>1. CASE DeadlockNext
  <2>1. \/ ln <= 6
        \/ ln = 7 \/ ln = Begins(2)
        \/ ln > 7 /\ ln # Begins(2) /\ ln < Ends
        \/ ln = Ends \/ ln = Ends + 1
        \/ ln = Ends + 2
    <3>1. ln \in Nat /\ Ends \in Nat /\ ln <= Ends + 2
      BY Places
    <3> QED
      BY <3>1
  <2>2. 7 = Begins(1)
    BY DEF Begins
  <2>3. ln # Ends + 2
    <3>1. ASSUME ln = Ends + 2 PROVE section = "over"
      BY <3>1, Places, Sections DEF DeadlockInv
    <3>2. section # "over"
      BY <1>1 DEF DeadlockNext, Skip, Marker, LockLine, TimeLine, FactLine, TextLine, InBody
    <3> QED
      BY <3>1, <3>2
  <2>4. CASE ln = 7 \/ ln = Begins(2)
    BY <1>1, <2>2, <2>4, OpeningKeeps
  <2> QED
    BY <1>1, <2>1, <2>3, <2>4, BeforeKeeps, SideLineKeeps, EndKeeps
<1>2. CASE UNCHANGED deadlockVars
  <2>1. /\ truth' = truth /\ lines' = lines /\ ln' = ln /\ section' = section
        /\ detected' = detected /\ parties' = parties /\ current' = current
        /\ aim' = aim /\ collecting' = collecting /\ victim' = victim
    BY <1>2 DEF deadlockVars
  <2>2. SidesInv'
    BY <2>1 DEF DeadlockInv, SidesInv, Sides, Begins
  <2> QED
    BY <2>1, <2>2 DEF DeadlockInv, Ends, SectionAt
<1> QED
  BY <1>1, <1>2

-----------------------------------------------------------------------------
(* Deadlock: what has been read.                                           *)

LEMMA BeginningOf ==
  ASSUME NEW S, NEW q \in Seq(S), NEW n \in 0..Len(q)
  PROVE  IsPrefix(SubSeq(q, 1, n), q) /\ (n = Len(q) => SubSeq(q, 1, n) = q)
<1>1. Len(q) \in Nat /\ n \in Int /\ 1 \in Int /\ \A y \in 1..n : q[y] \in S
  BY LenProperties
<1>2. Len(SubSeq(q, 1, n)) = n
  BY <1>1, SubSeqProperties
<1> DEFINE a == SubSeq(q, 1, n)
<1>3. a \in Seq(S) /\ Len(a) = n
  BY <1>1, <1>2, SubSeqProperties
<1>4. SubSeq(a, 1, Len(a)) = a
  BY <1>3, SubSeqFull
<1>5. n = Len(q) => a = q
  BY SubSeqFull
<1> QED
  BY <1>1, <1>3, <1>4, <1>5 DEF IsPrefix

\* What is known of a side is a beginning of it, and all of it in the end.
LEMMA PartyIsRead ==
  ASSUME NEW k, NEW s \in Side, NEW o \in Nat
  PROVE  LET p == PartyAfter(k, s, o)
         IN  /\ p.index = k /\ IsPrefix(p.query, s.query) /\ IsPrefix(p.holds, s.holds)
             /\ IsPrefix(p.waiting, <<s.waiting>>)
             /\ o >= Width(s) =>
                  p.facts = Facts /\ p.query = s.query /\ p.holds = s.holds /\ p.waiting = <<s.waiting>>
<1> DEFINE p == PartyAfter(k, s, o)
           q == SubSeq(s.query, 1, AskedBy(s, o))  h == SubSeq(s.holds, 1, HeldBy(s, o))
           w == IF o >= Width(s) - 1 THEN <<s.waiting>> ELSE <<>>
<1>1. /\ p.index = k /\ p.facts = Told(o) /\ p.query = q /\ p.holds = h /\ p.waiting = w
  <2>1. p = Known(k, Told(o), q, h, w)
    BY PartyIsKnown
  <2> HIDE DEF p, q, h, w
  <2> QED
    BY <2>1, KnownFields
<1>2. s.query \in Seq(Sayings) /\ s.holds \in Seq(Locks) /\ s.waiting \in Locks /\ SideNumbers(s)
  BY SideType, NumbersOfSide
<1>3. AskedBy(s, o) \in 0..Len(s.query) /\ HeldBy(s, o) \in 0..Len(s.holds)
  BY AskedGrows, HeldGrows DEF Asks, HasLocks
<1>4. IsPrefix(q, s.query) /\ (AskedBy(s, o) = Len(s.query) => q = s.query)
  BY <1>2, <1>3, BeginningOf
<1>5. IsPrefix(h, s.holds) /\ (HeldBy(s, o) = Len(s.holds) => h = s.holds)
  BY <1>2, <1>3, BeginningOf
<1>6. IsPrefix(w, <<s.waiting>>)
  <2> DEFINE x == <<s.waiting>>
  <2>1. x \in Seq(Locks) /\ Len(x) = 1 /\ <<>> \in Seq(Locks)
    BY <1>2
  <2> HIDE DEF x
  <2>2. 0 \in 0..Len(x) /\ 1 \in 0..Len(x) /\ SubSeq(x, 1, 0) = <<>>
    BY <2>1, SubSeqEmpty
  <2>3. IsPrefix(SubSeq(x, 1, 0), x)
    BY <2>1, <2>2, BeginningOf
  <2>4. IsPrefix(SubSeq(x, 1, 1), x) /\ SubSeq(x, 1, 1) = x
    BY <2>1, <2>2, BeginningOf
  <2>5. w = x \/ w = <<>>
    BY DEF x
  <2>6. IsPrefix(x, x) /\ IsPrefix(<<>>, x)
    BY <2>2, <2>3, <2>4
  <2> HIDE DEF w
  <2>7. IsPrefix(w, x)
    BY <2>5, <2>6
  <2> QED
    BY <2>7 DEF x
<1>7. ASSUME o >= Width(s)
      PROVE  Told(o) = Facts /\ AskedBy(s, o) = Len(s.query) /\ HeldBy(s, o) = Len(s.holds)
             /\ w = <<s.waiting>>
  <2>1. o >= 5 /\ o >= 5 + Asks(s) /\ o >= Width(s) - 3 /\ o >= Width(s) - 1
    <3>1. Asks(s) \in Nat /\ Width(s) \in Nat /\ Width(s) >= 8 + Asks(s)
      BY <1>2 DEF SideNumbers
    <3> QED
      BY <1>7, <3>1
  <2> QED
    BY <2>1, ToldGrows, AskedGrows, HeldGrows DEF Asks, HasLocks
<1> HIDE DEF p, q, h, w
<1>8. /\ p.index = k /\ IsPrefix(p.query, s.query) /\ IsPrefix(p.holds, s.holds)
      /\ IsPrefix(p.waiting, <<s.waiting>>)
  BY <1>1, <1>4, <1>5, <1>6
<1>9. ASSUME o >= Width(s)
      PROVE  p.facts = Facts /\ p.query = s.query /\ p.holds = s.holds /\ p.waiting = <<s.waiting>>
  BY <1>1, <1>4, <1>5, <1>7, <1>9
<1> QED
  BY <1>8, <1>9 DEF p

\* How far a state is with the side it is at.
LEMMA SideAt ==
  ASSUME DeadlockInv
  PROVE  /\ current \in {0, 1, 2} /\ parties = Sides(current, ln - Begins(current))
         /\ current # 0 => ln - Begins(current) \in Nat
         /\ section = "over" => /\ ln = Ends + 2 /\ current = 2 /\ victim = truth.victim
                               /\ ln - Begins(2) >= Width(truth.side[2])
<1> DEFINE b == Begins(2)  w == Width(truth.side[2])
<1>1. /\ ln \in Nat /\ Ends \in Nat /\ b \in Nat /\ w \in Nat /\ b >= 15 /\ w >= 8 /\ Ends = b + w
      /\ ln <= Ends + 2 /\ Ends >= 7 /\ Begins(1) = 7
  BY Places
<1>2. /\ current = (IF ln <= 7 THEN 0 ELSE IF ln <= b THEN 1 ELSE 2)
      /\ parties = Sides(current, ln - Begins(current))
      /\ victim = (IF ln <= Ends THEN 0 ELSE truth.victim) /\ section = SectionAt(ln)
  BY DEF DeadlockInv, SidesInv
<1> HIDE DEF w
<1>3. section = "over" => ln = Ends + 2
  <2>1. ln <= 4 \/ ln = 5 \/ ln = 6 \/ (ln >= 7 /\ ln <= Ends + 1) \/ ln = Ends + 2
    BY <1>1
  <2>2. CASE ln <= 4
    BY <1>1, <1>2, <2>2, Sections
  <2>3. CASE ln = 5 \/ ln = 6
    BY <1>1, <1>2, <2>3, Sections
  <2>4. CASE ln >= 7 /\ ln <= Ends + 1
    BY <1>1, <1>2, <2>4, Sections
  <2> QED
    BY <2>1, <2>2, <2>3, <2>4
<1>4. ln > 7 => IF ln <= b THEN current = 1 /\ ln - Begins(1) \in Nat ELSE current = 2 /\ ln - b \in Nat
  BY <1>1, <1>2
<1>5. ln <= 7 => current = 0
  BY <1>2
<1>6. current \in {0, 1, 2} /\ (current # 0 => ln - Begins(current) \in Nat)
  BY <1>1, <1>4, <1>5
<1>7. ln = Ends + 2 => current = 2 /\ victim = truth.victim /\ ln - b >= w
  <2> HIDE DEF b
  <2> QED
    BY <1>1, <1>2
<1> QED
  BY <1>2, <1>3, <1>6, <1>7 DEF w

\* ReportIsRead for any statements and locks, and any number of locks held: the
\* lines between ***s reach the side they are of, in their order, wherever the
\* reading stands, and a section that was read to its rule was read whole.
THEOREM DeadlockIsRead == DeadlockSpec => []ReportIsRead
<1>1. ASSUME DeadlockInv PROVE ReportIsRead
  <2>1. ASSUME NEW k \in DOMAIN parties
        PROVE  parties[k].index = k /\ SideIsRead(parties[k], truth.side[k])
    <3> DEFINE o == IF k < current THEN Width(truth.side[k]) ELSE ln - Begins(current)
    <3>1. current \in {0, 1, 2} /\ k \in 1..current /\ parties[k] = PartyAfter(k, truth.side[k], o)
      BY <1>1, <2>1, SideAt DEF Sides
    <3>2. k \in {1, 2} /\ truth.side[k] \in Side /\ Width(truth.side[k]) \in Nat
      BY <1>1, <3>1, Places
    <3>3. o \in Nat
      BY <1>1, <3>1, <3>2, SideAt
    <3>4. section = "over" => o >= Width(truth.side[k])
      <4>1. CASE k < current
        BY <3>2, <4>1
      <4>2. CASE ~(k < current)
        BY <1>1, <3>1, <4>2, SideAt
      <4> QED
        BY <4>1, <4>2
    <3> HIDE DEF o
    <3> QED
      BY <3>1, <3>2, <3>3, <3>4, PartyIsRead DEF SideIsRead
  <2>2. victim \in {0, truth.victim}
    BY <1>1 DEF DeadlockInv
  <2>3. ASSUME section = "over" PROVE detected /\ Len(parties) = 2 /\ victim = truth.victim
    <3>1. ln = Ends + 2
      BY <1>1, <2>3, SideAt
    <3>2. current = 2 /\ parties = Sides(2, ln - Begins(2)) /\ victim = truth.victim
      BY <1>1, <2>3, SideAt
    <3>3. Len(parties) = 2
      BY <3>2 DEF Sides
    <3>4. detected
      <4>1. detected = (ln >= 7) /\ ln >= 7
        BY <1>1, <3>1, Places DEF DeadlockInv
      <4> QED
        BY <4>1
    <3> QED
      BY <3>2, <3>3, <3>4
  <2> QED
    BY <2>1, <2>2, <2>3 DEF ReportIsRead
<1> QED
  BY <1>1, DeadlockBegins, DeadlockKeeps, PTL DEF DeadlockSpec
==============================================================================
