------------------------- MODULE TableBrowserProofs -------------------------
(***************************************************************************)
(* The table browser keeps its promises for any tables, any keys and any   *)
(* number of requests under way: batches are atomic (it implements         *)
(* RowEdits), the page is of the table named above it, and a user who      *)
(* waits for answers edits the rows he sees and loses no edit.             *)
(***************************************************************************)
EXTENDS TableBrowser, TLAPS

-----------------------------------------------------------------------------
(* The type invariant in three parts, and how requests are numbered.       *)

ScreenOK ==
  /\ schema \in Schemas \cup {NoTable} /\ name \in Names \cup {NoTable}
  /\ page \in Table \cup {NoTable} /\ columns \in Table \cup {NoTable}
  /\ editing \in Key \cup {NoKey} /\ inserting \in BOOLEAN /\ writes \in BOOLEAN
  /\ picked \in BOOLEAN /\ hasty \in BOOLEAN /\ unsure \in BOOLEAN
  /\ lost \in SUBSET Nat

\* The changes queued are numbered by edits.
ListOK ==
  /\ pending \in SUBSET Change /\ edits \in Nat
  /\ \A c \in pending : c.id <= edits

\* A table is open whenever a request is under way.  A number is that of one
\* request, and of one batch.
AskedOK ==
  /\ asks \in Nat /\ asked \in SUBSET Request
  /\ db \in SUBSET [batch : Nat, change : Change]
  /\ \A r \in asked : r.done \subseteq r.list /\ (r.pc = "landed" => r.done = r.list)
  /\ \A r \in asked : r.pc # "sent" => r.op = "apply"
  /\ name \in Names => schema \in Schemas
  /\ asked # {} => name \in Names
  /\ \A r \in asked : r.id <= asks
  /\ \A r, q \in asked : r.id = q.id => r = q
  /\ \A d \in db : d.batch <= asks

TypeInv == ScreenOK /\ ListOK /\ AskedOK

LEMMA TypeInvGivesTypes == TypeInv => BrowserTypeOK
  BY DEF TypeInv, ScreenOK, ListOK, AskedOK, BrowserTypeOK

\* The steps of an apply that only it can see, and the answers without effect.
Steps(r) == Begin(r) \/ \E c \in r.list : Exec(r, c)
Answers(r) == Failed(r) \/ OnTableSchema(r) \/ OnBrowseResult(r)

LEMMA NextSplit ==
  ASSUME [Next]_vars
  PROVE  \/ Click \/ UNCHANGED vars
         \/ \E r \in asked : Steps(r) \/ Answers(r) \/ Commit(r) \/ CommitUnseen(r)
                             \/ OnChangesApplied(r)
  BY DEF Next, Steps, Answers

LEMMA NoTableApart == NoTable \notin Table /\ NoTable \notin Names /\ NoTable \notin Schemas
  BY NothingAssumption

LEMMA OpenIsTable == ASSUME TypeInv, Shown PROVE Open \in Table /\ name \in Names
  BY NoTableApart DEF TypeInv, ScreenOK, AskedOK, Shown, Open, Table

LEMMA AskType ==
  ASSUME NEW id \in Nat, NEW op \in {"describe", "browse", "apply"}, NEW t \in Table
  PROVE  /\ Ask(id, op, t) \in Request /\ Ask(id, op, t).id = id
         /\ Ask(id, op, t).op = op /\ Ask(id, op, t).table = t
         /\ Ask(id, op, t).pc = "sent"
         /\ Ask(id, op, t).done = {} /\ Ask(id, op, t).list = {}
  BY DEF Ask, Request

LEMMA TypesInit == Init => TypeInv
<1> SUFFICES ASSUME Init PROVE TypeInv
  OBVIOUS
<1>1. ScreenOK
  BY DEF Init, ScreenOK
<1>2. ListOK
  BY DEF Init, ListOK
<1>3. asks = 0 /\ asked = {} /\ db = {} /\ name = NoTable
  BY DEF Init
<1>4. AskedOK
  BY <1>3, NoTableApart DEF AskedOK
<1> QED
  BY <1>1, <1>2, <1>4 DEF TypeInv

-----------------------------------------------------------------------------
(* Requests come, change and go.                                           *)

\* New requests, with numbers of their own, on the table that is open now.
LEMMA Asking ==
  ASSUME AskedOK, NEW n \in Nat, asks' = asks + n, name' \in Names, schema' \in Schemas,
         NEW new \in SUBSET Request, asked' = asked \cup new, db' = db,
         \A r \in new : r.id \in asks+1..asks+n /\ r.done = {} /\ r.pc = "sent",
         \A r, q \in new : r.id = q.id => r = q
  PROVE  AskedOK'
<1>1. asks \in Nat /\ asked \in SUBSET Request /\ db \in SUBSET [batch : Nat, change : Change]
  BY DEF AskedOK
<1>2. \A r \in asked : r.id \in Nat /\ r.id <= asks
  BY <1>1 DEF AskedOK, Request
<1>3. \A d \in db : d.batch \in Nat /\ d.batch <= asks
  BY <1>1 DEF AskedOK
<1>4. \A r \in new : r.id \in Nat /\ r.id > asks /\ r.id <= asks + n
  BY <1>1
<1>5. \A r \in asked' : /\ r.done \subseteq r.list /\ (r.pc = "landed" => r.done = r.list)
                        /\ r.pc # "sent" => r.op = "apply"
  BY DEF AskedOK
<1>6. \A r \in asked' : r.id <= asks'
  BY <1>1, <1>2, <1>4
<1>7. \A r, q \in asked' : r.id = q.id => r = q
  <2> SUFFICES ASSUME NEW r \in asked', NEW q \in asked', r.id = q.id PROVE r = q
    OBVIOUS
  <2>1. CASE r \in asked /\ q \in asked
    BY <2>1 DEF AskedOK
  <2>2. CASE r \in new /\ q \in new
    BY <2>2
  <2>3. ~(r \in asked /\ q \in new) /\ ~(r \in new /\ q \in asked)
    BY <1>1, <1>2, <1>4
  <2> QED
    BY <2>1, <2>2, <2>3
<1>8. \A d \in db' : d.batch <= asks'
  BY <1>1, <1>3
<1>9. asks' \in Nat /\ asked' \in SUBSET Request /\ db' \in SUBSET [batch : Nat, change : Change]
  BY <1>1
<1> QED
  BY <1>5, <1>6, <1>7, <1>8, <1>9 DEF AskedOK

\* A request that ends, whether its batch took effect or not.
LEMMA Ending ==
  ASSUME AskedOK, NEW r \in asked, asked' = asked \ {r}, asks' = asks,
         name' = name, schema' = schema,
         db' \in {db, db \cup Effects(r, r.list)}
  PROVE  AskedOK'
<1>1. r \in Request /\ r.id <= asks
  BY DEF AskedOK
<1>2. \A d \in Effects(r, r.list) :
        d \in [batch : Nat, change : Change] /\ d.batch <= asks
  BY <1>1 DEF Effects, Request
<1>3. db' \in SUBSET [batch : Nat, change : Change] /\ \A d \in db' : d.batch <= asks'
  BY <1>2 DEF AskedOK
<1> QED
  BY <1>3 DEF AskedOK

\* A request that goes on under its number.
LEMMA GoingOn ==
  ASSUME AskedOK, NEW r \in asked, NEW q \in Request, q.id = r.id,
         q.done \subseteq q.list, q.pc = "landed" => q.done = q.list,
         q.pc # "sent" => q.op = "apply",
         asked' = (asked \ {r}) \cup {q}, asks' = asks,
         name' = name, schema' = schema,
         db' \in {db, db \cup Effects(r, r.list)}
  PROVE  AskedOK'
<1>1. r \in Request /\ r.id <= asks
  BY DEF AskedOK
<1>2. \A d \in Effects(r, r.list) :
        d \in [batch : Nat, change : Change] /\ d.batch <= asks
  BY <1>1 DEF Effects, Request
<1>3. db' \in SUBSET [batch : Nat, change : Change] /\ \A d \in db' : d.batch <= asks'
  BY <1>2 DEF AskedOK
<1>4. \A p, s \in asked' : p.id = s.id => p = s
  BY DEF AskedOK
<1>5. \A p \in asked' : /\ p.id <= asks'
                        /\ p.done \subseteq p.list /\ (p.pc = "landed" => p.done = p.list)
                        /\ p.pc # "sent" => p.op = "apply"
  BY <1>1 DEF AskedOK
<1>6. asks' \in Nat /\ asked' \in SUBSET Request
      /\ (name' \in Names => schema' \in Schemas) /\ (asked' # {} => name' \in Names)
  BY DEF AskedOK
<1> QED
  BY <1>3, <1>4, <1>5, <1>6 DEF AskedOK

\* What the three parts do not look at.
LEMMA SameRequests ==
  ASSUME AskedOK, UNCHANGED <<asks, asked, db, name>>, schema' \in Schemas \cup {schema}
  PROVE  AskedOK'
  BY DEF AskedOK

-----------------------------------------------------------------------------
(* Each step keeps the types.                                              *)

LEMMA Picking == ASSUME TypeInv, NEW s \in Schemas, PickSchema(s) PROVE TypeInv'
<1>1. ScreenOK'
  BY DEF TypeInv, ScreenOK, PickSchema, panels, Acts
<1>2. ListOK'
  BY DEF TypeInv, ListOK, PickSchema
<1>3. AskedOK'
  BY SameRequests DEF TypeInv, PickSchema
<1> QED
  BY <1>1, <1>2, <1>3 DEF TypeInv

\* What open_table asks for: a description, and n pages.
Opening(t, n) == {Ask(asks + 1, "describe", t)} \cup {Ask(asks + 1 + k, "browse", t) : k \in 1..n}

LEMMA OpeningType ==
  ASSUME NEW t \in Table, NEW n \in 1..2, asks \in Nat
  PROVE  /\ Opening(t, n) \in SUBSET Request
         /\ \A r \in Opening(t, n) :
              r.id \in asks+1..asks+(n + 1) /\ r.done = {} /\ r.pc = "sent"
         /\ \A r, q \in Opening(t, n) : r.id = q.id => r = q
         /\ \A r \in Opening(t, n) : r.table = t /\ r.op \in {"describe", "browse"}
<1> DEFINE first == Ask(asks + 1, "describe", t)
           rest(k) == Ask(asks + 1 + k, "browse", t)
<1>1. first \in Request /\ first.id = asks + 1 /\ first.done = {} /\ first.pc = "sent"
      /\ first.table = t /\ first.op = "describe"
  <2>1. asks + 1 \in Nat
    OBVIOUS
  <2> QED
    BY <2>1, AskType
<1>2. ASSUME NEW k \in 1..n
      PROVE  rest(k) \in Request /\ rest(k).id = asks + 1 + k
             /\ rest(k).done = {} /\ rest(k).pc = "sent"
             /\ rest(k).table = t /\ rest(k).op = "browse"
  <2>1. asks + 1 + k \in Nat
    OBVIOUS
  <2> QED
    BY <2>1, AskType
<1>3. Opening(t, n) = {first} \cup {rest(k) : k \in 1..n}
  BY DEF Opening
<1> HIDE DEF first, rest
<1>4. ASSUME NEW r \in Opening(t, n)
      PROVE  r = first \/ \E k \in 1..n : r = rest(k)
  BY <1>3
<1>5. \A r \in Opening(t, n) :
        /\ r \in Request /\ r.id \in asks+1..asks+(n + 1) /\ r.done = {} /\ r.pc = "sent"
        /\ r.table = t /\ r.op \in {"describe", "browse"}
  <2> SUFFICES ASSUME NEW r \in Opening(t, n)
               PROVE  /\ r \in Request /\ r.id \in asks+1..asks+(n + 1)
                      /\ r.done = {} /\ r.pc = "sent"
                      /\ r.table = t /\ r.op \in {"describe", "browse"}
    OBVIOUS
  <2>1. CASE r = first
    BY <1>1, <2>1
  <2>2. ASSUME NEW k \in 1..n, r = rest(k)
        PROVE  /\ r \in Request /\ r.id \in asks+1..asks+(n + 1)
               /\ r.done = {} /\ r.pc = "sent"
               /\ r.table = t /\ r.op \in {"describe", "browse"}
    BY <1>2, <2>2
  <2> QED
    BY <1>4, <2>1, <2>2
<1>6. \A r, q \in Opening(t, n) : r.id = q.id => r = q
  BY <1>1, <1>2, <1>4
<1> QED
  BY <1>5, <1>6

LEMMA OpeningTable ==
  ASSUME TypeInv, NEW t \in Table, NEW n \in 1..2, OpenTable(t, n) PROVE TypeInv'
<1>1. t[1] \in Schemas /\ t[2] \in Names /\ asks \in Nat
  BY DEF TypeInv, AskedOK, Table
<1>2. ScreenOK'
  BY <1>1 DEF TypeInv, ScreenOK, OpenTable, Acts
<1>3. ListOK'
  BY DEF TypeInv, ListOK, OpenTable
<1>4. AskedOK'
  <2>1. /\ asked' = asked \cup Opening(t, n) /\ asks' = asks + (n + 1)
        /\ schema' = t[1] /\ name' = t[2] /\ db' = db
    BY <1>1 DEF OpenTable, Opening
  <2>2. n + 1 \in Nat
    OBVIOUS
  <2> QED
    BY <1>1, <2>1, <2>2, OpeningType, Asking DEF TypeInv
<1> QED
  BY <1>2, <1>3, <1>4 DEF TypeInv

LEMMA Refreshing == ASSUME TypeInv, Refresh PROVE TypeInv'
<1>1. asks \in Nat /\ Open \in Table /\ name \in Names /\ schema \in Schemas
  BY OpenIsTable DEF TypeInv, AskedOK, Refresh
<1>2. ScreenOK'
  BY DEF TypeInv, ScreenOK, Refresh, screen, panels, Acts
<1>3. ListOK'
  BY DEF TypeInv, ListOK, Refresh
<1>4. AskedOK'
  <2> DEFINE new == Ask(asks + 1, "browse", Open)
  <2>1. new \in Request /\ new.id = asks + 1 /\ new.done = {} /\ new.pc = "sent"
    <3>1. asks + 1 \in Nat
      BY <1>1
    <3> QED
      BY <1>1, <3>1, AskType
  <2>2. asked' = asked \cup {new} /\ asks' = asks + 1 /\ db' = db
        /\ name' = name /\ schema' = schema
    BY DEF Refresh, screen
  <2> HIDE DEF new
  <2>3. {new} \in SUBSET Request
        /\ (\A r \in {new} : r.id \in asks+1..asks+1 /\ r.done = {} /\ r.pc = "sent")
        /\ (\A r, q \in {new} : r.id = q.id => r = q)
    BY <1>1, <2>1
  <2> QED
    BY <1>1, <2>2, <2>3, Asking DEF TypeInv
<1> QED
  BY <1>2, <1>3, <1>4 DEF TypeInv

LEMMA Applying == ASSUME TypeInv, Apply PROVE TypeInv'
<1>1. asks \in Nat /\ Open \in Table /\ name \in Names /\ schema \in Schemas
  BY OpenIsTable DEF TypeInv, AskedOK, Apply
<1>2. ScreenOK'
  BY DEF TypeInv, ScreenOK, Apply, screen, panels, Acts
<1>3. ListOK'
  BY DEF TypeInv, ListOK, Apply
<1>4. AskedOK'
  <2> DEFINE new == [Ask(asks + 1, "apply", Open) EXCEPT !.list = pending]
  <2>1. new \in Request /\ new.id = asks + 1 /\ new.done = {} /\ new.pc = "sent"
    BY <1>1 DEF Ask, Request, TypeInv, ListOK
  <2>2. asked' = asked \cup {new} /\ asks' = asks + 1 /\ db' = db
        /\ name' = name /\ schema' = schema
    BY DEF Apply, screen
  <2> HIDE DEF new
  <2>3. {new} \in SUBSET Request
        /\ (\A r \in {new} : r.id \in asks+1..asks+1 /\ r.done = {} /\ r.pc = "sent")
        /\ (\A r, q \in {new} : r.id = q.id => r = q)
    BY <1>1, <2>1
  <2> QED
    BY <1>1, <2>2, <2>3, Asking DEF TypeInv
<1> QED
  BY <1>2, <1>3, <1>4 DEF TypeInv

LEMMA Queueing ==
  ASSUME TypeInv, QueueChange \/ QueueInsert
  PROVE  TypeInv'
<1>1. Open \in Table
  BY OpenIsTable DEF QueueChange, QueueInsert, Queue
<1>2. PICK key \in Key \cup {NoKey} : Queue(key)
  BY DEF QueueChange, QueueInsert, TypeInv, ScreenOK
<1>3. ScreenOK'
  BY <1>2 DEF TypeInv, ScreenOK, Queue, QueueChange, QueueInsert, screen, Acts
<1>4. ListOK'
  <2>1. edits \in Nat /\ pending \in SUBSET Change
        /\ \A c \in pending : c.id \in Nat /\ c.id <= edits
    BY DEF TypeInv, ListOK, Change
  <2>2. [id |-> edits + 1, table |-> Open, key |-> key] \in Change
    BY <1>1, <1>2, <2>1 DEF Change
  <2> QED
    BY <1>2, <2>1, <2>2 DEF Queue, ListOK
<1>5. AskedOK'
  BY <1>2, SameRequests DEF TypeInv, Queue, screen
<1> QED
  BY <1>3, <1>4, <1>5 DEF TypeInv

\* The clicks that send nothing and queue nothing.
Idly == StartEdit \/ CancelEdit \/ StartInsert \/ CancelInsert \/ SetWrites
        \/ (\E c \in pending : Discard({c})) \/ Discard(pending)

LEMMA Idling == ASSUME TypeInv, Idly PROVE TypeInv'
<1>1. UNCHANGED <<schema, name, page, columns, edits, asked, asks, db, picked, unsure, lost>>
      /\ pending' \subseteq pending /\ Acts
  BY DEF Idly, StartEdit, CancelEdit, StartInsert, CancelInsert, SetWrites, Discard, screen
<1>2. inserting' \in BOOLEAN /\ writes' \in BOOLEAN
  <2>1. CASE StartEdit \/ CancelEdit
    BY <2>1 DEF StartEdit, CancelEdit, TypeInv, ScreenOK
  <2>2. CASE StartInsert \/ CancelInsert \/ SetWrites
    BY <2>2 DEF StartInsert, CancelInsert, SetWrites, TypeInv, ScreenOK
  <2>3. CASE (\E c \in pending : Discard({c})) \/ Discard(pending)
    BY <2>3 DEF Discard, panels, TypeInv, ScreenOK
  <2> QED
    BY <2>1, <2>2, <2>3 DEF Idly
<1>3. editing' \in Key \cup {NoKey}
  <2>1. CASE StartEdit
    <3>1. page \in Table /\ columns \in Table
      BY <2>1 DEF StartEdit, Editable, TypeInv, ScreenOK
    <3>2. Pk[columns] \in SUBSET Columns
      BY <3>1, TableAssumption
    <3> QED
      BY <2>1, <3>1, <3>2 DEF StartEdit, Key
  <2>2. CASE CancelEdit \/ StartInsert \/ CancelInsert \/ SetWrites
    BY <2>2 DEF CancelEdit, StartInsert, CancelInsert, SetWrites, TypeInv, ScreenOK
  <2>3. CASE (\E c \in pending : Discard({c})) \/ Discard(pending)
    BY <2>3 DEF Discard, panels, TypeInv, ScreenOK
  <2> QED
    BY <2>1, <2>2, <2>3 DEF Idly
<1>4. ScreenOK'
  BY <1>1, <1>2, <1>3 DEF TypeInv, ScreenOK, Acts
<1>5. ListOK'
  BY <1>1 DEF TypeInv, ListOK
<1>6. AskedOK'
  BY <1>1, SameRequests DEF TypeInv
<1> QED
  BY <1>4, <1>5, <1>6 DEF TypeInv

LEMMA ClickSplit ==
  ASSUME Click
  PROVE  \/ \E s \in Schemas : PickSchema(s)
         \/ \E t \in Table, n \in 1..2 : OpenTable(t, n)
         \/ Refresh \/ Apply \/ Idly \/ QueueChange \/ QueueInsert
  BY DEF Click, Idly

LEMMA ClickTypes == ASSUME TypeInv, Click PROVE TypeInv'
  BY ClickSplit, Picking, OpeningTable, Refreshing, Applying, Idling, Queueing

StepTo(r, q) ==
  /\ r.op = "apply" /\ r.pc # "landed"
  /\ Becomes(r, q) /\ UNCHANGED <<db, unsure>>
  /\ q.id = r.id /\ q.op = "apply" /\ q.table = r.table /\ q.list = r.list
  /\ q.done \subseteq q.list /\ q.pc = "begun"

LEMMA StepForm ==
  ASSUME TypeInv, NEW r \in asked, Steps(r) PROVE \E q \in Request : StepTo(r, q)
<1>1. r \in Request /\ r.done \subseteq r.list /\ (r.pc # "sent" => r.op = "apply")
  BY DEF TypeInv, AskedOK
<1>2. CASE Begin(r)
  <2> DEFINE q == [r EXCEPT !.pc = "begun"]
  <2>1. q \in Request /\ q.id = r.id /\ q.op = r.op /\ q.table = r.table
        /\ q.list = r.list /\ q.done = r.done /\ q.pc = "begun"
    BY <1>1 DEF Request
  <2>2. Becomes(r, q) /\ UNCHANGED <<db, unsure>> /\ r.op = "apply" /\ r.pc = "sent"
    BY <1>2 DEF Begin
  <2> HIDE DEF q
  <2> QED
    BY <1>1, <2>1, <2>2 DEF StepTo
<1>3. ASSUME NEW c \in r.list, Exec(r, c) PROVE \E q \in Request : StepTo(r, q)
  <2> DEFINE q == [r EXCEPT !.done = @ \cup {c}]
  <2>1. q \in Request /\ q.id = r.id /\ q.op = r.op /\ q.table = r.table
        /\ q.list = r.list /\ q.done = r.done \cup {c} /\ q.pc = r.pc
    BY <1>1 DEF Request
  <2>2. Becomes(r, q) /\ UNCHANGED <<db, unsure>> /\ r.pc = "begun"
    BY <1>3 DEF Exec
  <2> HIDE DEF q
  <2> QED
    BY <1>1, <2>1, <2>2 DEF StepTo
<1> QED
  BY <1>2, <1>3 DEF Steps

LEMMA StepTypes == ASSUME TypeInv, NEW r \in asked, Steps(r) PROVE TypeInv'
<1>1. PICK q \in Request : StepTo(r, q)
  BY StepForm
<1>2. ScreenOK' /\ ListOK'
  BY <1>1 DEF TypeInv, ScreenOK, ListOK, StepTo, Becomes, screen, panels
<1>3. AskedOK'
  BY <1>1, GoingOn DEF TypeInv, StepTo, Becomes, screen
<1> QED
  BY <1>2, <1>3 DEF TypeInv

LEMMA CommitTypes == ASSUME TypeInv, NEW r \in asked, Commit(r) PROVE TypeInv'
<1> DEFINE q == [r EXCEPT !.pc = "landed"]
<1>1. r \in Request
  BY DEF TypeInv, AskedOK
<1>2. q \in Request /\ q.id = r.id /\ q.done = r.done /\ q.list = r.list /\ q.op = "apply"
  BY <1>1 DEF Request, Commit, TypeInv, AskedOK
<1>3. Becomes(r, q) /\ r.done = r.list /\ db' = db \cup Effects(r, r.list) /\ unsure' = unsure
  BY DEF Commit
<1> HIDE DEF q
<1>4. ScreenOK' /\ ListOK'
  BY <1>3 DEF TypeInv, ScreenOK, ListOK, Becomes, screen, panels
<1>5. AskedOK'
  BY <1>2, <1>3, GoingOn DEF TypeInv, Becomes, screen
<1> QED
  BY <1>4, <1>5 DEF TypeInv

LEMMA CommitUnseenTypes == ASSUME TypeInv, NEW r \in asked, CommitUnseen(r) PROVE TypeInv'
<1>1. ScreenOK' /\ ListOK'
  BY DEF TypeInv, ScreenOK, ListOK, CommitUnseen, screen, panels
<1>2. AskedOK'
  BY Ending DEF TypeInv, CommitUnseen, screen
<1> QED
  BY <1>1, <1>2 DEF TypeInv

LEMMA AnswerTypes == ASSUME TypeInv, NEW r \in asked, Answers(r) PROVE TypeInv'
<1>1. r \in Request /\ r.table \in Table
  BY DEF TypeInv, AskedOK, Request
<1>2. /\ Answered(r) /\ UNCHANGED <<editing, pending, asks, unsure, lost>>
      /\ page' \in {page, r.table} /\ columns' \in {columns, r.table}
  BY DEF Answers, Failed, OnTableSchema, OnBrowseResult
<1>3. ScreenOK' /\ ListOK'
  BY <1>1, <1>2 DEF TypeInv, ScreenOK, ListOK, Answered
<1>4. AskedOK'
  BY <1>2, Ending DEF TypeInv, Answered
<1> QED
  BY <1>3, <1>4 DEF TypeInv

LEMMA AppliedTypes == ASSUME TypeInv, NEW r \in asked, OnChangesApplied(r) PROVE TypeInv'
<1>1. asks \in Nat /\ name \in Names /\ schema \in Schemas /\ Open \in Table
  BY DEF TypeInv, AskedOK, Open, Table
<1>2. Unsaved \in SUBSET Nat
  BY DEF TypeInv, ListOK, Unsaved, Change
<1>3. ScreenOK'
  BY <1>2 DEF TypeInv, ScreenOK, OnChangesApplied, screen
<1>4. ListOK'
  BY DEF TypeInv, ListOK, OnChangesApplied
<1>5. AskedOK'
  <2> DEFINE q == Ask(asks + 1, "browse", Open)
  <2>1. q \in Request /\ q.id = asks + 1 /\ q.done = {} /\ q.list = {} /\ q.pc = "sent"
    <3>1. asks + 1 \in Nat
      BY <1>1
    <3> QED
      BY <1>1, <3>1, AskType
  <2>2. asked' = (asked \ {r}) \cup {q} /\ asks' = asks + 1 /\ db' = db
        /\ name' = name /\ schema' = schema
    BY DEF OnChangesApplied, screen
  <2> HIDE DEF q
  <2>3. \A p \in asked : p.id \in Nat /\ p.id <= asks
    BY DEF TypeInv, AskedOK, Request
  <2>4. \A p, s \in asked' : p.id = s.id => p = s
    BY <1>1, <2>1, <2>2, <2>3 DEF TypeInv, AskedOK
  <2>5. \A p \in asked' : /\ p.id <= asks'
                          /\ p.done \subseteq p.list /\ (p.pc = "landed" => p.done = p.list)
                          /\ p.pc # "sent" => p.op = "apply"
    BY <1>1, <2>1, <2>2, <2>3 DEF TypeInv, AskedOK
  <2>6. \A d \in db' : d.batch <= asks'
    <3>1. \A d \in db : d.batch \in Nat /\ d.batch <= asks
      BY DEF TypeInv, AskedOK
    <3> QED
      BY <1>1, <2>2, <3>1
  <2> QED
    BY <1>1, <2>1, <2>2, <2>4, <2>5, <2>6 DEF TypeInv, AskedOK
<1> QED
  BY <1>3, <1>4, <1>5 DEF TypeInv

LEMMA IdleTypes == ASSUME TypeInv, UNCHANGED vars PROVE TypeInv'
<1>1. ScreenOK'
  BY DEF TypeInv, ScreenOK, vars, screen, panels, history
<1>2. ListOK' /\ AskedOK'
  BY DEF TypeInv, ListOK, AskedOK, vars, screen
<1> QED
  BY <1>1, <1>2 DEF TypeInv

LEMMA TypesNext == TypeInv /\ [Next]_vars => TypeInv'
  BY NextSplit, ClickTypes, StepTypes, CommitTypes, CommitUnseenTypes, AnswerTypes,
     AppliedTypes, IdleTypes

LEMMA Typed == Spec => []TypeInv
  BY TypesInit, TypesNext, PTL DEF Spec

\* Whatever the requests under way, the screen and the server keep their types;
\* a transaction executes nothing but its batch (apply of src/db/sql.rs).
THEOREM BrowserTypeCorrect == Spec => []BrowserTypeOK
  BY Typed, TypeInvGivesTypes, PTL

-----------------------------------------------------------------------------
(* The page.                                                               *)

LEMMA PageNext == ASSUME TypeInv, PageOfTable, [Next]_vars PROVE PageOfTable'
<1>1. CASE UNCHANGED vars
  BY <1>1 DEF vars, screen, history, PageOfTable, Open
<1>2. CASE Click
  <2>1. CASE \E s \in Schemas : PickSchema(s)
    BY <2>1 DEF PickSchema, PageOfTable
  <2>2. CASE \E t \in Table, n \in 1..2 : OpenTable(t, n)
    BY <2>2 DEF OpenTable, PageOfTable
  <2>3. CASE Refresh \/ Apply \/ Idly \/ QueueChange \/ QueueInsert
    <3>1. UNCHANGED <<schema, name, page, picked>>
      BY <2>3 DEF Refresh, Apply, Idly, QueueChange, QueueInsert, Queue, StartEdit,
                  CancelEdit, StartInsert, CancelInsert, SetWrites, Discard, screen
    <3> QED
      BY <3>1 DEF PageOfTable, Open
  <2> QED
    BY <1>2, <2>1, <2>2, <2>3, ClickSplit
<1>3. ASSUME NEW r \in asked, Steps(r) \/ Commit(r) \/ CommitUnseen(r) \/ OnChangesApplied(r)
      PROVE  PageOfTable'
  <2>1. UNCHANGED <<schema, name, page, picked>>
    BY <1>3 DEF Steps, Begin, Exec, Becomes, Commit, CommitUnseen, OnChangesApplied, screen
  <2> QED
    BY <2>1 DEF PageOfTable, Open
<1>4. ASSUME NEW r \in asked, Answers(r) PROVE PageOfTable'
  <2>1. UNCHANGED <<schema, name, picked>> /\ page' \in {page, Open}
    BY <1>4 DEF Answers, Answered, Failed, OnTableSchema, OnBrowseResult
  <2> QED
    BY <2>1 DEF PageOfTable, Open
<1> QED
  BY <1>1, <1>2, <1>3, <1>4, NextSplit

\* However late the answers (pump, src/app.rs:1117), the rows shown are those of
\* the table named above them, as long as no other schema has been picked.
THEOREM PageIsOfTable == Spec => []PageOfTable
<1>1. Init => PageOfTable
  BY DEF Init, PageOfTable
<1>2. TypeInv /\ PageOfTable /\ [Next]_vars => PageOfTable'
  BY PageNext
<1> QED
  BY <1>1, <1>2, Typed, PTL DEF Spec

-----------------------------------------------------------------------------
(* Batches: the browser implements RowEdits.                               *)

LEMMA Stutter == ASSUME Sent' = Sent, db' = db PROVE [Batches!EditsNext]_<<Sent, db>>
  OBVIOUS

\* A request that ends takes its batch, and no other, off the list.
LEMMA Leaving ==
  ASSUME TypeInv, NEW r \in Live, Live' = Live \ {r}
  PROVE  Sent' = Sent \ {BatchOf(r)} /\ BatchOf(r) \in Sent
<1>1. \A q \in Live : q.id = r.id => q = r
  BY DEF TypeInv, AskedOK, Live
<1> QED
  BY <1>1 DEF Sent, BatchOf

LEMMA ApplySends == ASSUME TypeInv, Apply PROVE Batches!EditsNext
<1> DEFINE new == [Ask(asks + 1, "apply", Open) EXCEPT !.list = pending]
<1>1. asks \in Nat /\ pending \in SUBSET Change
  BY DEF TypeInv, AskedOK, ListOK
<1>2. new.id = asks + 1 /\ new.list = pending /\ new.op = "apply" /\ new.pc = "sent"
  BY DEF Ask
<1>3. asked' = asked \cup {new} /\ db' = db
  BY DEF Apply
<1> HIDE DEF new
<1>4. Live' = Live \cup {new}
  BY <1>2, <1>3 DEF Live
<1>5. Sent' = Sent \cup {BatchOf(new)}
  BY <1>4 DEF Sent
<1>6. BatchOf(new) \in Batches!Batch /\ BatchOf(new).id = asks + 1
  BY <1>1, <1>2 DEF BatchOf, Batches!Batch
<1>7. \A s \in Sent : s.id # asks + 1
  <2>1. \A r \in Live : r.id \in Nat /\ r.id <= asks
    BY DEF Live, TypeInv, AskedOK, Request
  <2> QED
    BY <1>1, <2>1 DEF Sent, BatchOf
<1>8. \A d \in db : d.batch # asks + 1
  <2>1. \A d \in db : d.batch \in Nat /\ d.batch <= asks
    BY DEF TypeInv, AskedOK
  <2> QED
    BY <1>1, <2>1
<1>9. Batches!Send(BatchOf(new)) /\ BatchOf(new) \in Sent'
  BY <1>3, <1>5, <1>6, <1>7, <1>8 DEF Batches!Send
<1> QED
  BY <1>6, <1>9 DEF Batches!EditsNext

LEMMA StepStutters == ASSUME TypeInv, NEW r \in asked, Steps(r) PROVE Sent' = Sent /\ db' = db
<1>1. PICK q \in Request : StepTo(r, q)
  BY StepForm
<1>2. asked' = (asked \ {r}) \cup {q} /\ db' = db /\ BatchOf(q) = BatchOf(r)
  BY <1>1 DEF StepTo, Becomes, BatchOf
<1>3. r \in Live /\ Live' = (Live \ {r}) \cup {q}
  BY <1>1, <1>2 DEF Live, StepTo
<1> QED
  BY <1>2, <1>3 DEF Sent

LEMMA CommitLands ==
  ASSUME TypeInv, NEW r \in asked, Commit(r) \/ CommitUnseen(r) PROVE Batches!EditsNext
<1>1. r \in Request /\ r.op = "apply" /\ r.pc = "begun" /\ r \in Live
  BY DEF TypeInv, AskedOK, Commit, CommitUnseen, Live
<1>2. Live' = Live \ {r}
  <2>1. CASE Commit(r)
    <3> DEFINE q == [r EXCEPT !.pc = "landed"]
    <3>1. asked' = (asked \ {r}) \cup {q} /\ q.pc = "landed"
      BY <1>1, <2>1 DEF Commit, Becomes, Request
    <3> HIDE DEF q
    <3> QED
      BY <1>1, <3>1 DEF Live
  <2>2. CASE CommitUnseen(r)
    BY <2>2 DEF CommitUnseen, Live
  <2> QED
    BY <2>1, <2>2
<1>3. db' = db \cup Effects(r, r.list)
  BY DEF Commit, CommitUnseen
<1>4. Effects(r, r.list) = Batches!Effects(BatchOf(r))
  BY DEF Effects, Batches!Effects, BatchOf
<1>5. Batches!Land(BatchOf(r)) /\ BatchOf(r) \in Sent
  BY <1>1, <1>2, <1>3, <1>4, Leaving DEF Batches!Land
<1> QED
  BY <1>5 DEF Batches!EditsNext

LEMMA FailedDrops ==
  ASSUME TypeInv, NEW r \in asked, Failed(r) PROVE [Batches!EditsNext]_<<Sent, db>>
<1>1. asked' = asked \ {r} /\ db' = db /\ r.pc # "landed"
  BY DEF Failed, Answered
<1>2. CASE r.op = "apply"
  <2>1. r \in Live /\ Live' = Live \ {r}
    BY <1>1, <1>2 DEF Live
  <2>2. Batches!Drop(BatchOf(r)) /\ BatchOf(r) \in Sent
    BY <1>1, <2>1, Leaving DEF Batches!Drop
  <2> QED
    BY <2>2 DEF Batches!EditsNext
<1>3. CASE r.op # "apply"
  <2>1. Live' = Live
    BY <1>1, <1>3 DEF Live
  <2> QED
    BY <1>1, <2>1 DEF Sent
<1> QED
  BY <1>2, <1>3

LEMMA OthersStutter ==
  ASSUME TypeInv,
         \/ \E s \in Schemas : PickSchema(s)
         \/ \E t \in Table, n \in 1..2 : OpenTable(t, n)
         \/ Refresh \/ Idly \/ QueueChange \/ QueueInsert
         \/ \E r \in asked : OnTableSchema(r) \/ OnBrowseResult(r) \/ OnChangesApplied(r)
         \/ UNCHANGED vars
  PROVE  Sent' = Sent /\ db' = db
<1> SUFFICES Live' = Live /\ db' = db
  BY DEF Sent
<1>1. CASE (\E s \in Schemas : PickSchema(s)) \/ Idly \/ QueueChange \/ QueueInsert
           \/ UNCHANGED vars
  <2>1. asked' = asked /\ db' = db
    BY <1>1 DEF PickSchema, Idly, StartEdit, CancelEdit, StartInsert, CancelInsert, SetWrites,
                Discard, QueueChange, QueueInsert, Queue, vars
  <2> QED
    BY <2>1 DEF Live
<1>2. ASSUME NEW t \in Table, NEW n \in 1..2, OpenTable(t, n) PROVE Live' = Live /\ db' = db
  <2>1. asked' = asked \cup Opening(t, n) /\ db' = db
    BY <1>2 DEF OpenTable, Opening
  <2>2. \A r \in Opening(t, n) : r.op \in {"describe", "browse"}
    BY OpeningType DEF TypeInv, AskedOK
  <2> QED
    BY <2>1, <2>2 DEF Live
<1>3. CASE Refresh
  BY <1>3 DEF Refresh, Ask, Live
<1>4. ASSUME NEW r \in asked, OnTableSchema(r) \/ OnBrowseResult(r)
      PROVE  Live' = Live /\ db' = db
  BY <1>4 DEF OnTableSchema, OnBrowseResult, Answered, Live
<1>5. ASSUME NEW r \in asked, OnChangesApplied(r) PROVE Live' = Live /\ db' = db
  BY <1>5 DEF OnChangesApplied, Ask, Live
<1> QED
  BY <1>1, <1>2, <1>3, <1>4, <1>5

LEMMA BatchesNext == ASSUME TypeInv, [Next]_vars PROVE [Batches!EditsNext]_<<Sent, db>>
<1>1. CASE Click
  BY <1>1, ClickSplit, ApplySends, OthersStutter, Stutter
<1>2. CASE UNCHANGED vars
  BY <1>2, OthersStutter, Stutter
<1>3. ASSUME NEW r \in asked,
             \/ Steps(r) \/ Answers(r) \/ Commit(r) \/ CommitUnseen(r) \/ OnChangesApplied(r)
      PROVE  [Batches!EditsNext]_<<Sent, db>>
  BY <1>3, StepStutters, CommitLands, FailedDrops, OthersStutter, Stutter DEF Answers
<1> QED
  BY <1>1, <1>2, <1>3, NextSplit

LEMMA BatchesInit == Init => Batches!EditsInit
  BY DEF Init, Batches!EditsInit, Sent, Live

\* apply of src/db/sql.rs: however many batches are under way and wherever they
\* fail, each of them lands whole and once, or not at all.
THEOREM BatchesImplemented == Spec => BatchesAreAtomic
<1>1. TypeInv /\ [Next]_vars => [Batches!EditsNext]_<<Sent, db>>
  BY BatchesNext
<1> QED
  BY <1>1, BatchesInit, Typed, PTL DEF Spec, BatchesAreAtomic, Batches!EditsSpec

-----------------------------------------------------------------------------
(* A user who waits: keys.                                                 *)

\* What he sees and edits, and what is still to come, is of the table he opened.
Keyed ==
  ~hasty /\ ~picked =>
    /\ KeysAddressRows
    /\ editing # NoKey => AddressesRow(editing, Open)
    /\ page \in {NoTable, Open} /\ columns \in {NoTable, Open}
    /\ \A r \in asked : r.op = "describe" => r.table = Open

LEMMA KeyedOpening ==
  ASSUME TypeInv, NEW t \in Table, NEW n \in 1..2, OpenTable(t, n) PROVE Keyed'
<1> SUFFICES ASSUME ~hasty', ~picked'
             PROVE  /\ KeysAddressRows'
                    /\ (editing # NoKey => AddressesRow(editing, Open))'
                    /\ (page \in {NoTable, Open} /\ columns \in {NoTable, Open})'
                    /\ \A r \in asked' : r.op = "describe" => r.table = Open'
  BY DEF Keyed
<1>1. asked = {} /\ asked' = Opening(t, n)
  BY DEF OpenTable, Opening, Acts
<1>2. Open' = t
  BY DEF OpenTable, Open, Table
<1>3. \A r \in asked' : r.table = t
  BY <1>1, OpeningType DEF TypeInv, AskedOK
<1>4. pending' \subseteq {c \in pending : IsInsert(c)} /\ editing' = NoKey
      /\ page' = NoTable /\ columns' = NoTable
  BY DEF OpenTable
<1> QED
  BY <1>2, <1>3, <1>4 DEF KeysAddressRows, IsInsert

LEMMA KeyedQueueing ==
  ASSUME TypeInv, Keyed, QueueChange \/ QueueInsert PROVE Keyed'
<1> SUFFICES ASSUME ~hasty', ~picked'
             PROVE  /\ KeysAddressRows'
                    /\ (editing # NoKey => AddressesRow(editing, Open))'
                    /\ (page \in {NoTable, Open} /\ columns \in {NoTable, Open})'
                    /\ \A r \in asked' : r.op = "describe" => r.table = Open'
  BY DEF Keyed
<1>1. UNCHANGED <<schema, name, page, columns, asked, picked>> /\ Open' = Open /\ ~hasty
  BY DEF QueueChange, QueueInsert, Queue, screen, Open, Acts
<1>2. editing' \in {editing, NoKey}
  BY DEF QueueChange, QueueInsert
<1>3. PICK key : Queue(key) /\ (key = NoKey \/ (key = editing /\ editing # NoKey))
  BY DEF QueueChange, QueueInsert
<1>4. key # NoKey => AddressesRow(key, Open)
  BY <1>1, <1>3 DEF Keyed
<1>5. KeysAddressRows'
  <2> DEFINE new == [id |-> edits + 1, table |-> Open, key |-> key]
  <2>1. pending' = pending \cup {new} /\ new.table = Open /\ new.key = key
    BY <1>3 DEF Queue
  <2>2. \A c \in pending : ~IsInsert(c) => AddressesRow(c.key, c.table)
    BY <1>1 DEF Keyed, KeysAddressRows
  <2> HIDE DEF new
  <2> QED
    BY <1>4, <2>1, <2>2 DEF KeysAddressRows, IsInsert
<1> QED
  BY <1>1, <1>2, <1>5 DEF Keyed, AddressesRow

LEMMA KeyedRest ==
  ASSUME Keyed, UNCHANGED <<schema, name>>, pending' \subseteq pending,
         hasty \/ picked => hasty' \/ picked', editing' \in {editing, NoKey},
         page' \in {page, Open},
         ~hasty /\ ~picked => columns' \in {columns, Open},
         \A r \in asked' \ asked : r.op # "describe"
  PROVE  Keyed'
<1>1. Open' = Open
  BY DEF Open
<1> QED
  BY <1>1 DEF Keyed, KeysAddressRows, AddressesRow, IsInsert

LEMMA KeyedEditing == ASSUME TypeInv, Keyed, StartEdit PROVE Keyed'
<1>1. UNCHANGED <<schema, name, page, columns, pending, asked, picked>> /\ Open' = Open
      /\ (hasty => hasty')
  BY DEF StartEdit, screen, Open, Acts
<1>2. ~hasty /\ ~picked => page = Open /\ columns = Open
  BY DEF Keyed, StartEdit, Editable
<1>3. editing' = [cols |-> Pk[columns], from |-> page]
  BY DEF StartEdit
<1>4. ~hasty /\ ~picked => AddressesRow(editing', Open)
  BY <1>2, <1>3 DEF AddressesRow
<1> QED
  BY <1>1, <1>4 DEF Keyed, KeysAddressRows, AddressesRow, IsInsert

LEMMA KeyedClick == ASSUME TypeInv, Keyed, Click PROVE Keyed'
<1>1. CASE \E s \in Schemas : PickSchema(s)
  BY <1>1 DEF PickSchema, Keyed
<1>2. CASE \E t \in Table, n \in 1..2 : OpenTable(t, n)
  BY <1>2, KeyedOpening
<1>3. CASE QueueChange \/ QueueInsert
  BY <1>3, KeyedQueueing
<1>4. CASE StartEdit
  BY <1>4, KeyedEditing
<1>5. CASE Refresh \/ Apply
  <2>1. /\ UNCHANGED <<schema, name, page, columns, editing, pending, picked>>
        /\ hasty => hasty'
    BY <1>5 DEF Refresh, Apply, screen, panels, Acts
  <2>2. \A r \in asked' \ asked : r.op # "describe"
    BY <1>5 DEF Refresh, Apply, Ask
  <2> QED
    BY <2>1, <2>2, KeyedRest
<1>6. CASE Idly /\ ~StartEdit
  <2>1. /\ UNCHANGED <<schema, name, page, columns, asked, picked>>
        /\ hasty => hasty'
        /\ pending' \subseteq pending /\ editing' \in {editing, NoKey}
    BY <1>6 DEF Idly, CancelEdit, StartInsert, CancelInsert, SetWrites, Discard, screen,
                panels, Acts
  <2> QED
    BY <2>1, KeyedRest
<1> QED
  BY <1>1, <1>2, <1>3, <1>4, <1>5, <1>6, ClickSplit

LEMMA KeyedNext == ASSUME TypeInv, Keyed, [Next]_vars PROVE Keyed'
<1>1. CASE UNCHANGED vars
  BY <1>1, KeyedRest DEF vars, screen, panels, history
<1>2. CASE Click
  BY <1>2, KeyedClick
<1>3. ASSUME NEW r \in asked, Steps(r) PROVE Keyed'
  <2>1. PICK q \in Request : StepTo(r, q)
    BY <1>3, StepForm
  <2>2. /\ UNCHANGED <<schema, name, page, columns, editing, pending, picked, hasty>>
        /\ asked' \ asked \subseteq {q} /\ q.op = "apply"
    BY <2>1 DEF StepTo, Becomes, screen, panels
  <2> QED
    BY <2>2, KeyedRest
<1>4. ASSUME NEW r \in asked, Commit(r) PROVE Keyed'
  <2> DEFINE q == [r EXCEPT !.pc = "landed"]
  <2>1. q.op = "apply"
    BY <1>4 DEF Commit, TypeInv, AskedOK, Request
  <2>2. /\ UNCHANGED <<schema, name, page, columns, editing, pending, picked, hasty>>
        /\ asked' \ asked \subseteq {q}
    BY <1>4 DEF Commit, Becomes, screen, panels
  <2> HIDE DEF q
  <2> QED
    BY <2>1, <2>2, KeyedRest
<1>5. ASSUME NEW r \in asked, CommitUnseen(r) \/ Failed(r) \/ OnBrowseResult(r) PROVE Keyed'
  <2>1. /\ UNCHANGED <<schema, name, columns, editing, pending, picked, hasty>>
        /\ page' \in {page, Open} /\ asked' \ asked = {}
    BY <1>5 DEF CommitUnseen, Failed, OnBrowseResult, Answered, screen, panels
  <2> QED
    BY <2>1, KeyedRest
<1>6. ASSUME NEW r \in asked, OnTableSchema(r) PROVE Keyed'
  <2>1. /\ UNCHANGED <<schema, name, page, editing, pending, picked, hasty>>
        /\ columns' = r.table /\ r.op = "describe" /\ asked' \ asked = {}
    BY <1>6 DEF OnTableSchema, Answered
  <2>2. ~hasty /\ ~picked => columns' = Open
    BY <2>1 DEF Keyed
  <2> QED
    BY <2>1, <2>2, KeyedRest
<1>7. ASSUME NEW r \in asked, OnChangesApplied(r) PROVE Keyed'
  <2>1. /\ UNCHANGED <<schema, name, page, columns, picked, hasty>>
        /\ pending' = {} /\ editing' = NoKey
        /\ asked' \ asked \subseteq {Ask(asks + 1, "browse", Open)}
    BY <1>7 DEF OnChangesApplied, screen
  <2>2. Ask(asks + 1, "browse", Open).op = "browse"
    BY DEF Ask
  <2> QED
    BY <2>1, <2>2, KeyedRest
<1> QED
  BY <1>1, <1>2, <1>3, <1>4, <1>5, <1>6, <1>7, NextSplit DEF Answers

\* A user who waits for the answers queues changes of the rows he was shown, by
\* the key of the table they are in (row_key, src/app.rs:739).
THEOREM PatientKeys == Spec => []PatientKeysAddressRows
<1>1. Init => Keyed
  BY DEF Init, Keyed, KeysAddressRows
<1>2. TypeInv /\ Keyed /\ [Next]_vars => Keyed'
  BY KeyedNext
<1>3. Keyed => PatientKeysAddressRows
  BY DEF Keyed, PatientKeysAddressRows
<1> QED
  BY <1>1, <1>2, <1>3, Typed, PTL DEF Spec

-----------------------------------------------------------------------------
(* A user who waits: nothing lost, nothing applied twice.                  *)

\* While an apply is under way nothing else is, and what it applies is what is
\* queued; once it has landed all of it is on the server.
Alone ==
  ~hasty =>
    /\ lost = {}
    /\ \A r \in asked : r.op = "apply" => asked = {r} /\ r.list = pending
    /\ \A r \in asked : r.pc = "landed" => \A c \in r.list : \E d \in db : d.change = c

LEMMA AloneClick == ASSUME TypeInv, Alone, Click PROVE Alone'
<1> SUFFICES ASSUME ~hasty'
             PROVE  /\ lost' = {}
                    /\ \A r \in asked' : r.op = "apply" => asked' = {r} /\ r.list = pending'
                    /\ \A r \in asked' : r.pc = "landed" =>
                         \A c \in r.list : \E d \in db' : d.change = c
  BY DEF Alone
<1>1. ~hasty /\ asked = {} /\ lost' = lost
  BY DEF Click, PickSchema, OpenTable, Refresh, StartEdit, CancelEdit, QueueChange,
         StartInsert, QueueInsert, CancelInsert, SetWrites, Discard, Apply, Queue, Acts,
         history
<1>2. lost' = {}
  BY <1>1 DEF Alone
<1>3. CASE Apply
  <2> DEFINE new == [Ask(asks + 1, "apply", Open) EXCEPT !.list = pending]
  <2>1. asked' = asked \cup {new} /\ pending' = pending
    BY <1>3 DEF Apply
  <2>2. new.list = pending /\ new.pc = "sent"
    BY DEF Ask
  <2> HIDE DEF new
  <2> QED
    BY <1>1, <1>2, <2>1, <2>2
<1>4. CASE ~Apply
  <2>1. \A r \in asked' : r.op # "apply" /\ r.pc = "sent"
    <3>1. CASE Refresh
      BY <1>1, <3>1 DEF Refresh, Ask
    <3>2. ASSUME NEW t \in Table, NEW n \in 1..2, OpenTable(t, n)
          PROVE  \A r \in asked' : r.op # "apply" /\ r.pc = "sent"
      <4>1. asked' = Opening(t, n)
        BY <1>1, <3>2 DEF OpenTable, Opening
      <4> QED
        BY <4>1, OpeningType DEF TypeInv, AskedOK
    <3>3. CASE (\E s \in Schemas : PickSchema(s)) \/ Idly \/ QueueChange \/ QueueInsert
      <4>1. asked' = asked
        BY <3>3 DEF PickSchema, Idly, StartEdit, CancelEdit, StartInsert, CancelInsert,
                    SetWrites, Discard, QueueChange, QueueInsert, Queue
      <4> QED
        BY <1>1, <4>1
    <3> QED
      BY <1>4, <3>1, <3>2, <3>3, ClickSplit
  <2> QED
    BY <1>2, <2>1
<1> QED
  BY <1>3, <1>4

LEMMA AloneNext == ASSUME TypeInv, Alone, [Next]_vars PROVE Alone'
<1>1. CASE UNCHANGED vars
  BY <1>1 DEF vars, history, Alone
<1>2. CASE Click
  BY <1>2, AloneClick
<1>3. ASSUME NEW r \in asked, Steps(r) PROVE Alone'
  <2>1. PICK q \in Request : StepTo(r, q)
    BY <1>3, StepForm
  <2> QED
    BY <2>1 DEF StepTo, Becomes, Alone
<1>4. ASSUME NEW r \in asked, Commit(r) PROVE Alone'
  <2> DEFINE q == [r EXCEPT !.pc = "landed"]
  <2>1. q.list = r.list /\ r.op = "apply"
    BY <1>4 DEF Commit, TypeInv, AskedOK, Request
  <2>2. asked' = (asked \ {r}) \cup {q} /\ pending' = pending /\ lost' = lost
        /\ hasty' = hasty /\ db' = db \cup Effects(r, r.list)
    BY <1>4 DEF Commit, Becomes
  <2> HIDE DEF q
  <2>3. \A c \in r.list : \E d \in db' : d.change = c
    <3>1. ASSUME NEW c \in r.list PROVE [batch |-> r.id, change |-> c] \in db'
      BY <2>2 DEF Effects
    <3> QED
      BY <3>1
  <2> QED
    BY <2>1, <2>2, <2>3 DEF Alone
<1>5. ASSUME NEW r \in asked, CommitUnseen(r) \/ Answers(r) PROVE Alone'
  <2>1. /\ asked' = asked \ {r} /\ UNCHANGED <<pending, lost, hasty>>
        /\ db' \in {db, db \cup Effects(r, r.list)}
    BY <1>5 DEF CommitUnseen, Answers, Failed, OnTableSchema, OnBrowseResult, Answered
  <2> QED
    BY <2>1 DEF Alone
<1>6. ASSUME NEW r \in asked, OnChangesApplied(r) PROVE Alone'
  <2> SUFFICES ASSUME ~hasty
               PROVE  /\ lost' = {}
                      /\ \A q \in asked' : q.op # "apply" /\ q.pc = "sent"
    BY <1>6 DEF Alone, OnChangesApplied
  <2>1. asked = {r} /\ r.list = pending /\ \A c \in pending : \E d \in db : d.change = c
    BY <1>6 DEF Alone, OnChangesApplied, TypeInv, AskedOK
  <2>2. Unsaved = {}
    BY <2>1 DEF Unsaved
  <2> QED
    BY <1>6, <2>1, <2>2 DEF OnChangesApplied, Ask, Alone
<1> QED
  BY <1>1, <1>2, <1>3, <1>4, <1>5, <1>6, NextSplit

LEMMA AloneAlways == Spec => []Alone
<1>1. Init => Alone
  BY DEF Init, Alone
<1>2. TypeInv /\ Alone /\ [Next]_vars => Alone'
  BY AloneNext
<1> QED
  BY <1>1, <1>2, Typed, PTL DEF Spec

\* ... and no edit of his is dropped unapplied when ChangesApplied empties the
\* list (src/app.rs:1126).
THEOREM PatientLosesNothing == Spec => []NoEditLost
<1>1. Alone => NoEditLost
  BY DEF Alone, NoEditLost
<1> QED
  BY <1>1, AloneAlways, PTL

\* A change has a number of its own, and is on the server at most once.
Counted ==
  /\ \A c, e \in pending : c.id = e.id => c = e
  /\ \A r \in asked : \A c \in r.list : c.id <= edits
  /\ \A d \in db : d.change.id <= edits

Fresh == \A d \in db, c \in pending : d.change.id # c.id
Landed == \E r \in asked : r.pc = "landed"
Once ==
  ~hasty /\ ~unsure =>
    /\ \A d, e \in db : d.change.id = e.change.id => d = e
    /\ ~Landed => Fresh

\* The changes queued so far, and those on the server, have numbers up to edits.
LEMMA ChangeIds ==
  ASSUME TypeInv
  PROVE  /\ edits \in Nat /\ \A c \in pending : c.id \in Nat /\ c.id <= edits
         /\ \A d \in db : d.change.id \in Nat
         /\ \A r \in asked : \A c \in r.list : c.id \in Nat
  BY DEF TypeInv, ListOK, AskedOK, Request, Change

LEMMA CountedQueueing ==
  ASSUME TypeInv, Counted, Once, QueueChange \/ QueueInsert PROVE Counted' /\ Once'
<1>1. PICK key : Queue(key)
  BY DEF QueueChange, QueueInsert
<1> DEFINE new == [id |-> edits + 1, table |-> Open, key |-> key]
<1>2. /\ pending' = pending \cup {new} /\ new.id = edits + 1 /\ edits' = edits + 1
      /\ UNCHANGED <<asked, db, unsure>> /\ (~hasty' => ~hasty /\ asked = {})
  BY <1>1 DEF Queue, Acts
<1> HIDE DEF new
<1>3. Counted'
  BY <1>2, ChangeIds DEF Counted
<1>4. ASSUME Fresh PROVE Fresh'
  <2>1. \A d \in db : d.change.id # edits + 1
    BY ChangeIds DEF Counted
  <2> QED
    BY <1>2, <1>4, <2>1 DEF Fresh
<1>5. Once'
  BY <1>2, <1>4 DEF Once, Landed
<1> QED
  BY <1>3, <1>5

\* What queues nothing and lands nothing: no request under way is taken to have
\* landed, and a new one applies what is queued.
LEMMA CountedRest ==
  ASSUME TypeInv, Counted, Once, pending' \subseteq pending, edits' = edits, db' = db,
         hasty \/ unsure => hasty' \/ unsure', ~Landed' => ~Landed \/ pending' = {},
         \A r \in asked' : (\E q \in asked : r.list = q.list) \/ r.list \subseteq pending
  PROVE  Counted' /\ Once'
<1>1. Counted'
  <2>1. \A r \in asked' : \A c \in r.list : c.id <= edits
    BY ChangeIds DEF Counted
  <2> QED
    BY <2>1 DEF Counted
<1>2. Once'
  BY DEF Once, Fresh
<1> QED
  BY <1>1, <1>2

LEMMA CountedClick == ASSUME TypeInv, Counted, Once, Click PROVE Counted' /\ Once'
<1>1. CASE QueueChange \/ QueueInsert
  BY <1>1, CountedQueueing
<1>2. CASE Apply
  <2> DEFINE new == [Ask(asks + 1, "apply", Open) EXCEPT !.list = pending]
  <2>1. /\ asked' = asked \cup {new} /\ UNCHANGED <<pending, edits, db, unsure>>
        /\ hasty => hasty'
    BY <1>2 DEF Apply, Acts
  <2>2. new.list = pending
    BY DEF Ask
  <2> HIDE DEF new
  <2> QED
    BY <2>1, <2>2, CountedRest DEF Landed
<1>3. CASE Refresh
  <2> DEFINE new == Ask(asks + 1, "browse", Open)
  <2>1. /\ asked' = asked \cup {new} /\ UNCHANGED <<pending, edits, db, unsure>>
        /\ hasty => hasty'
    BY <1>3 DEF Refresh, Acts
  <2>2. new.list = {}
    BY DEF Ask
  <2> HIDE DEF new
  <2> QED
    BY <2>1, <2>2, CountedRest DEF Landed
<1>4. ASSUME NEW t \in Table, NEW n \in 1..2, OpenTable(t, n) PROVE Counted' /\ Once'
  <2>1. /\ asked' = asked \cup Opening(t, n) /\ UNCHANGED <<edits, db, unsure>>
        /\ pending' \subseteq pending /\ (hasty => hasty')
    BY <1>4 DEF OpenTable, Opening, Acts
  <2>2. \A r \in Opening(t, n) : r.list = {}
    BY DEF Opening, Ask
  <2> QED
    BY <2>1, <2>2, CountedRest DEF Landed
<1>5. CASE (\E s \in Schemas : PickSchema(s)) \/ Idly
  <2>1. /\ UNCHANGED <<asked, edits, db, unsure>> /\ pending' \subseteq pending
        /\ hasty => hasty'
    BY <1>5 DEF PickSchema, Idly, StartEdit, CancelEdit, StartInsert, CancelInsert,
                SetWrites, Discard, Acts
  <2> QED
    BY <2>1, CountedRest DEF Landed
<1> QED
  BY <1>1, <1>2, <1>3, <1>4, <1>5, ClickSplit

LEMMA CountedCommit ==
  ASSUME TypeInv, Alone, Counted, Once, NEW r \in asked, Commit(r) PROVE Counted' /\ Once'
<1> DEFINE q == [r EXCEPT !.pc = "landed"]
<1>1. q.list = r.list /\ q.pc = "landed" /\ r.op = "apply" /\ r.pc = "begun"
  BY DEF Commit, TypeInv, AskedOK, Request
<1>2. asked' = (asked \ {r}) \cup {q} /\ UNCHANGED <<pending, edits, hasty, unsure>>
      /\ db' = db \cup Effects(r, r.list)
  BY DEF Commit, Becomes
<1> HIDE DEF q
<1>3. \A d \in Effects(r, r.list) : d.batch = r.id /\ d.change \in r.list
  BY DEF Effects
<1>4. Counted'
  BY <1>1, <1>2, <1>3 DEF Counted
<1>5. Landed'
  BY <1>1, <1>2 DEF Landed
<1>6. ASSUME ~hasty, ~unsure, NEW d \in db', NEW e \in db', d.change.id = e.change.id
      PROVE  d = e
  <2>1. asked = {r} /\ r.list = pending
    BY <1>1, <1>6 DEF Alone
  <2>2. Fresh
    BY <1>1, <1>6, <2>1 DEF Once, Landed
  <2>3. CASE d \in db /\ e \in db
    BY <1>6, <2>3 DEF Once
  <2>4. CASE d \in Effects(r, r.list) /\ e \in Effects(r, r.list)
    <3>1. d.change = e.change
      BY <1>3, <1>6, <2>1, <2>4 DEF Counted
    <3> QED
      BY <3>1, <2>4 DEF Effects
  <2>5. ~(d \in db /\ e \in Effects(r, r.list)) /\ ~(d \in Effects(r, r.list) /\ e \in db)
    BY <1>3, <1>6, <2>1, <2>2 DEF Fresh
  <2> QED
    BY <1>2, <2>3, <2>4, <2>5
<1> QED
  BY <1>2, <1>4, <1>5, <1>6 DEF Once

LEMMA CountedNext ==
  ASSUME TypeInv, Alone, Counted, Once, [Next]_vars PROVE Counted' /\ Once'
<1>1. CASE UNCHANGED vars
  BY <1>1, CountedRest DEF vars, history, Landed
<1>2. CASE Click
  BY <1>2, CountedClick
<1>3. ASSUME NEW r \in asked, Steps(r) PROVE Counted' /\ Once'
  <2>1. PICK q \in Request : StepTo(r, q)
    BY <1>3, StepForm
  <2>2. /\ asked' = (asked \ {r}) \cup {q} /\ q.list = r.list /\ r.pc # "landed"
        /\ UNCHANGED <<pending, edits, db, hasty, unsure>>
    BY <2>1 DEF StepTo, Becomes
  <2> QED
    BY <2>2, CountedRest DEF Landed
<1>4. ASSUME NEW r \in asked, Commit(r) PROVE Counted' /\ Once'
  BY <1>4, CountedCommit
<1>5. ASSUME NEW r \in asked, CommitUnseen(r) PROVE Counted' /\ Once'
  <2>1. /\ asked' = asked \ {r} /\ UNCHANGED <<pending, edits>> /\ unsure'
        /\ db' = db \cup Effects(r, r.list)
    BY <1>5 DEF CommitUnseen, panels
  <2>2. \A d \in Effects(r, r.list) : d.change \in r.list
    BY DEF Effects
  <2> QED
    BY <2>1, <2>2 DEF Counted, Once
<1>6. ASSUME NEW r \in asked, Answers(r) PROVE Counted' /\ Once'
  <2>1. /\ asked' = asked \ {r} /\ r.pc # "landed"
        /\ UNCHANGED <<pending, edits, db, hasty, unsure>>
    BY <1>6 DEF Answers, Failed, OnTableSchema, OnBrowseResult, Answered, TypeInv, AskedOK
  <2> QED
    BY <2>1, CountedRest DEF Landed
<1>7. ASSUME NEW r \in asked, OnChangesApplied(r) PROVE Counted' /\ Once'
  <2> DEFINE q == Ask(asks + 1, "browse", Open)
  <2>1. /\ asked' = (asked \ {r}) \cup {q} /\ UNCHANGED <<edits, db, hasty, unsure>>
        /\ pending' = {}
    BY <1>7 DEF OnChangesApplied
  <2>2. q.list = {}
    BY DEF Ask
  <2> HIDE DEF q
  <2> QED
    BY <2>1, <2>2, CountedRest
<1> QED
  BY <1>1, <1>2, <1>3, <1>4, <1>5, <1>6, <1>7, NextSplit

\* ... and, unless the answer to a COMMIT is lost, each of his edits is applied
\* once, although Apply can be clicked twice and a failed batch stays queued.
THEOREM PatientAppliesOnce == Spec => []AppliedOnce
<1>1. Init => Counted /\ Once
  BY DEF Init, Counted, Once, Fresh
<1>2. TypeInv /\ Alone /\ Counted /\ Once /\ [Next]_vars => Counted' /\ Once'
  BY CountedNext
<1>3. Once => AppliedOnce
  BY DEF Once, AppliedOnce
<1> QED
  BY <1>1, <1>2, <1>3, Typed, AloneAlways, PTL DEF Spec
=============================================================================
