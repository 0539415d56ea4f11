------------------------------ MODULE RowEdits ------------------------------
(***************************************************************************)
(* What the table browser promises of row edits (README.md, "Editing       *)
(* data"): "applying runs the whole queue in one transaction - any failure *)
(* rolls the batch back".  A batch that was sent lands whole and once, or  *)
(* not at all; nothing else changes the server.                            *)
(***************************************************************************)
EXTENDS Naturals

CONSTANT Change  \* the row edits a user can make

VARIABLES
  sent,  \* the batches under way, each with a number of its own
  db     \* the changes the server has committed, with the batch they came in

Batch == [id : Nat, list : SUBSET Change]
Effects(b) == {[batch |-> b.id, change |-> c] : c \in b.list}

EditsInit == sent = {} /\ db = {}

Send(b) ==
  /\ \A s \in sent : s.id # b.id
  /\ \A d \in db : d.batch # b.id
  /\ sent' = sent \cup {b}
  /\ UNCHANGED db

Land(b) ==
  /\ db' = db \cup Effects(b)
  /\ sent' = sent \ {b}

Drop(b) ==
  /\ sent' = sent \ {b}
  /\ UNCHANGED db

EditsNext ==
  \/ \E b \in sent' : b \in Batch /\ Send(b)
  \/ \E b \in sent : Land(b) \/ Drop(b)

EditsSpec == EditsInit /\ [][EditsNext]_<<sent, db>>
=============================================================================
