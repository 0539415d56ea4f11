-------------------------------- MODULE Deadlock --------------------------------
(***************************************************************************)
(* The deadlock section of an InnoDB report, src/deadlock.rs: one step per   *)
(* line of the loops of section() and parse(), over reports of 5.7 and 8.0.  *)
(* A line is its kind, the transaction its marker names and what it says;    *)
(* the report may have been cut off by the server after any line.           *)
(***************************************************************************)
EXTENDS Naturals, Sequences, FiniteSets, SequencesExt

CONSTANTS
  Queries,  \* statements, each a sequence of lines
  Locks,    \* lock lines
  MaxHeld   \* bound: locks a report lists as held by one side

ASSUME DeadlockAssumption ==
  MaxHeld \in Nat /\ \A q \in Queries : q \in Seq(STRING)

VARIABLES
  truth,      \* external: what happened, as the server reports it
  lines,      \* the report
  ln,         \* the next line
  section,    \* section(): "before", "header" (no line of it yet), "body", "over"
  detected,   \* Deadlock::detected_at is set
  parties,    \* Deadlock::parties
  current,    \* parse: current, 0 for None
  aim,        \* parse: target
  collecting, \* parse: collecting_query
  victim      \* Deadlock::victim, 0 for None

deadlockVars == <<truth, lines, ln, section, detected, parties, current, aim, collecting, victim>>

Line(kind, n, says) == [is |-> kind, n |-> n, says |-> says]
Plain(kind) == Line(kind, 0, "")
NoAim == [at |-> "none", n |-> 0]
Facts == {"trx", "tables", "structs", "thread"}
Party(n) == [index |-> n, facts |-> {}, query |-> <<>>, holds |-> <<>>, waiting |-> <<>>]

(* External: the report.  Before 8.0.20 side 1 lists no lock as held; the   *)
(* bytes of the locked record follow each lock; other sections stand before *)
(* and after, with transactions of their own.                              *)
Held == UNION {[1..k -> Locks] : k \in 0..MaxHeld}
Side == [query : Queries, holds : Held, waiting : Locks]
Truths == [side : [{1, 2} -> Side], victim : {1, 2}]

LockLines(ls) ==
  [k \in 1..2 * Len(ls) |-> IF k % 2 = 1 THEN Line("lock", 0, ls[(k + 1) \div 2])
                            ELSE Line("text", 0, "bytes")]
SideLines(n, s) ==
  <<Line("TRANSACTION", n, ""), Plain("trx"), Plain("tables"), Plain("structs"), Plain("thread")>>
  \o [k \in DOMAIN s.query |-> Line("text", 0, s.query[k])]
  \o (IF s.holds = <<>> THEN <<>> ELSE <<Line("HOLDS", n, "")>>) \o LockLines(s.holds)
  \o <<Line("WAITING", n, "")>> \o LockLines(<<s.waiting>>)
Around == <<Line("text", 0, "other"), Plain("trx"), Plain("rule")>>
Report(d) ==
  Around \o <<Plain("header"), Plain("rule"), Line("text", 0, "time")>>
  \o SideLines(1, d.side[1]) \o SideLines(2, d.side[2])
  \o <<Line("ROLL BACK", d.victim, ""), Plain("rule")>> \o Around

DeadlockInit ==
  /\ truth \in Truths /\ lines = Report(truth) /\ ln = 1 /\ section = "before"
  /\ detected = FALSE /\ parties = <<>> /\ current = 0
  /\ aim = NoAim /\ collecting = FALSE /\ victim = 0

-----------------------------------------------------------------------------

line == lines[ln]

Read == ln <= Len(lines) /\ ln' = ln + 1 /\ UNCHANGED <<truth, lines>>
NothingRead == UNCHANGED <<detected, parties, current, aim, collecting, victim>>

\* section(): what stands before the header is skipped, its underline with it,
\* and the next rule ends the body.
Skip ==
  /\ Read /\ NothingRead
  /\ \/ section = "before" /\ section' = (IF line.is = "header" THEN "header" ELSE "before")
     \/ section = "header" /\ line.is = "rule" /\ UNCHANGED section
     \/ section = "body" /\ line.is = "rule" /\ section' = "over"

\* A line of the body, of one of these kinds.
InBody(kinds) ==
  /\ Read /\ section \in {"header", "body"} /\ line.is \in kinds /\ section' = "body"

Markers == {"TRANSACTION", "HOLDS", "WAITING", "ROLL BACK"}

\* Mutant: what a side waits for is listed with what it holds.
MarkerHoldsOnly ==
  /\ InBody(Markers) /\ collecting' = FALSE
  /\ IF line.is = "TRANSACTION"
     THEN parties' = Append(parties, Party(line.n)) /\ current' = Len(parties')
     ELSE UNCHANGED <<parties, current>>
  /\ aim' = (CASE line.is = "TRANSACTION" -> NoAim
               [] line.is = "ROLL BACK" -> aim
               [] OTHER -> [at |-> "HOLDS", n |-> line.n])
  /\ victim' = (IF line.is = "ROLL BACK" THEN line.n ELSE victim)
  /\ UNCHANGED detected

\* A line that begins with ***.
Marker ==
  /\ InBody(Markers) /\ collecting' = FALSE
  /\ IF line.is = "TRANSACTION"
     THEN parties' = Append(parties, Party(line.n)) /\ current' = Len(parties')
     ELSE UNCHANGED <<parties, current>>
  /\ aim' = (CASE line.is = "TRANSACTION" -> NoAim
               [] line.is = "ROLL BACK" -> aim
               [] OTHER -> [at |-> line.is, n |-> line.n])
  /\ victim' = (IF line.is = "ROLL BACK" THEN line.n ELSE victim)
  /\ UNCHANGED detected

\* The party of the target; a marker may name one there is none of.
Aimed == {k \in DOMAIN parties : parties[k].index = aim.n /\ aim.at # "none"}
First == CHOOSE k \in Aimed : \A o \in Aimed : k <= o

LockLine ==
  /\ InBody({"lock"}) /\ collecting' = FALSE
  /\ IF Aimed = {} THEN UNCHANGED parties
     ELSE IF aim.at = "HOLDS"
          THEN parties' = [parties EXCEPT ![First].holds = Append(@, line.says)]
          ELSE parties' = [parties EXCEPT ![First].waiting = <<line.says>>]
  /\ UNCHANGED <<detected, current, aim, victim>>

\* Before the first marker stands when it was detected.
TimeLine ==
  /\ InBody(Facts \cup {"text"}) /\ current = 0 /\ detected' = TRUE
  /\ UNCHANGED <<parties, current, aim, collecting, victim>>

\* A fact about the current party; its statement follows the thread.
FactLine ==
  /\ InBody(Facts) /\ current # 0
  /\ parties' = [parties EXCEPT ![current].facts = @ \cup {line.is}]
  /\ collecting' = (collecting \/ line.is = "thread")
  /\ UNCHANGED <<detected, current, aim, victim>>

\* A line of the statement, or of the bytes of a record.
TextLine ==
  /\ InBody({"text"}) /\ current # 0
  /\ parties' = IF collecting THEN [parties EXCEPT ![current].query = Append(@, line.says)]
                ELSE parties
  /\ UNCHANGED <<detected, current, aim, collecting, victim>>

DeadlockNext == Skip \/ Marker \/ LockLine \/ TimeLine \/ FactLine \/ TextLine

DeadlockSpec == DeadlockInit /\ [][DeadlockNext]_deadlockVars

-----------------------------------------------------------------------------

\* deadlock.rs:12 and README.md:239: both sides, each with its own statement,
\* locks and wait, and the victim.  Wherever the report is cut, what has been
\* read is of the right side and in the order of the report; a whole section is
\* read whole.
SideIsRead(p, s) ==
  /\ IsPrefix(p.query, s.query) /\ IsPrefix(p.holds, s.holds) /\ IsPrefix(p.waiting, <<s.waiting>>)
  /\ section = "over" =>
       p.facts = Facts /\ p.query = s.query /\ p.holds = s.holds /\ p.waiting = <<s.waiting>>
ReportIsRead ==
  /\ \A k \in DOMAIN parties : parties[k].index = k /\ SideIsRead(parties[k], truth.side[k])
  /\ victim \in {0, truth.victim}
  /\ section = "over" => detected /\ Len(parties) = 2 /\ victim = truth.victim
=============================================================================
