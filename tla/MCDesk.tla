-------------------------------- MODULE MCDesk --------------------------------
(***************************************************************************)
(* Instances for TLC of the six parts that share no state with each other:  *)
(* the alert engine, the profiles, one dump, the index advisor, the         *)
(* statement formatter and the deadlock report.  One run looks at them all: *)
(* each behaviour is one of `Parts`, with the variables of the others at    *)
(* rest.                                                                   *)
(***************************************************************************)
EXTENDS Alerts, Profiles, Dump, Advisor, Formatter, Deadlock

CONSTANTS Parts

VARIABLE part

(* Dump: two tables, or a table and a view of it; row 3 fills a batch alone. *)
TheTables == <<"a", "b">>
NoViews == [v \in {} |-> ""]
OneView == [v \in {"b"} |-> "a"]
Weights == [r \in RowIds |-> IF r = 3 THEN 3 ELSE 1]

(* Advisor: every set of up to three indexes over two columns.              *)
TheIndexNames == <<<<"PRIMARY">>, <<"a">>, <<"b">>>>
TheKeys == {<<"x">>, <<"y">>, <<"x", "y">>, <<"y", "x">>}
P(k, c) == [is |-> k, col |-> c]
D(ps, o, n) == [parses |-> TRUE, preds |-> ps, order |-> o, count |-> n, noIndex |-> n = 2]
TheStatements ==
  { D(<<P("eq", "x")>>, <<>>, 1),
    D(<<P("eq", "x"), P("range", "y")>>, <<>>, 2),
    D(<<P("range", "y"), P("eq", "x")>>, <<"z">>, 2),
    D(<<P("eq", "y")>>, <<"x">>, 2),
    D(<<P("range", "x"), P("range", "y")>>, <<>>, 1),
    D(<<P("wrapped", "x"), P("eq", "y")>>, <<"z">>, 2),
    D(<<>>, <<"x", "z">>, 2),
    [D(<<P("eq", "x")>>, <<>>, 2) EXCEPT !.parses = FALSE] }

(* Formatter: every three tokens after one of four beginnings.              *)
TheInputs ==
  {p \o e : p \in {<<>>, <<"select", "name">>, <<"(">>, <<"from">>},
            e \in UNION {[1..n -> Token] : n \in 1..3}}

(* Deadlock: statements of no, one and two lines.                           *)
TheQueries == {<<>>, <<"q1">>, <<"q1", "q2">>}

-----------------------------------------------------------------------------

ProfilesAtRest ==
  /\ items = <<>> /\ lastUsed = NoName /\ file = Nobody
  /\ ring = [a \in Accounts |-> NoEntry] /\ oldRing = ring
  /\ name = NoName /\ target = (CHOOSE h \in Targets : TRUE) /\ password = Empty
  /\ title = NoName /\ remember = FALSE /\ acts = 0
  /\ filed = [a \in Accounts |-> {}] /\ given = Nothing

DumpAtRest ==
  /\ pc = "idle" /\ spec = NoSpec /\ tables = <<>> /\ idx = 1 /\ left = {} /\ batch = <<>>
  /\ server = [r \in RowIds |-> "a"] /\ snap = server /\ moments = {server}
  /\ out = <<>> /\ client = Before(spec) /\ stats = [tables |-> 0, rows |-> 0, cancelled |-> FALSE]
  /\ cancel = FALSE /\ result = "none"

AdvisorAtRest ==
  /\ indexes = {} /\ workload = {} /\ unread = {} /\ uptime = 0
  /\ findings = {} /\ suggestions = {} /\ ran = FALSE /\ before = {} /\ applied = {}

FormatAtRest ==
  /\ toks = <<>> /\ i = 1 /\ text = <<>> /\ indent = 0 /\ fresh = FALSE
  /\ parens = <<>> /\ cases = <<>> /\ clause = "none"
  /\ prev = "" /\ unary = FALSE /\ table = FALSE

DeadlockAtRest ==
  /\ truth = [side |-> <<>>, victim |-> 0] /\ lines = <<>> /\ ln = 1 /\ section = "before"
  /\ detected = FALSE /\ parties = <<>> /\ current = 0
  /\ aim = NoAim /\ collecting = FALSE /\ victim = 0

DeskInit ==
  /\ part \in Parts
  /\ AlertsInit
  /\ IF part = "profiles" THEN ProfilesInit ELSE ProfilesAtRest
  /\ IF part = "dump" THEN DumpInit ELSE DumpAtRest
  /\ IF part = "advisor" THEN AdvisorInit ELSE AdvisorAtRest
  /\ IF part = "format" THEN FormatInit ELSE FormatAtRest
  /\ IF part = "deadlock" THEN DeadlockInit ELSE DeadlockAtRest

DeskNext ==
  /\ UNCHANGED part
  /\ \/ /\ part = "alerts" /\ AlertsNext
        /\ UNCHANGED <<profileVars, dumpVars, advisorVars, formatVars, deadlockVars>>
     \/ /\ part = "profiles" /\ ProfilesNext
        /\ UNCHANGED <<alertVars, dumpVars, advisorVars, formatVars, deadlockVars>>
     \/ /\ part = "dump" /\ DumpNext
        /\ UNCHANGED <<alertVars, profileVars, advisorVars, formatVars, deadlockVars>>
     \/ /\ part = "advisor" /\ AdvisorNext
        /\ UNCHANGED <<alertVars, profileVars, dumpVars, formatVars, deadlockVars>>
     \/ /\ part = "format" /\ FormatNext
        /\ UNCHANGED <<alertVars, profileVars, dumpVars, advisorVars, deadlockVars>>
     \/ /\ part = "deadlock" /\ DeadlockNext
        /\ UNCHANGED <<alertVars, profileVars, dumpVars, advisorVars, formatVars>>

DeskSpec ==
  DeskInit /\ [][DeskNext]_<<part, alertVars, profileVars, dumpVars, advisorVars, formatVars,
                             deadlockVars>>
=============================================================================
