-------------------------------- MODULE Advisor --------------------------------
(***************************************************************************)
(* The index advisor, src/advisor.rs, and the composite indexes it proposes *)
(* from the workload, src/suggest.rs, for one table; the report of          *)
(* src/ui/index_advisor.rs; and the user, who runs its copied statements    *)
(* one after another, in any order, on the server.                         *)
(***************************************************************************)
EXTENDS Naturals, Sequences, FiniteSets, SequencesExt

CONSTANTS
  IndexNames,     \* names in their order, "PRIMARY" among them
  Keys,           \* column lists an index may have
  Statements,     \* what a digest may be, see Digest
  MaxDigests,     \* bound: statements of a workload
  MinExecutions,  \* MIN_EXEC_COUNT and MIN_SUGGEST_EXECUTIONS
  MinUptime       \* MIN_UPTIME_FOR_UNUSED_S

(* A digest: what its text parses to (joins, OR, subqueries and what is not *)
(* a SELECT do not parse), how often it ran and how often without an index. *)
Digest == [parses : BOOLEAN, preds : Seq([is : {"eq", "range", "wrapped"}, col : STRING]),
           order : Seq(STRING), count : Nat, noIndex : BOOLEAN]

VARIABLES
  indexes,      \* external: the indexes the table has
  workload,     \* App::top_sql
  unread,       \* AdvisorInput::usage: the names of indexes without a read
  uptime,       \* AdvisorInput::uptime_s
  findings,     \* App::advisor
  suggestions,  \* App::suggestions
  ran,          \* App::advisor_ran
  before,       \* history: the indexes the analysis saw
  applied       \* history: the kinds of advice that has been followed

advisorVars == <<indexes, workload, unread, uptime, findings, suggestions, ran, before, applied>>

\* A name is a sequence: a proposed index is named for its columns.
Primary == <<"PRIMARY">>
Unnamed == <<>>
Index(n, k, u) == [name |-> n, columns |-> k, unique |-> u]
Rank(n) == CHOOSE i \in DOMAIN IndexNames : IndexNames[i] = n

AdvisorInit ==
  /\ \E S \in SUBSET Range(IndexNames), key \in [Range(IndexNames) -> Keys], u \in SUBSET Range(IndexNames) :
       indexes = {Index(n, key[n], n = Primary \/ n \in u) : n \in S}
  /\ workload \in {w \in SUBSET Statements : Cardinality(w) <= MaxDigests}
  /\ \/ uptime = 0 /\ unread = {i.name : i \in indexes}
     \/ uptime = MinUptime /\ \E n \in Range(IndexNames) : unread = {i.name : i \in indexes} \ {n}
  /\ findings = {} /\ suggestions = {} /\ ran = FALSE
  /\ before = indexes /\ applied = {}

-----------------------------------------------------------------------------
(* suggest()                                                               *)

PushColumn(s, c) == IF c \in Range(s) THEN s ELSE Append(s, c)

\* parse_predicates: equality columns, and the first range column that is not
\* one of them so far; a wrapped column can use no index.
Shape(d) ==
  FoldLeft(LAMBDA sh, p :
             CASE p.is = "eq" -> [sh EXCEPT !.equality = PushColumn(@, p.col)]
               [] p.is = "range" /\ sh.range = <<>> /\ p.col \notin Range(sh.equality)
                    -> [sh EXCEPT !.range = <<p.col>>]
               [] OTHER -> sh,
           [equality |-> <<>>, range |-> <<>>], d.preds)

\* candidate_index: equality, then one range column or else the order.
Candidate(d) ==
  LET sh == Shape(d)
  IN FoldLeft(PushColumn, sh.equality, IF sh.range # <<>> THEN sh.range ELSE d.order)

ASSUME AdvisorAssumption ==
  /\ IndexNames \in Seq(Seq(STRING) \ {<<>>}) /\ Keys \subseteq Seq(STRING)
  /\ MinExecutions \in Nat /\ MinUptime \in Nat /\ MaxDigests \in Nat
  /\ \A d \in Statements : /\ d.count \in Nat /\ d.parses \in BOOLEAN /\ d.noIndex \in BOOLEAN
                            /\ Candidate(d) \in Seq(STRING)

\* Mutant: an index extends the proposal when its columns are among the
\* proposal's, in whatever order.
ExtendableInAnyOrder(c) == {ix \in indexes : Len(ix.columns) < Len(c) /\ Range(ix.columns) \subseteq Range(c)}

CoveredBy(ix, c) == IsPrefix(c, ix.columns)
Extendable(c) == {ix \in indexes : Len(ix.columns) < Len(c) /\ IsPrefix(ix.columns, c)}

\* One proposal for each candidate nothing serves; digests merge.
Suggest ==
  {LET e == Extendable(c)
   IN [columns |-> c,
       extends |-> IF e = {} THEN Unnamed ELSE
                   (CHOOSE i \in e : \A o \in e : Rank(i.name) <= Rank(o.name)).name]
   : c \in {c \in {Candidate(d) : d \in {d \in workload : d.count >= MinExecutions /\ d.parses}} :
              c # <<>> /\ \A ix \in indexes : ~CoveredBy(ix, c)}}

-----------------------------------------------------------------------------
(* analyze()                                                               *)

Finding(sev, kind, about, drop) == [severity |-> sev, kind |-> kind, object |-> about, drop |-> drop]

\* Mutant: of two identical indexes each is the other's duplicate.
RedundantBothWays(a, b) ==
  /\ a.name # Primary /\ a.name # b.name
  /\ IsPrefix(a.columns, b.columns)
  /\ a.unique => b.unique

\* redundant_indexes: b starts with the columns of a.
Redundant(a, b) ==
  /\ a.name # Primary /\ a.name # b.name
  /\ IsPrefix(a.columns, b.columns)
  /\ ~(Len(a.columns) = Len(b.columns) /\ Rank(a.name) > Rank(b.name))
  /\ a.unique => b.unique

\* The first b that makes a redundant gives the finding its kind.
RedundantIndexes ==
  {LET b == CHOOSE b \in indexes : Redundant(a, b)
                    /\ \A c \in indexes : Redundant(a, c) => Rank(b.name) <= Rank(c.name)
   IN IF Len(a.columns) = Len(b.columns)
      THEN Finding("high", "duplicate index", a.name, TRUE)
      ELSE Finding("warn", "redundant index", a.name, TRUE)
   : a \in {a \in indexes : \E b \in indexes : Redundant(a, b)}}

UnusedIndexes ==
  IF uptime < MinUptime THEN {}
  ELSE {Finding("warn", "unused index", i.name, TRUE)
        : i \in {i \in indexes : i.name \in unread /\ i.name # Primary /\ ~i.unique}}

\* What tells of a statement or of the table, and has no remedy to copy.
StatementFindings ==
  LET often == {d \in workload : d.count >= MinExecutions}
  IN {Finding("high", "statement without index", Candidate(d), FALSE) : d \in {d \in often : d.noIndex}}
     \cup {Finding("warn", "function on column", Candidate(d), FALSE)
           : d \in {d \in often : d.parses /\ \E i \in DOMAIN d.preds : d.preds[i].is = "wrapped"}}
MissingPk ==
  IF \E i \in indexes : i.name = Primary THEN {}
  ELSE {Finding("warn", "no primary key", Unnamed, FALSE)}

Analyze == RedundantIndexes \cup UnusedIndexes \cup MissingPk \cup StatementFindings

-----------------------------------------------------------------------------
(* The report and its reader.                                              *)

\* "Run analysis", its answer, on_advisor.
RunAnalysis ==
  /\ ~ran /\ ran' = TRUE
  /\ findings' = Analyze /\ suggestions' = Suggest /\ before' = indexes
  /\ UNCHANGED <<indexes, workload, unread, uptime, applied>>

\* External: DROP INDEX of a finding.  One that is gone already fails.
ApplyFinding(f) ==
  /\ f.drop /\ f.object \in {i.name : i \in indexes}
  /\ indexes' = {i \in indexes : i.name # f.object}
  /\ applied' = applied \cup {f.kind}
  /\ UNCHANGED <<workload, unread, uptime, findings, suggestions, ran, before>>

\* External: the DDL of a suggestion; the DROP INDEX and the ADD INDEX are
\* one ALTER TABLE, and fail together.
ApplySuggestion(s) ==
  /\ s.columns \notin {i.name : i \in indexes}
  /\ s.extends # Unnamed => s.extends \in {i.name : i \in indexes}
  /\ indexes' = {i \in indexes : i.name # s.extends} \cup {Index(s.columns, s.columns, FALSE)}
  /\ applied' = applied \cup {"suggestion"}
  /\ UNCHANGED <<workload, unread, uptime, findings, suggestions, ran, before>>

AdvisorNext ==
  \/ RunAnalysis
  \/ \E f \in findings : ApplyFinding(f)
  \/ \E s \in suggestions : ApplySuggestion(s)

AdvisorSpec == AdvisorInit /\ [][AdvisorNext]_advisorVars

-----------------------------------------------------------------------------
(* Advice may be followed piece by piece, in any order.                    *)

\* Following any of it, dropping unused indexes aside, leaves every lookup
\* that an index served before served by one: of a set of duplicates, or of a
\* chain of prefixes, or of an index that is extended and dropped, one is left.
AdviceKeepsLookups ==
  "unused index" \notin applied =>
    \A i \in before : \E j \in indexes : IsPrefix(i.columns, j.columns)

\* advisor.rs:34: "Copy-pasteable remediation, when there is a safe one"; and
\* advisor.rs:84, of a unique index: "it also enforces a constraint".  Whatever
\* columns were unique together still are.
ConstraintsSurvive ==
  \A i \in before : i.unique => \E j \in indexes : j.unique /\ Range(j.columns) \subseteq Range(i.columns)
=============================================================================
