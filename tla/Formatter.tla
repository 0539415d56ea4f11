------------------------------- MODULE Formatter -------------------------------
(***************************************************************************)
(* The statement formatter, src/fmt_sql.rs: one step per round of the loop  *)
(* of format().  A statement is a sequence of tokens, one for each kind the *)
(* loop tells apart; what matters of the output is what stands before each  *)
(* token (nothing, a space, a new line) and whether a word was upper-cased, *)
(* as that decides what the text lexes back to.                            *)
(***************************************************************************)
EXTENDS Naturals, Integers, Sequences, FiniteSets, SequencesExt

CONSTANTS
  Inputs  \* bound: the statements

(* Words: heads of clauses, the word of a phrase, joins, and plain names.   *)
Reserved == {"select", "from", "group", "by", "join", "and", "case", "when"}
Words == Reserved \cup {"end", "offset", "name"}
Signs == {"-"}
Punct == {"(", ")", ",", ";", ".", "="} \cup Signs
Skipped == {"line comment"}  \* what the loop writes without looking back at it
Token == Words \cup Punct \cup {"literal", "line comment", "block comment"}

ASSUME InputsAssumption == \A s \in Inputs : s \in Seq(Token)

\* The heads and joins, longer phrases first where one begins like another.
TOP_LEVEL == << <<"group", "by">>, <<"select">>, <<"from">>, <<"offset">> >>
JOINS == << <<"join">> >>

VARIABLES
  toks,    \* the lexed statement
  i,       \* the next token
  text,    \* what is written: token, what stands before it, upper-cased or not
  indent, fresh,          \* Out
  parens, cases, clause,  \* the open parentheses and CASEs, and the clause
  prev,    \* prev_upper, prev_text, prev_kind: "" before the first token
  unary,   \* the last token was a sign
  table    \* prev_is_table

formatVars == <<toks, i, text, indent, fresh, parens, cases, clause, prev, unary, table>>

FormatInit ==
  /\ toks \in Inputs /\ i = 1 /\ text = <<>>
  /\ indent = 0 /\ fresh = FALSE
  /\ parens = <<>> /\ cases = <<>> /\ clause = "none"
  /\ prev = "" /\ unary = FALSE /\ table = FALSE

At(k) == IF k \in DOMAIN toks THEN toks[k] ELSE ""
tok == At(i)

-----------------------------------------------------------------------------
(* Matching.                                                               *)

match_phrase(k, p) == \A n \in DOMAIN p : At(k + n - 1) = p[n]
Matches(k, heads) == {n \in DOMAIN heads : match_phrase(k, heads[n])}
match_any(k, heads) == heads[CHOOSE n \in Matches(k, heads) : \A m \in Matches(k, heads) : n <= m]

\* What an identifier must follow, so that no word there is a head or a call.
BeforeNames == {"from", "join", "."}
ident_expected == prev \in BeforeNames
is_call == tok \in Words /\ At(i + 1) = "("

\* list_has_comma: a comma at the level of k, before the next head or end.
Depth(k, n) == Cardinality({m \in k..n : At(m) = "("}) - Cardinality({m \in k..n : At(m) = ")"})
EndsList(k, n) ==
  \/ At(n) = ";"
  \/ At(n) = ")" /\ Depth(k, n) < 0
  \/ At(n) \in Words /\ Depth(k, n) = 0 /\ Matches(n, TOP_LEVEL) \cup Matches(n, JOINS) # {}
list_has_comma(k) ==
  \E n \in k..Len(toks) : At(n) = "," /\ Depth(k, n) = 0 /\ \A m \in k..n : ~EndsList(k, m)

\* The indent clause heads go back to inside the innermost subquery.
Blocks == {n \in DOMAIN parens : parens[n].block}
base == IF Blocks = {} THEN 0
        ELSE parens[CHOOSE n \in Blocks : \A m \in Blocks : m <= n].indent + 1
Breakable == parens # <<>> => parens[Len(parens)].block

-----------------------------------------------------------------------------
(* Emitting.                                                               *)

\* Out::push, of a token on a line of its own if one is due.
Piece(line, t, space, upper) ==
  [tok |-> t, upper |-> upper,
   sep |-> IF text = <<>> THEN "none" ELSE IF line THEN "line" ELSE IF space THEN "space" ELSE "none"]
Push(line, space, upper) == text' = Append(text, Piece(line, tok, space, upper))

Advance ==
  /\ i' = i + 1 /\ prev' = tok /\ unary' = FALSE /\ table' = FALSE /\ UNCHANGED toks

\* Mutant: the end of a line comment is not the end of its line.
LineCommentGoesOn ==
  /\ tok = "line comment" /\ Push(fresh, TRUE, FALSE) /\ fresh' = FALSE /\ i' = i + 1
  /\ UNCHANGED <<toks, indent, parens, cases, clause, prev, unary, table>>

\* A line comment ends its line, and is not what the next token follows.
LineComment ==
  /\ tok = "line comment" /\ Push(fresh, TRUE, FALSE) /\ fresh' = TRUE /\ i' = i + 1
  /\ UNCHANGED <<toks, indent, parens, cases, clause, prev, unary, table>>

BlockComment ==
  /\ tok = "block comment" /\ Push(fresh, prev # "", FALSE) /\ fresh' = FALSE /\ Advance
  /\ UNCHANGED <<indent, parens, cases, clause>>

Semicolon ==
  /\ tok = ";" /\ Push(fresh, FALSE, FALSE) /\ fresh' = TRUE /\ Advance
  /\ indent' = 0 /\ parens' = <<>> /\ cases' = <<>> /\ clause' = "none"

Open ==
  LET block == At(i + 1) = "select"
      glued == prev \in Words \ Reserved /\ ~table
  IN /\ tok = "(" /\ Advance
     /\ Push(fresh, ~glued /\ prev \notin {"", "("} /\ ~unary, FALSE)
     /\ parens' = Append(parens, [indent |-> indent, block |-> block, clause |-> clause])
     /\ indent' = (IF block THEN indent + 1 ELSE indent) /\ fresh' = block
     /\ clause' = "none" /\ UNCHANGED cases

Close ==
  LET f == parens[Len(parens)]
  IN /\ tok = ")" /\ Advance /\ fresh' = FALSE /\ UNCHANGED cases
     /\ IF parens = <<>> THEN Push(fresh, FALSE, FALSE) /\ UNCHANGED <<parens, indent, clause>>
        ELSE /\ Push(fresh \/ f.block, FALSE, FALSE)
             /\ parens' = Front(parens) /\ indent' = f.indent /\ clause' = f.clause

Comma ==
  /\ tok = "," /\ Push(fresh, FALSE, FALSE) /\ Advance
  /\ fresh' = (Breakable /\ clause = "list")
  /\ UNCHANGED <<indent, parens, cases, clause>>

\* A word where no name is due may be the head of a clause or of a join.
Word == tok \in Words /\ ~ident_expected
IsHead == Word /\ Matches(i, TOP_LEVEL) # {}
IsJoin == Word /\ ~IsHead /\ Matches(i, JOINS) # {}

\* A phrase, upper-cased, on a line of its own.
Phrase(p) ==
  /\ text' = text \o [n \in DOMAIN p |-> IF n = 1 THEN Piece(TRUE, p[n], FALSE, TRUE)
                                         ELSE [tok |-> p[n], upper |-> TRUE, sep |-> "space"]]
  /\ i' = i + Len(p) /\ prev' = p[Len(p)] /\ unary' = FALSE /\ table' = FALSE
  /\ UNCHANGED <<toks, parens, cases>>

ClauseHead ==
  /\ IsHead
  /\ LET p == match_any(i, TOP_LEVEL)
         list == p[1] = "select" /\ list_has_comma(i + Len(p))
     IN /\ Phrase(p) /\ fresh' = list
        /\ indent' = (IF list THEN base + 1 ELSE base)
        /\ clause' = IF list THEN "list" ELSE "other"

JoinHead ==
  /\ IsJoin /\ Phrase(match_any(i, JOINS))
  /\ indent' = base + 1 /\ clause' = "other" /\ fresh' = FALSE

IsConnective == Word /\ tok = "and" /\ Breakable
Connective ==
  /\ IsConnective /\ Push(TRUE, FALSE, TRUE) /\ Advance
  /\ indent' = base + 1 /\ fresh' = FALSE /\ UNCHANGED <<parens, cases, clause>>

CaseHead ==
  LET body == IF indent > base + 1 THEN indent ELSE base + 1
  IN /\ Word /\ tok = "case" /\ Advance
     /\ Push(fresh, prev \notin {"", "(", "."} /\ ~unary, TRUE)
     /\ cases' = Append(cases, body) /\ indent' = body + 1
     /\ fresh' = FALSE /\ UNCHANGED <<parens, clause>>

IsWhen == Word /\ tok = "when" /\ cases # <<>>
When ==
  /\ IsWhen /\ Push(TRUE, FALSE, TRUE) /\ Advance
  /\ fresh' = FALSE /\ UNCHANGED <<indent, parens, cases, clause>>

IsEnd == Word /\ tok = "end" /\ cases # <<>>
CaseEnd ==
  /\ IsEnd /\ Push(TRUE, FALSE, TRUE) /\ Advance
  /\ indent' = cases[Len(cases)] /\ cases' = Front(cases)
  /\ fresh' = FALSE /\ UNCHANGED <<parens, clause>>

IsOrdinary ==
  /\ tok \notin {"", "line comment", "block comment", ";", "(", ")", ","}
  /\ ~(IsHead \/ IsJoin \/ IsConnective \/ IsWhen \/ IsEnd \/ (Word /\ tok = "case"))
TablePosition == tok \notin Punct /\ ident_expected

\* Mutant: a call is upper-cased wherever it stands.
RecasedAnywhere == tok \in Reserved \/ is_call

\* A reserved word, or a call that is no table with its columns.
Recased == tok \in Reserved \/ (is_call /\ ~TablePosition)

Ordinary ==
  /\ IsOrdinary
  /\ Push(fresh, ~(tok = "." \/ prev \in {".", "(", ""} \/ unary), Recased)
  /\ i' = i + 1 /\ prev' = tok /\ fresh' = FALSE /\ table' = TablePosition
  /\ unary' = (tok \in Signs /\ (prev \in {"", "(", ","} \/ (prev \in Punct /\ prev # ")")))
  /\ UNCHANGED <<toks, indent, parens, cases, clause>>

FormatNext ==
  \/ LineComment \/ BlockComment \/ Semicolon \/ Open \/ Close \/ Comma
  \/ ClauseHead \/ JoinHead \/ Connective \/ CaseHead \/ When \/ CaseEnd \/ Ordinary

FormatSpec == FormatInit /\ [][FormatNext]_formatVars

-----------------------------------------------------------------------------
(* The contract, fmt_sql.rs:3-5: whitespace and the case of words, nothing  *)
(* else; no token is added, dropped or moved.                              *)

Wordlike == Words \cup {"literal"}
Glued(n) == n \in DOMAIN text /\ text[n].sep = "none"

\* The pieces are the tokens so far, and lex back to them: nothing on the line
\* of a line comment follows it, words and literals stay apart, and two glued
\* signs in front of what they may sign do not begin a comment, which they do
\* unless it is glued to them.
Signed == {"name", "literal", "(", "case"} \cup Signs
GluedSigns(n) == text[n - 1].tok \in Signs /\ text[n].tok \in Signs /\ Glued(n)
TokensSurvive ==
  /\ [n \in DOMAIN text |-> text[n].tok] = SubSeq(toks, 1, i - 1)
  /\ \A n \in 2..Len(text) :
       /\ text[n - 1].tok = "line comment" => text[n].sep = "line"
       /\ {text[n - 1].tok, text[n].tok} \subseteq Wordlike => text[n].sep # "none"
       /\ n < Len(text) /\ GluedSigns(n) /\ text[n + 1].tok \in Signed => Glued(n + 1)

\* The same of whatever follows the signs, which the contract promises.  It does
\* not hold: in `(- - /* c */ 1)` the comment, and in `(- - offset)` the new line
\* of a head, stands apart from the signs, which begin a comment.
SignsBeginNoComment == \A n \in 2..Len(text) - 1 : GluedSigns(n) => Glued(n + 1)

\* The token before the n-th, those in `skipped` aside, is one of S.
Follows(n, S, skipped) ==
  \E m \in 1..n - 1 : At(m) \in S /\ \A k \in m + 1..n - 1 : At(k) \in skipped

\* README.md:340-341: "Only reserved words are upper-cased, plus a word sitting
\* directly in front of (", and fmt_sql.rs:260-265, which keeps the second off a
\* name that follows FROM, JOIN or a dot; line comments between the two do not
\* count, block comments do.  Two more words that are not reserved are upper-cased:
\* OFFSET, and the END of a CASE begun earlier in the same statement.
EndsCase(n) == At(n) = "end" /\ \E m \in 1..n - 1 : At(m) = "case" /\ \A k \in m..n : At(k) # ";"
MayChange(n) ==
  /\ At(n) \in Words /\ ~Follows(n, BeforeNames, Skipped)
  /\ At(n + 1) = "(" \/ At(n) = "offset" \/ EndsCase(n)
CaseIsKept == \A n \in DOMAIN text : text[n].upper => text[n].tok \in Reserved \/ MayChange(n)

\* README.md:344: "A table that happens to be called offset or count keeps its
\* case".  It does not hold: the code looks for a table directly after FROM and
\* JOIN only, and in `from t, offset` and `from /* c */ offset` takes the name
\* for the head of a clause (fmt_sql.rs:468).
Comments == Skipped \cup {"block comment"}
IsTable(n) ==
  /\ At(n) \in Words \ Reserved /\ Follows(n, {"from", "join", ",", "."}, Comments)
  /\ Follows(n, {"from", "join"}, Comments \cup {"name", ",", "."})
TablesKeepTheirCase == \A n \in DOMAIN text : IsTable(n) => ~text[n].upper

\* The same of the name of a table in front of its column.  It does not hold: in
\* `select offset.a` the table is taken for the clause.
QualifiersKeepTheirCase ==
  \A n \in DOMAIN text : text[n].tok \in Words \ Reserved /\ At(n + 1) = "." => ~text[n].upper
=============================================================================
