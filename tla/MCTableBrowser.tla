--------------------------- MODULE MCTableBrowser ---------------------------
(* Instances of TableBrowser for TLC: the tables of schema s1 have their    *)
(* key in column "a", which those of s2 have too, but not as their key.     *)
EXTENDS TableBrowser

CONSTANTS s1, s2

TheCols == [t \in Table |-> {"a", "b"}]
ThePk == [t \in Table |-> IF t[1] = s1 THEN {"a"} ELSE {"b"}]
=============================================================================
