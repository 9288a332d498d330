------------------------------ MODULE SqlText -------------------------------
(***************************************************************************)
(* sw_pg_rewrite_sql (src/src/sw_db_postgres.c): the programs' statements  *)
(* have "?" where a parameter stands, postgres wants "$1", "$2"; a "?"     *)
(* inside a string, a name, a comment or a quoted body is no parameter.    *)
(*                                                                         *)
(* A statement is written unit by unit, so that what is a parameter is     *)
(* known without reading the text.                                         *)
(***************************************************************************)
EXTENDS Texts, TLC

CONSTANTS
  Units,           \* what statements are made of: [text, parameter]
  MaxUnits         \* bound

VARIABLE units     \* the statement

vars == units

Letters == {"a", "E"}
Alnum == Letters \cup {"1"}

At(t, i) == IF i \in DOMAIN t THEN t[i] ELSE "NUL"

-----------------------------------------------------------------------------
(* The scanner.  Each operator gives the position after what it skips.      *)

\* Within quotes, two of them stand for one; in an escape string a backslash
\* takes the next symbol with it.  A quote that is never closed goes to the end.
\* Mutant: a backslash does so in every string and name.
RECURSIVE QuoteEndNaive(_, _, _, _)
QuoteEndNaive(t, i, quote, escapes) ==
  CASE i > Len(t) -> i
    [] At(t, i) = "\\" /\ i < Len(t) -> QuoteEndNaive(t, i + 2, quote, escapes)
    [] At(t, i) = quote /\ At(t, i + 1) = quote -> QuoteEndNaive(t, i + 2, quote, escapes)
    [] At(t, i) = quote /\ At(t, i + 1) # quote -> i + 1
    [] OTHER -> QuoteEndNaive(t, i + 1, quote, escapes)
RECURSIVE QuoteEnd(_, _, _, _)
QuoteEnd(t, i, quote, escapes) ==
  CASE i > Len(t) -> i
    [] escapes /\ At(t, i) = "\\" /\ i < Len(t) -> QuoteEnd(t, i + 2, quote, escapes)
    [] At(t, i) = quote /\ At(t, i + 1) = quote -> QuoteEnd(t, i + 2, quote, escapes)
    [] At(t, i) = quote /\ At(t, i + 1) # quote -> i + 1
    [] OTHER -> QuoteEnd(t, i + 1, quote, escapes)

\* sw_pg_copy_until
Until(t, i, mark) ==
  IF FirstAt(mark, t, i) = 0 THEN Len(t) + 1 ELSE FirstAt(mark, t, i) + Len(mark)

LineEnd(t, i) == IF FirstAt(<<"NL">>, t, i) = 0 THEN Len(t) + 1 ELSE FirstAt(<<"NL">>, t, i)

\* sw_pg_dollar_quote_len: "$$", or "$" and a name and "$".
DollarQuote(t, i) ==
  LET name == Leading(From(t, i + 1), Alnum)
      closed == At(t, i + 1 + Len(name)) = "$"
  IN  IF closed /\ (name = <<>> \/ name[1] \in Letters) THEN <<"$">> \o name \o <<"$">> ELSE <<>>

\* Where what begins at i and is copied as it is ends.
Copied(t, i) ==
  CASE t[i] = "'" -> QuoteEnd(t, i + 1, "'", FALSE)
    [] t[i] = "E" /\ At(t, i + 1) = "'" -> QuoteEnd(t, i + 2, "'", TRUE)
    [] t[i] = "\"" -> QuoteEnd(t, i + 1, "\"", FALSE)
    [] t[i] = "-" /\ At(t, i + 1) = "-" -> LineEnd(t, i + 2)
    [] t[i] = "/" /\ At(t, i + 1) = "*" -> Until(t, i + 2, <<"*", "/">>)
    [] t[i] = "$" /\ DollarQuote(t, i) # <<>> ->
         Until(t, i + Len(DollarQuote(t, i)), DollarQuote(t, i))
    [] OTHER -> i + 1

Parameter(n) == <<"$", ToString(n)>>

RECURSIVE Rewritten(_, _, _)
Rewritten(t, i, params) ==
  CASE i > Len(t) -> [sql |-> <<>>, params |-> params]
    [] i <= Len(t) /\ At(t, i) = "?" ->
         LET rest == Rewritten(t, i + 1, params + 1)
         IN  [rest EXCEPT !.sql = Parameter(params + 1) \o @]
    [] OTHER -> LET rest == Rewritten(t, Copied(t, i), params)
                IN  [rest EXCEPT !.sql = SubSeq(t, i, Copied(t, i) - 1) \o @]

RewriteSql(t) == Rewritten(t, 1, 0)

-----------------------------------------------------------------------------
Init == units = <<>>

Write ==
  /\ Len(units) < MaxUnits
  /\ \E u \in Units : units' = Append(units, u)

Next == Write

Spec == Init /\ [][Next]_vars

-----------------------------------------------------------------------------
\* The rewritten statement is the one that was written with its parameters, and
\* nothing else, numbered from left to right, and their number is as many.
StatementText ==
  LET params(n) == Cardinality({i \in 1 .. n : units[i].parameter})
      text(Form(_)) == FlattenSeq([i \in DOMAIN units |-> Form(i) \o <<" ">>])
      Given(i) == units[i].text
      Numbered(i) == IF units[i].parameter THEN Parameter(params(i)) ELSE units[i].text
  IN  RewriteSql(text(Given)) = [sql |-> text(Numbered), params |-> params(Len(units))]
=============================================================================
