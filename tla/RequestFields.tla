---------------------------- MODULE RequestFields ---------------------------
(***************************************************************************)
(* The named values of a request (src/src/sw_server.c): the variables of a *)
(* query or form (sw_http_get_query, sw_http_get_form), the cookies of a   *)
(* Cookie header (sw_http_get_cookie), and the parameters of a part's      *)
(* Content-Disposition (sw_parse_disposition_param).                       *)
(*                                                                         *)
(* A client writes a list of fields; the program asks for one by its name. *)
(* A field is [name, style, value]: a value is a sequence of tokens, each  *)
(* a text that stands for a symbol, and its style says how it is written.  *)
(***************************************************************************)
EXTENDS Texts

CONSTANTS
  Names,           \* the names of fields
  UrlTokens,       \* how the symbols of a variable's value are written
  PlainTokens,     \* the symbols of a cookie's value that need no quotes
  QuotedTokens,    \* the symbols between quotes
  MaxFields, MaxTokens,   \* bounds
  ValueCap         \* the size of the buffer the program gives

VARIABLES
  kind,            \* "url", "cookie" or "disposition"
  fields           \* the fields written so far

vars == <<kind, fields>>

Blank == {" "}
Text(value) == FlattenSeq([i \in DOMAIN value |-> value[i].text])
Meaning(value) == [i \in DOMAIN value |-> value[i].means]
Cut(text) == SubSeq(text, 1, Min({Len(text), ValueCap - 1}))

\* What the program is given of a variable or cookie that is not there: the
\* length 0, as of an empty one.
Absent == <<>>

\* t up to the first symbol of S.
Until(t, S) == Leading(t, {t[i] : i \in DOMAIN t} \ S)

-----------------------------------------------------------------------------
(* Variables: sw_http_query_string and sw_http_decode_var.                  *)

\* What follows the first "?" of a URI, up to a "#".
Query(uri) == Until(From(uri, FirstAt(<<"?">>, uri, 1) + 1), {"#"})

Hex == {"2", "6", "0"}
Escaped(hi, lo) == CASE <<hi, lo>> = <<"2", "6">> -> "&" [] <<hi, lo>> = <<"2", "0">> -> " " [] OTHER -> "?"

\* Mutant: an escape at the very end of its pair is not seen.
EscapeEarly(t) == Len(t) > 3 /\ {t[2], t[3]} \subseteq Hex
EscapeAhead(t) == Len(t) >= 3 /\ {t[2], t[3]} \subseteq Hex

RECURSIVE Decoded(_)
Decoded(t) ==
  CASE t = <<>> -> <<>>
    [] t # <<>> /\ Head(t) = "+" -> <<" ">> \o Decoded(Tail(t))
    [] t # <<>> /\ Head(t) = "%" /\ EscapeAhead(t) -> <<Escaped(t[2], t[3])>> \o Decoded(From(t, 4))
    [] OTHER -> <<Head(t)>> \o Decoded(Tail(t))

\* The first pair with an equals sign and the name before it decides.
DecodeVar(source, name) ==
  LET pairs == SelectSeq(Pieces(source, {"&"}), LAMBDA p : "=" \in ToSet(p) /\ Until(p, {"="}) = name)
  IN  IF pairs = <<>> THEN Absent ELSE Cut(Decoded(From(pairs[1], Len(name) + 2)))

-----------------------------------------------------------------------------
(* Cookies: sw_http_get_cookie and sw_http_copy_cookie_value.               *)

\* What is between quotes: up to the quote that ends it, or to the end.
RECURSIVE Quoted(_)
Quoted(t) ==
  CASE t = <<>> -> <<>>
    [] t # <<>> /\ Head(t) = "\"" -> <<"\"">>
    [] t # <<>> /\ Head(t) = "\\" /\ Len(t) > 1 -> SubSeq(t, 1, 2) \o Quoted(From(t, 3))
    [] OTHER -> <<Head(t)>> \o Quoted(Tail(t))

\* Mutant: a semicolon ends a value even between quotes.
ValueUnquoted(t) == Trimmed(Until(t, {";"}), Blank)
Value(t) == IF t # <<>> /\ Head(t) = "\"" THEN <<"\"">> \o Quoted(Tail(t))
            ELSE Trimmed(Until(t, {";"}), Blank)

RECURSIVE Unescaped(_)
Unescaped(t) ==
  CASE t = <<>> -> <<>>
    [] t # <<>> /\ Head(t) = "\\" /\ Len(t) > 1 -> <<t[2]>> \o Unescaped(From(t, 3))
    [] OTHER -> <<Head(t)>> \o Unescaped(Tail(t))

CookieValue(v) ==
  IF Len(v) >= 2 /\ Head(v) = "\"" /\ Last(v) = "\"" THEN Cut(Unescaped(SubSeq(v, 2, Len(v) - 1)))
  ELSE Cut(v)

\* Blanks and separators are passed over, then a name is read up to "=", and
\* what follows a value is passed over up to the next ";".
NextName(t) == From(t, Len(Leading(t, Blank \cup {";"})) + 1)
SkipBlank(t) == From(t, Len(Leading(t, Blank)) + 1)
NextField(t) == From(t, Len(Until(t, {";"})) + 1)
Key(t) == Trimmed(Until(t, {"=", ";"}), Blank)
Rest(t) == From(t, Len(Until(t, {"=", ";"})) + 1)

RECURSIVE GetCookie(_, _)
GetCookie(header, name) ==
  LET t == NextName(header)
      rest == SkipBlank(Tail(Rest(t)))
  IN  CASE t = <<>> -> Absent
        [] t # <<>> /\ (Rest(t) = <<>> \/ Head(Rest(t)) = ";") -> GetCookie(Rest(t), name)
        [] OTHER -> IF Key(t) = name THEN CookieValue(Value(rest))
                    ELSE GetCookie(NextField(From(rest, Len(Value(rest)) + 1)), name)

-----------------------------------------------------------------------------
(* Parameters: sw_parse_disposition_param.  A quoted value ends before its  *)
(* quote and keeps its backslashes.                                         *)

None == [found |-> FALSE, value |-> <<>>]
Found(value) == [found |-> TRUE, value |-> value]

Inside(t) == LET q == Quoted(Tail(t)) IN IF q # <<>> /\ Last(q) = "\"" THEN Front(q) ELSE q

\* Mutant: the next parameter is looked for from the start of a value.
AfterValueStart(t) == t
AfterValue(t) == IF t # <<>> /\ Head(t) = "\"" THEN From(t, Len(Inside(t)) + 2)
                 ELSE From(t, Len(Until(t, {";"})) + 1)

RECURSIVE DispositionParam(_, _)
DispositionParam(line, key) ==
  LET t == NextName(line)
      rest == SkipBlank(Tail(Rest(t)))
      value == IF rest # <<>> /\ Head(rest) = "\"" THEN Inside(rest) ELSE Until(rest, {";"})
  IN  CASE t = <<>> -> None
        [] t # <<>> /\ (Rest(t) = <<>> \/ Head(Rest(t)) = ";") -> DispositionParam(Rest(t), key)
        [] OTHER -> IF Key(t) = key THEN Found(Trimmed(value, Blank))
                    ELSE DispositionParam(NextField(AfterValue(rest)), key)

-----------------------------------------------------------------------------
(* What clients write.                                                      *)

Quote(text) == <<"\"">> \o text \o <<"\"">>
Field(f) == f.name \o (CASE f.style = "bare" -> <<>>
                         [] f.style = "plain" -> <<"=">> \o Text(f.value)
                         [] f.style = "spaced" -> <<" ", "=", " ">> \o Text(f.value) \o <<" ">>
                         [] OTHER -> <<"=">> \o Quote(Text(f.value)))

\* The fields with "sep" between them.
Listed(sep) == FlattenSeq([i \in DOMAIN fields |-> (IF i = 1 THEN <<>> ELSE sep) \o Field(fields[i])])

Values(tokens) == BoundedSeq(tokens, MaxTokens)

\* A cookie that sw_http_set_cookie accepts (sw_cookie_value_is_valid) has a
\* plain value.
NewField ==
  CASE kind = "url" -> [name : Names, style : {"bare", "plain"}, value : Values(UrlTokens)]
    [] kind = "cookie" ->
         [name : Names, style : {"bare", "plain", "spaced"}, value : Values(PlainTokens)]
           \cup [name : Names, style : {"quoted"}, value : Values(QuotedTokens)]
    [] OTHER -> [name : Names, style : {"plain", "spaced"}, value : Values(PlainTokens)]
                  \cup [name : Names, style : {"quoted"}, value : Values(QuotedTokens)]

Init ==
  /\ kind \in {"url", "cookie", "disposition"}
  /\ fields = <<>>

Write ==
  /\ Len(fields) < MaxFields
  /\ \E f \in NewField : fields' = Append(fields, f)
  /\ UNCHANGED kind

Next == Write

Spec == Init /\ [][Next]_vars

-----------------------------------------------------------------------------
(* What the program is given.                                               *)

\* The first field with the name, if it has a value.
Named(name) == SelectSeq(fields, LAMBDA f : f.name = name /\ f.style # "bare")
Expected(name) == IF Named(name) = <<>> THEN Absent ELSE Cut(Meaning(Named(name)[1].value))

\* Whatever else is in the query or form, before or after it, a variable has
\* the value its sender gave it, cut to the buffer.
VariablesExact ==
  kind = "url" =>
    LET uri == <<"/", "?">> \o Listed(<<"&">>) \o <<"#", "=">>
    IN  \A n \in Names : DecodeVar(Query(uri), n) = Expected(n)

\* A cookie has the value it was set to, quoted or not, whatever is written in
\* the values of the others.
CookiesExact ==
  kind = "cookie" => \A n \in Names : GetCookie(Listed(<<";", " ">>), n) = Expected(n)

\* A part's name and file name are those its sender gave, whatever is between
\* the quotes of the other; backslashes are kept.
ParamsExact ==
  kind = "disposition" =>
    \A n \in Names :
      DispositionParam(<<" ", "d", ";">> \o Listed(<<";", " ">>), n) =
        IF Named(n) = <<>> THEN None ELSE Found(Text(Named(n)[1].value))

\* What a handler reads of a request's variables, cookies and part headers is
\* what the sender wrote, whatever stands before, after or between.
FieldsExact == VariablesExact /\ CookiesExact /\ ParamsExact
=============================================================================
