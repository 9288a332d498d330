---------------------------- MODULE MCRequests ------------------------------
(***************************************************************************)
(* The readers of what clients send, each on its own: a behaviour is one   *)
(* of RequestFraming, RequestPath, RequestFields or MultipartUpload.       *)
(***************************************************************************)
EXTENDS MultipartUpload, TLC

VARIABLES
  reader,                                        \* which of them
  request, text, arrived, answer,                \* RequestFraming
  root, tokens,                                  \* RequestPath
  kind, fields                                   \* RequestFields

framingVars == <<request, text, arrived, answer>>
pathVars == <<root, tokens>>
fieldVars == <<kind, fields>>

Token(t, m) == [text |-> t, means |-> m]
Symbol(c) == Token(<<c>>, c)
Words(S, n) == BoundedSeq(S, n)

-----------------------------------------------------------------------------
(* Requests: heads of up to two headers, right and wrong, below request     *)
(* lines right and wrong, with bodies; and                                  *)
(* chunked bodies whose chunks hold what looks like their frame, whose      *)
(* sizes are odd, wrong or too large, and with trailers up to the limit.    *)

CONSTANTS Radix, SizeMax, MaxHeader, MaxHeaders, MaxBody, MaxRead, StreamThreshold

GET == <<"GET", " ", " ">>
HeaderLines == {<<"H">>, <<"?">>, <<":">>, <<"MP">>, <<"CL">>, <<"CL", "x">>, <<"CL", " ", "2", " ">>,
                <<"CL", "1">>, <<"CL", "2">>, <<"CL", "0">>, <<"CL", "1", "2">>,
                <<"CL", "1", "0", "0", "1">>, <<"TE", "chunked">>, <<"TE", "gzip">>}
Plain(lines, b) == [head |-> <<GET>> \o lines, chunked |-> FALSE, body |-> b,
                    chunks |-> <<>>, trailer |-> <<>>]
Chunked(lines, cs, t) == [head |-> <<GET, <<"TE", "chunked">>>> \o lines, chunked |-> TRUE,
                          body |-> <<>>, chunks |-> cs, trailer |-> t]
Chunk(z, e, d) == [size |-> z, ext |-> e, data |-> d]

Data == Words({"CR", "LF", "0", "x"}, 2) \ {<<>>}
RightChunks == {Chunk(IF Len(d) = 1 THEN <<"1">> ELSE <<"2">>, <<>>, d) : d \in Data}
OddChunks == {Chunk(<<"0", "0", "1">>, <<" ", ";", "x">>, <<"x">>), Chunk(<<"1">>, <<"x">>, <<"x">>),
              Chunk(<<"1", "0", "0", "0">>, <<>>, <<>>), Chunk(<<"1", "0", "0", "1">>, <<>>, <<"x">>),
              Chunk(<<>>, <<>>, <<"x">>), Chunk(<<"2">>, <<>>, <<"x">>), Chunk(<<"1">>, <<>>, <<"x", "x">>),
              Chunk(<<"1", "2">>, <<>>, <<"x", "x", "x", "x", "x", "x">>)}
TrailerLine(n) == [i \in 1 .. n |-> "x"] \o CRLF

AllRequests ==
  {Plain(h, b) : h \in Words(HeaderLines, 2), b \in {<<>>, <<"x">>, <<"CR", "LF">>}}
    \cup {Plain(<<<<"H">>, <<"H">>, <<"H">>>>, <<>>), Plain(<<<<"MP">>, <<"CL", "3">>>>, <<"x", "x", "x">>)}
    \cup {[Plain(h, <<>>) EXCEPT !.head[1] = l] :
            h \in {<<>>, <<<<"H">>>>}, l \in {<<"GET">>, <<"GET", " ">>, <<"GET", " ", " ", " ">>}}
    \cup {Chunked(<<>>, <<c>>, <<>>) : c \in RightChunks \cup OddChunks}
    \cup {Chunked(<<>>, <<c, Chunk(<<"1">>, <<>>, <<"CR">>)>>, <<>>) : c \in RightChunks \cup OddChunks}
    \cup {Chunked(<<>>, <<>>, TrailerLine(n)) : n \in 1 .. MaxHeader + 2}
    \cup {Chunked(<<<<"CL", "2">>>>, <<>>, <<>>)}
AllFollowing == {<<>>, <<"CR">>, GET \o CRLF \o CRLF}

Framing == INSTANCE RequestFraming WITH Requests <- AllRequests, Following <- AllFollowing

-----------------------------------------------------------------------------
(* Paths: every text of up to MaxPath tokens.  In the docroot are a file, a *)
(* hidden one, a directory with a file, and links to a file inside and to   *)
(* one outside whose name begins like the docroot's; below the other        *)
(* docroot a file in a directory, and names that climb out of directories.  *)

CONSTANTS MaxPath, PathCap

PathTokens == {Symbol(c) : c \in {"/", "\\", ".", "g", "l", "?"}}
                \cup {Token(<<"%", "2", "e">>, "."), Token(<<"%", "2", "f">>, "/"),
                      Token(<<"%", "0", "0">>, "NUL"), Token(<<"%">>, "NUL")}
InRoot(s) == <<"/", "r", "/">> \o s
AllTree == (InRoot(<<"g">>) :> InRoot(<<"g">>))
             @@ (InRoot(<<".", "g">>) :> InRoot(<<".", "g">>))
             @@ (InRoot(<<"g", "g">>) :> InRoot(<<"g", "g">>))
             @@ (InRoot(<<"g", "g", "/", "g">>) :> InRoot(<<"g", "g", "/", "g">>))
             @@ (InRoot(<<"g", "l">>) :> InRoot(<<"g">>))
             @@ (InRoot(<<"l">>) :> <<"/", "r", "l">>)
             @@ (<<"/", "r", "l">> :> <<"/", "r", "l">>)
             @@ (<<"/", "g">> :> <<"/", "g">>)
             @@ (<<"/", "g", "g", "/", "g">> :> <<"/", "g", "g", "/", "g">>)
             @@ (<<"/", ".", ".", "/", "g">> :> <<"/", "g">>)
             @@ (InRoot(<<".", ".">>) :> <<"/">>)

Paths == INSTANCE RequestPath WITH
           Tokens <- PathTokens, Roots <- {<<"/", "r">>, <<"/">>}, Tree <- AllTree,
           Directories <- {InRoot(<<"g", "g">>), <<"/">>}

-----------------------------------------------------------------------------
(* Fields: two of them, one's name the beginning of the other's, whose      *)
(* values hold separators, escapes and quotes.                              *)

CONSTANTS MaxFields, MaxTokens, ValueCap

Fields == INSTANCE RequestFields WITH
            Names <- {<<"u">>, <<"u", "u">>},
            UrlTokens <- {Symbol("u"), Symbol("="), Symbol("%"), Token(<<"+">>, " "),
                          Token(<<"%", "2", "6">>, "&")},
            PlainTokens <- {Symbol("u"), Symbol("=")},
            QuotedTokens <- {Symbol("u"), Symbol("="), Symbol(";"), Token(<<"\\", "\"">>, "\"")}

-----------------------------------------------------------------------------
(* Uploads: one part with any short data of the symbols of a boundary, and  *)
(* some longer that nearly are one; forms of two and three parts of every   *)
(* kind; odd headers and ends; and bodies cut short by their length.        *)

PartData ==
  {d \in Words({"CR", "LF", "-", "b"}, 3) : FirstAt(Marker, CRLF \o d, 1) = 0}
    \cup {<<"CR", "LF", "-", "-", "x">>, <<"CR", "LF", "CR", "LF", "CR">>,
          <<"CR", "LF", "-", "CR", "LF", "-", "-", "CR">>}
Part(h, d) == [headers |-> h, data |-> d]
Form(ps) == [parts |-> ps, tail |-> CRLF, wanted |-> {"F"}, cut |-> 0]
OneFile == Form(<<Part(<<"F">>, <<"x">>)>>)

AllSymbols == {"CR", "LF", "-", "b", "x", "n", "F", "G", "N", "T"}
AllForms ==
  {Form(<<Part(<<"F">>, d)>>) : d \in PartData}
    \cup {Form(<<Part(<<h>>, <<"x">>), Part(<<g>>, d)>>) :
            h, g \in {"F", "G", "N"}, d \in {<<>>, <<"x">>, <<"CR", "LF">>, <<"x", "CR", "-">>}}
    \cup {Form(<<Part(<<"N">>, <<"x">>), Part(<<"F">>, <<"CR">>), Part(<<"N">>, <<>>)>>)}
    \cup {Form(<<Part(h, <<"x">>)>>) : h \in {<<>>, <<"T">>, <<"G", "F">>, <<"T", "F">>, <<"F", "N">>}}
    \cup {[Form(<<Part(<<"G">>, <<"x">>), Part(<<"F">>, <<"b">>)>>) EXCEPT !.wanted = {"F", "G"}]}
    \cup {[OneFile EXCEPT !.cut = c] : c \in 1 .. 6}
    \cup {[OneFile EXCEPT !.tail = t] : t \in {<<>>, <<"x", "CR", "LF">>, <<"CR", "LF", "x">>,
                                                <<"CR", "x">>, <<"x", "x", "x">>}}

-----------------------------------------------------------------------------
\* The variables of the modules a behaviour is not of.
NoFraming ==
  /\ request = 0 /\ text = 0 /\ arrived = 0 /\ answer = 0
NoPath == root = 0 /\ tokens = 0
NoFields == kind = 0 /\ fields = 0
NoUpload ==
  /\ form = 0 /\ streamed = 0 /\ buffer = 0 /\ used = 0 /\ chunk = 0
  /\ net = 0 /\ remaining = 0 /\ pc = "none" /\ cr = 0 /\ line = 0
  /\ disposition = 0 /\ pending = <<>> /\ file = 0 /\ open = 0 /\ saved = 0
  /\ value = <<>> /\ rc = 0 /\ fault = 0 /\ mustClose = 0

Init ==
  \/ reader = "framing" /\ Framing!Init /\ NoPath /\ NoFields /\ NoUpload
  \/ reader = "path" /\ Paths!Init /\ NoFraming /\ NoFields /\ NoUpload
  \/ reader = "fields" /\ Fields!Init /\ NoFraming /\ NoPath /\ NoUpload
  \/ reader = "upload" /\ UploadInit /\ NoFraming /\ NoPath /\ NoFields

Next ==
  \/ reader = "framing" /\ Framing!Next /\ UNCHANGED <<reader, pathVars, fieldVars, uploadVars>>
  \/ reader = "path" /\ Paths!Next /\ UNCHANGED <<reader, framingVars, fieldVars, uploadVars>>
  \/ reader = "fields" /\ Fields!Next /\ UNCHANGED <<reader, framingVars, pathVars, uploadVars>>
  \/ reader = "upload" /\ UploadNext /\ UNCHANGED <<reader, framingVars, pathVars, fieldVars>>

Spec == Init /\ [][Next]_<<reader, framingVars, pathVars, fieldVars, uploadVars>>

\* The properties of the other modules, each of the behaviours of its own.
Framed == reader = "framing" => Framing!Framed
PathServed == reader = "path" => Paths!PathServed
FieldsExact == reader = "fields" => Fields!FieldsExact
=============================================================================
