--------------------------- MODULE RequestFraming ---------------------------
(***************************************************************************)
(* Where a request ends (src/src/sw_server.c): sw_connection_try_parse_    *)
(* request looks at what has arrived so far and answers that it needs more *)
(* bytes, that the request is complete (its body, and how many bytes it    *)
(* takes), that its body is to be streamed, or that it is refused.  It is  *)
(* asked again from the beginning whenever bytes arrive.                   *)
(*                                                                         *)
(* A line of the head is a sequence of symbols.  The first line has two    *)
(* spaces or more if it is a request line.  The first symbol of any other  *)
(* names the header: "CL" Content-Length and its value, "TE" Transfer-     *)
(* Encoding and its tokens, "MP" a Content-Type that allows streaming, "H" *)
(* any other; "?" is a line without a colon, and ":" one that has nothing  *)
(* before it.  Numbers are written in base Radix, and a size_t holds no    *)
(* more than SizeMax.                                                      *)
(***************************************************************************)
EXTENDS Texts

CONSTANTS
  Requests,        \* what clients send
  Following,       \* what follows a request on the connection
  Radix, SizeMax,  \* 10 and 16; SIZE_MAX
  MaxHeader,       \* config.max_header_bytes
  MaxHeaders,      \* config.max_header_count
  MaxBody,         \* config.max_body_bytes
  MaxRead,         \* config.max_read_buffer_bytes, or 0
  StreamThreshold  \* default_stream_threshold

VARIABLES
  request,         \* the request, as its sender means it
  text,            \* its bytes and those that follow it
  arrived,         \* how many of them have arrived
  answer           \* what the last look at them said

vars == <<request, text, arrived, answer>>

Blank == {" "}
DigitValue == [d \in {"0", "1", "2", "3"} |->
                 CASE d = "0" -> 0 [] d = "1" -> 1 [] d = "2" -> 2 [] OTHER -> 3]
Digits == DOMAIN DigitValue

-----------------------------------------------------------------------------
(* Numbers.                                                                 *)

\* One more digit of a number, or -1 when a size_t does not hold it.
\* Mutant: the number wraps around.
WithDigitWrapping(n, d) == IF n < 0 THEN n ELSE (n * Radix + DigitValue[d]) % (SizeMax + 1)
WithDigit(n, d) ==
  IF n < 0 \/ n > (SizeMax - DigitValue[d]) \div Radix THEN -1 ELSE n * Radix + DigitValue[d]

Spelled(digits) == IF digits = <<>> THEN -1 ELSE FoldLeft(WithDigit, 0, digits)

\* sw_parse_content_length_value; -1 when it is not a number.
ContentLengthValue(value) ==
  LET v == Trimmed(value, Blank)
  IN  IF ToSet(v) \subseteq Digits THEN Spelled(v) ELSE -1

\* sw_parse_chunk_size_value: digits, blanks, and perhaps an extension.
ChunkSizeValue(value) ==
  LET digits == Leading(value, Digits)
      rest == Trimmed(From(value, Len(digits) + 1), Blank)
  IN  IF rest = <<>> \/ Head(rest) = ";" THEN Spelled(digits) ELSE -1

-----------------------------------------------------------------------------
(* Bodies.                                                                  *)

Result(r) == [result |-> r, length |-> 0, body |-> <<>>]
Pending == Result("pending")
BadRequest == Result("bad_request")
PayloadTooLarge == Result("payload_too_large")
HeadersTooLarge == Result("headers_too_large")
Complete(length, body) == [result |-> "ready", length |-> length, body |-> body]

\* Mutant: a chunk whose last bytes have not arrived is taken as it is.
EndsArrived(t, end) == Len(t) >= end
ChunkArrived(t, end) == Len(t) >= end + 2

\* After the last chunk: an empty line, or a trailer of at most MaxHeader bytes.
Trailer(t, cursor, body) ==
  LET end == FirstAt(CRLF \o CRLF, t, cursor)
  IN  CASE OccursAt(CRLF, t, cursor) -> Complete(cursor + 1, body)
        [] ~OccursAt(CRLF, t, cursor) /\ end = 0 ->
             IF Len(t) - cursor + 1 > MaxHeader THEN HeadersTooLarge ELSE Pending
        [] OTHER -> IF end - cursor > MaxHeader THEN HeadersTooLarge ELSE Complete(end + 3, body)

\* sw_decode_chunked_body: the chunks of t from position "cursor".
RECURSIVE Chunks(_, _, _)
Chunks(t, cursor, body) ==
  LET line == FirstAt(CRLF, t, cursor)
      size == ChunkSizeValue(SubSeq(t, cursor, line - 1))
      end == line + 1 + size
  IN  CASE line = 0 -> Pending
        [] line > 0 /\ size < 0 -> BadRequest
        [] line > 0 /\ size = 0 -> Trailer(t, line + 2, body)
        [] line > 0 /\ size > MaxBody - Len(body) -> PayloadTooLarge
        [] OTHER -> IF ~ChunkArrived(t, end) THEN Pending
                    ELSE IF ~OccursAt(CRLF, t, end + 1) THEN BadRequest
                    ELSE Chunks(t, end + 3, body \o SubSeq(t, line + 2, end))

\* sw_request_body_should_stream: a form that the read buffer would not hold, or
\* that is long.
Streams(h, headBytes) ==
  /\ h.form
  /\ \/ MaxRead > 0 /\ h.length > Max({MaxRead - headBytes, 0})
     \/ h.length > StreamThreshold

Sized(t, h, headBytes) ==
  CASE h.length > MaxBody -> PayloadTooLarge
    [] h.length <= MaxBody /\ h.length > SizeMax - headBytes -> BadRequest
    [] OTHER ->
         IF Streams(h, headBytes) THEN [Complete(headBytes, <<>>) EXCEPT !.result = "stream"]
         ELSE IF Len(t) < headBytes + h.length THEN Pending
         ELSE Complete(headBytes + h.length, SubSeq(t, headBytes + 1, headBytes + h.length))

-----------------------------------------------------------------------------
(* The head.                                                                *)

NoHeaders == [refused |-> "", count |-> 0, counted |-> FALSE, length |-> 0,
              chunked |-> FALSE, form |-> FALSE]

Refuse(h, why) == [h EXCEPT !.refused = why]

\* A line that names no header: it has no colon, or nothing before it.
Nameless == {"?", ":"}

\* One header; the first that is refused decides.
\* Mutant: a second Content-Length replaces the first.
DiffersNever(h, length) == FALSE
Differs(h, length) == h.counted /\ h.length # length

Header(h, line) ==
  LET length == ContentLengthValue(Tail(line))
  IN  CASE h.refused # "" -> h
        [] h.refused = "" /\ h.count + 1 > MaxHeaders -> Refuse(h, "too_many_headers")
        [] h.refused = "" /\ h.count + 1 <= MaxHeaders /\ Head(line) \in Nameless -> Refuse(h, "bad_request")
        [] h.refused = "" /\ h.count + 1 <= MaxHeaders /\ Head(line) = "CL" ->
             IF length < 0 \/ Differs(h, length) THEN Refuse(h, "bad_request")
             ELSE IF length > MaxBody THEN Refuse(h, "payload_too_large")
             ELSE [h EXCEPT !.count = @ + 1, !.counted = TRUE, !.length = length]
        [] OTHER ->
             [h EXCEPT !.count = @ + 1,
                       !.chunked = @ \/ (Head(line) = "TE" /\ "chunked" \in ToSet(line)),
                       !.form = @ \/ Head(line) = "MP"]

\* The lines of a head, which ends where the empty line is.
HeadLines(head) ==
  LET pieces == Pieces(head, {"CR"})
  IN  [k \in DOMAIN pieces |-> IF k = 1 THEN pieces[k] ELSE Tail(pieces[k])]

\* A method, a URI and a protocol, any of which may be empty.
IsRequestLine(line) == Cardinality({i \in DOMAIN line : line[i] = " "}) >= 2

\* sw_connection_try_parse_request on the bytes t.  The end of the request line
\* is sought before the empty line: a head of that line alone has none.
Parse(t) ==
  LET end == FirstAt(CRLF \o CRLF, t, 1)
      headBytes == end + 3
      lines == HeadLines(SubSeq(t, 1, end - 1))
      h == FoldLeft(Header, NoHeaders, Tail(lines))
  IN  CASE end = 0 -> IF Len(t) > MaxHeader THEN HeadersTooLarge ELSE Pending
        [] end > 0 /\ headBytes > MaxHeader -> HeadersTooLarge
        [] end > 0 /\ headBytes <= MaxHeader /\ (Len(lines) < 2 \/ ~IsRequestLine(lines[1])) -> BadRequest
        [] OTHER -> IF h.refused # "" THEN Result(h.refused)
                    ELSE IF h.chunked /\ h.counted THEN BadRequest
                    ELSE IF h.chunked THEN Chunks(t, headBytes + 1, <<>>)
                    ELSE Sized(t, h, headBytes)

-----------------------------------------------------------------------------
(* A client sends a request: the lines of its head, and a body of its own   *)
(* or in chunks, each with the digits that spell its size and an extension. *)
(* The server refuses a head of a request line alone, which HTTP/1.0 allows *)
(* and HTTP/1.1, with its Host, does not: Framed says so too.               *)

HeadText(r) == FlattenSeq([i \in DOMAIN r.head |-> r.head[i] \o CRLF]) \o CRLF
ChunkText(c) == c.size \o c.ext \o CRLF \o c.data \o CRLF
BodyText(r) ==
  IF r.chunked THEN FlattenSeq([i \in DOMAIN r.chunks |-> ChunkText(r.chunks[i])])
                      \o <<"0">> \o CRLF \o r.trailer \o CRLF
  ELSE r.body
RequestText(r) == HeadText(r) \o BodyText(r)

Init ==
  /\ request \in Requests
  /\ \E f \in Following : text = RequestText(request) \o f
  /\ arrived = 0
  /\ answer = Pending

\* Bytes arrive, and the server looks again.
Arrive ==
  /\ answer = Pending
  /\ \E n \in arrived + 1 .. Len(text) : arrived' = n /\ answer' = Parse(SubSeq(text, 1, n))
  /\ UNCHANGED <<request, text>>

Next == Arrive

Spec == Init /\ [][Next]_vars

-----------------------------------------------------------------------------
(* What a client may count on.                                              *)

Lines(r, name) == {r.head[i] : i \in {j \in DOMAIN r.head : Head(r.head[j]) = name}}
Meaning(digits) ==
  IF digits # <<>> /\ ToSet(digits) \subseteq Digits THEN Number(digits, DigitValue, Radix) ELSE -1
Lengths(r) == {Meaning(Trimmed(Tail(l), Blank)) : l \in Lines(r, "CL")}

\* A head the server takes: a request line and headers with names, one at least
\* and no more than the limits allow.
InLimits(r) ==
  /\ Len(HeadText(r)) <= MaxHeader
  /\ IsRequestLine(r.head[1])
  /\ Len(r.head) - 1 \in 1 .. MaxHeaders
  /\ \A i \in 2 .. Len(r.head) : Head(r.head[i]) \notin Nameless

\* The data the sender's head announces is the data it sends.
SentBody(r) == IF r.chunked THEN FlattenSeq([i \in DOMAIN r.chunks |-> r.chunks[i].data]) ELSE r.body
WellSized(r) ==
  IF r.chunked
  THEN /\ Lines(r, "CL") = {}
       /\ Len(r.trailer) <= MaxHeader - 1
       /\ \A i \in DOMAIN r.chunks :
            LET c == r.chunks[i] IN /\ c.data # <<>>
                                    /\ Meaning(c.size) = Len(c.data)
                                    /\ c.ext = <<>> \/ Head(Trimmed(c.ext, Blank)) = ";"
  ELSE /\ <<"TE", "chunked">> \notin ToSet(r.head)
       /\ Lengths(r) = {Len(r.body)} \/ (Lengths(r) = {} /\ r.body = <<>>)

\* A number in the request says more than a size_t holds.
Oversized(r) ==
  \/ \E n \in Lengths(r) : n > SizeMax
  \/ r.chunks # <<>> /\ Meaning(r.chunks[1].size) > SizeMax

\* A trailer that is within the limit but not with its empty line: whether it is
\* refused depends on how much of that line has arrived.
NearLimit(r) == r.chunked /\ Len(r.trailer) - 2 \in MaxHeader - 2 .. MaxHeader

\* However a request is cut into pieces and whatever follows it, the server
\* finds exactly its body and its end, as soon as its last byte has arrived;
\* a request that says it is larger than any memory, or says two lengths, or
\* whose head is not one, is refused; and what is answered early would not be
\* answered otherwise later.
Framed ==
  LET whole == Len(RequestText(request))
      ready == answer.result \in {"ready", "stream"}
  IN  /\ InLimits(request) /\ WellSized(request) /\ Len(SentBody(request)) <= MaxBody =>
           /\ arrived >= whole => answer # Pending
           /\ answer # Pending => ready
           /\ answer.result = "ready" => answer.body = SentBody(request) /\ answer.length = whole
           /\ answer.result = "stream" => answer.length = Len(HeadText(request))
      /\ ready => /\ answer.length <= arrived
                  /\ ~Oversized(request)
                  /\ Cardinality(Lengths(request)) <= 1
                  /\ InLimits(request)
      /\ answer # Pending => answer = Parse(text) \/ (answer = HeadersTooLarge /\ NearLimit(request))
=============================================================================
