-------------------------- MODULE MultipartUpload ---------------------------
(***************************************************************************)
(* sw_http_upload_save_fields (src/src/sw_server.c): a form of several     *)
(* parts is taken apart, the data of the first wanted file part goes to a  *)
(* file and the data of a note to a buffer of the program's.  A form whose *)
(* body is in memory is split by sw_http_next_multipart; a larger one is   *)
(* read byte by byte from what the connection has buffered and then from   *)
(* the socket, behind which the next request may already be waiting.       *)
(*                                                                         *)
(* A text is a sequence of symbols.  A header line of a part is one of:    *)
(* "F" a file part the program may want, "G" one with another name, "N"    *)
(* the note (each a Content-Disposition), "T" any other header.  "n" is a  *)
(* byte of the next request.                                               *)
(***************************************************************************)
EXTENDS Texts

CONSTANTS
  Symbols,         \* the bytes of texts, and the header lines
  Forms,           \* the forms sent: what they hold and what is asked of them
  FieldCap,        \* value_len of the program's field
  ReadChunk,       \* SW_UPLOAD_READ_CHUNK_BYTES
  LineLimit        \* the longest line of a streamed form

ASSUME LimitsAssumption ==
  /\ FieldCap \in Nat \ {0}
  /\ ReadChunk \in Nat \ {0}
  /\ LineLimit \in Nat /\ LineLimit >= 3

BoundaryLine == <<"-", "-", "b">>
Marker == CRLF \o BoundaryLine
Dispositions == {"F", "G", "N"}
Text == Seq(Symbols)

VARIABLES
  form,            \* the form being sent, as its sender means it
  streamed,        \* hm->body_pending when the handler was called
  buffer,          \* connection->read_buffer: the body, or what follows the head
  used,            \* reader.buffered_used; of a body in memory, *offset
  chunk,           \* reader.socket_buffer from socket_pos to socket_len
  net,             \* what the client has sent and recv has not returned
  remaining,       \* reader.remaining; of a body in memory, hm->body_len
  pc,              \* where the function is
  cr,              \* sw_upload_reader_line has read '\r'
  line,            \* the line being read
  disposition,     \* part.name and part.filename, as the header that set them
  pending,         \* sw_upload_read_part_data: a prefix of the marker
  file,            \* what is in the file
  open,            \* out # NULL: the part being read goes to the file
  saved,           \* a file part has been written
  value,           \* the field's value
  rc,              \* what is returned
  fault,           \* history: a call the function depends on has failed
  mustClose        \* connection->must_close

inputVars == <<buffer, used, chunk, net, remaining>>
results == <<file, open, saved, value>>
uploadVars == <<form, streamed, inputVars, pc, cr, line, disposition, pending, results,
                rc, fault, mustClose>>

\* A form as its sender writes it.  What its parts hold, what follows the last
\* boundary's "--", the bytes after the form; "cut" of them the Content-Length
\* leaves out.
Encoded(p) == CRLF \o FlattenSeq([i \in DOMAIN p.headers |-> <<p.headers[i]>> \o CRLF])
              \o CRLF \o p.data \o Marker
Body(f) == BoundaryLine \o FlattenSeq([i \in DOMAIN f.parts |-> Encoded(f.parts[i])])
           \o <<"-", "-">> \o f.tail
NextRequest == <<"n", "n">>
Sent(f) == Body(f) \o NextRequest
Announced(f) == Len(Body(f)) - f.cut

\* What may be sent: a header line is a symbol, the data of a part holds no
\* boundary and does not begin with one, and the length leaves out some end of
\* the body.
ASSUME FormsAssumption ==
  /\ {"CR", "LF", "-", "b", "n"} \subseteq Symbols
  /\ \A f \in Forms :
       /\ f \in [parts : Seq([headers : Text, data : Text]), tail : Text,
                 wanted : SUBSET {"F", "G"}, cut : Nat]
       /\ f.cut <= Len(Body(f))
       /\ \A i \in DOMAIN f.parts :
            /\ Range(f.parts[i].headers) \cap {"CR", "LF"} = {}
            /\ \A j \in 1 .. Len(f.parts[i].data) :
                 ~OccursAt(Marker, CRLF \o f.parts[i].data, j)

Reading == {"first", "header", "data", "after", "drain"}

UploadInit ==
  /\ form \in Forms
  /\ streamed \in BOOLEAN
  /\ remaining = Announced(form)
  /\ \E k \in (IF streamed THEN 0 ELSE remaining) .. Len(Sent(form)) :
       buffer = SubSeq(Sent(form), 1, k) /\ net = SubSeq(Sent(form), k + 1, Len(Sent(form)))
  /\ used = IF streamed THEN 0 ELSE 1
  /\ pc = IF streamed THEN "first" ELSE "parts"
  /\ chunk = <<>> /\ line = <<>> /\ pending = <<>> /\ file = <<>> /\ value = <<>>
  /\ cr = FALSE /\ open = FALSE /\ saved = FALSE /\ fault = FALSE
  /\ disposition = "none"
  /\ rc = "failed"
  /\ mustClose = streamed

-----------------------------------------------------------------------------
(* The reader: sw_upload_reader_read.                                       *)

Ready == used < Len(buffer) \/ chunk # <<>>

\* The next byte; "end" when the body has been read.
Byte == IF used < Len(buffer) THEN buffer[used + 1] ELSE Head(chunk)

\* The bytes of the buffer that were read leave it after ReadChunk of them,
\* and before a byte is taken from the socket.
Take ==
  /\ remaining > 0
  /\ Ready
  /\ remaining' = remaining - 1
  /\ IF used < Len(buffer)
     THEN /\ IF used + 1 >= ReadChunk
             THEN used' = 0 /\ buffer' = SubSeq(buffer, used + 2, Len(buffer))
             ELSE used' = used + 1 /\ buffer' = buffer
          /\ chunk' = chunk
     ELSE used' = 0 /\ buffer' = <<>> /\ chunk' = Tail(chunk)
  /\ net' = net

\* Mutant: recv is asked for whatever fits the chunk.
ReceivableAny == Min({ReadChunk, Len(net)})
Receivable == Min({remaining, ReadChunk, Len(net)})

Waits == pc \in Reading /\ remaining > 0 /\ ~Ready

Receive ==
  /\ Waits
  /\ \E n \in 1 .. Receivable :
       chunk' = SubSeq(net, 1, n) /\ net' = SubSeq(net, n + 1, Len(net))
  /\ buffer' = <<>> /\ used' = 0
  /\ UNCHANGED <<form, streamed, remaining, pc, cr, line, disposition, pending,
                 results, rc, fault, mustClose>>

\* The client closed, the socket failed or the body's deadline has passed.
ReceiveFails ==
  /\ Waits
  /\ buffer' = <<>> /\ used' = 0
  /\ fault' = TRUE
  /\ pc' = "leave"
  /\ UNCHANGED <<form, streamed, chunk, net, remaining, cr, line, disposition,
                 pending, results, rc, mustClose>>

-----------------------------------------------------------------------------
(* Lines: sw_upload_reader_line and what is done with each.                 *)

InLine == pc \in {"first", "header", "after"}

LineByte ==
  /\ InLine
  /\ ~cr
  /\ Take
  /\ cr' = (Byte = "CR")
  /\ line' = IF Byte = "CR" THEN line ELSE Append(line, Byte)
  /\ pc' = IF Len(line') > LineLimit THEN "leave" ELSE pc
  /\ UNCHANGED <<form, streamed, disposition, pending, results, rc, fault, mustClose>>

LineEnds(now) ==
  /\ pc = now
  /\ cr
  /\ Take
  /\ Byte = "LF"
  /\ cr' = FALSE
  /\ line' = <<>>
  /\ UNCHANGED <<form, streamed, rc, mustClose>>

LineBroken ==
  /\ InLine
  /\ cr
  /\ Take
  /\ Byte # "LF"
  /\ pc' = "leave"
  /\ UNCHANGED <<form, streamed, cr, line, disposition, pending, results, rc, fault, mustClose>>

\* The body ends inside a line or inside a part.
EndsEarly ==
  /\ InLine \/ pc = "data"
  /\ remaining = 0
  /\ pc' = "leave"
  /\ UNCHANGED <<form, streamed, inputVars, cr, line, disposition, pending, results,
                 rc, fault, mustClose>>

FirstLine ==
  /\ LineEnds("first")
  /\ pc' = IF line = BoundaryLine THEN "header" ELSE "leave"
  /\ UNCHANGED <<disposition, pending, results, fault>>

HeaderLine ==
  /\ line # <<>>
  /\ LineEnds("header")
  /\ disposition' = IF Last(line) \in Dispositions THEN Last(line) ELSE disposition
  /\ UNCHANGED <<pc, pending, results, fault>>

IsFile(d) == d \in {"F", "G"}
IsWanted(d) == IsFile(d) /\ d \in form.wanted /\ ~saved

\* An empty line ends the headers.  A wanted file is opened, which empties it,
\* unless path_fn or fopen fails; the note starts empty.
HeadersEnd ==
  /\ line = <<>>
  /\ LineEnds("header")
  /\ \E fails \in IF IsWanted(disposition) THEN BOOLEAN ELSE {FALSE} :
       /\ fault' = (fault \/ fails)
       /\ open' = (IsWanted(disposition) /\ ~fails)
       /\ pc' = IF fails THEN "leave" ELSE "data"
  /\ file' = IF open' THEN <<>> ELSE file
  /\ value' = IF disposition = "N" THEN <<>> ELSE value
  /\ pending' = <<>>
  /\ UNCHANGED <<disposition, saved>>

\* After a part's boundary: "--" and the rest is read and ignored, or an empty
\* line and another part.
AfterBoundary ==
  /\ LineEnds("after")
  /\ pc' = IF line = <<"-", "-">> THEN "drain" ELSE IF line = <<>> THEN "header" ELSE "leave"
  /\ disposition' = "none"
  /\ UNCHANGED <<pending, results, fault>>

-----------------------------------------------------------------------------
(* Data: sw_upload_read_part_data and sw_upload_emit_part_bytes.            *)

\* What stays pending of the text t is its longest end that may begin a
\* marker: bytes are dropped from the front until the marker may begin there.
\* Mutant: when the match breaks, all of it is taken for data.
StillPendingNaive(t) == IF IsPrefix(t, Marker) THEN t ELSE <<>>
StillPending(t) ==
  LET kept == Max({k \in 0 .. Len(t) : IsPrefix(SubSeq(t, Len(t) - k + 1, Len(t)), Marker)})
  IN  SubSeq(t, Len(t) - kept + 1, Len(t))

\* Mutant: the field's last byte is not kept for its end.
FitsExactly(text) == Len(text) <= FieldCap
\* A value leaves room for its terminating zero.
Fits(text) == Len(text) < FieldCap

\* One byte is read; what is now known to be data goes, byte by byte, to the
\* file or the field.  A field that is full ends the upload.
DataByte ==
  /\ pc = "data"
  /\ Take
  /\ LET text == Append(pending, Byte)
         data == SubSeq(text, 1, Len(text) - Len(StillPending(text)))
         stored == Max({n \in 0 .. Len(data) : n = 0 \/ Fits(value \o SubSeq(data, 1, n))})
         full == disposition = "N" /\ stored < Len(data)
         whole == StillPending(text) = Marker
     IN  /\ value' = IF disposition = "N" THEN value \o SubSeq(data, 1, stored) ELSE value
         /\ file' = IF open THEN file \o data ELSE file
         /\ pending' = IF whole THEN <<>> ELSE StillPending(text)
         /\ saved' = (saved \/ (whole /\ open))
         /\ open' = (open /\ ~whole)
         /\ pc' = IF full THEN "leave" ELSE IF whole THEN "after" ELSE pc
  /\ UNCHANGED <<form, streamed, cr, line, disposition, rc, fault, mustClose>>

\* fwrite or fclose fails: part of the data may be in the file.
WriteFails ==
  /\ pc = "data"
  /\ open
  /\ Take
  /\ fault' = TRUE
  /\ pc' = "leave"
  /\ UNCHANGED <<form, streamed, cr, line, disposition, pending, results, rc, mustClose>>

-----------------------------------------------------------------------------
(* The end.                                                                 *)

Drain ==
  /\ pc = "drain"
  /\ Take
  /\ UNCHANGED <<form, streamed, pc, cr, line, disposition, pending, results, rc,
                 fault, mustClose>>

Drained ==
  /\ pc = "drain"
  /\ remaining = 0
  /\ rc' = IF saved THEN "ok" ELSE "failed"
  /\ pc' = "leave"
  /\ UNCHANGED <<form, streamed, inputVars, cr, line, disposition, pending, results,
                 fault, mustClose>>

\* The label "done": only a form read to its end leaves the connection usable.
Leave ==
  /\ pc = "leave"
  /\ buffer' = SubSeq(buffer, used + 1, Len(buffer)) /\ used' = 0
  /\ open' = FALSE
  /\ mustClose' = (mustClose /\ rc # "ok")
  /\ pc' = "done"
  /\ UNCHANGED <<form, streamed, chunk, net, remaining, cr, line, disposition, pending,
                 file, saved, value, rc, fault>>

-----------------------------------------------------------------------------
(* A body in memory: sw_http_next_multipart, then the part is stored.       *)

\* The last of a part's headers that says what it is.
LastDisposition(t) ==
  LET at == {i \in DOMAIN t : t[i] \in Dispositions}
  IN  IF at = {} THEN "none" ELSE t[Max(at)]

NoPart == [next |-> 0, disposition |-> "none", data |-> <<>>]

\* The part of body b whose boundary is at o, and where the next boundary is.
BoundaryAt(b, i) == OccursAt(BoundaryLine, b, i) /\ OccursAt(CRLF, b, i - 2)

PartAt(b, o) ==
  LET start == o + Len(BoundaryLine)
      ends == {i \in start + 2 .. Len(b) : OccursAt(CRLF \o CRLF, b, i)}
      data == Min(ends) + 4
      nexts == {i \in data .. Len(b) : BoundaryAt(b, i)}
      headers == IF OccursAt(CRLF, b, start + 2) THEN <<>> ELSE SubSeq(b, start + 2, Min(ends) - 1)
  IN  IF /\ OccursAt(BoundaryLine, b, o)
         /\ OccursAt(CRLF, b, start)
         /\ ends # {}
         /\ nexts # {}
      THEN [next |-> Min(nexts), data |-> SubSeq(b, data, Min(nexts) - 3),
            disposition |-> LastDisposition(headers)]
      ELSE NoPart

InMemory == PartAt(SubSeq(buffer, 1, remaining), used)

Ends(r) ==
  /\ rc' = r
  /\ pc' = "done"

NextPart ==
  /\ pc = "parts"
  /\ InMemory # NoPart
  /\ LET part == InMemory
         wanted == IsWanted(part.disposition)
         note == part.disposition = "N"
     IN  \/ /\ note /\ ~Fits(part.data)
            /\ value' = <<>>
            /\ Ends("failed")
            /\ UNCHANGED <<used, file, saved, fault>>
         \/ /\ note => Fits(part.data)
            /\ used' = part.next
            /\ value' = IF note THEN part.data ELSE value
            /\ file' = IF wanted THEN part.data ELSE file
            /\ saved' = (saved \/ wanted)
            /\ UNCHANGED <<pc, rc, fault>>
         \/ \* path_fn, fopen, fwrite or fclose fails
            /\ wanted
            /\ fault' = TRUE
            /\ Ends("failed")
            /\ UNCHANGED <<used, file, saved, value>>
  /\ UNCHANGED <<form, streamed, buffer, chunk, net, remaining, cr, line, disposition,
                 pending, open, mustClose>>

NoMoreParts ==
  /\ pc = "parts"
  /\ InMemory = NoPart
  /\ Ends(IF saved THEN "ok" ELSE "failed")
  /\ UNCHANGED <<form, streamed, inputVars, cr, line, disposition, pending, results,
                 fault, mustClose>>

UploadNext ==
  \/ Receive \/ ReceiveFails
  \/ LineByte \/ LineBroken \/ EndsEarly
  \/ FirstLine \/ HeaderLine \/ HeadersEnd \/ AfterBoundary
  \/ DataByte \/ WriteFails
  \/ Drain \/ Drained \/ Leave
  \/ NextPart \/ NoMoreParts

UploadSpec == UploadInit /\ [][UploadNext]_uploadVars

-----------------------------------------------------------------------------
(* What the sender of a form, and the program, may count on.                *)

Meant(p) == LastDisposition(p.headers)

\* The parts, by their places, that the program wants: the first file and the last note.
Files(f) == {i \in DOMAIN f.parts : IsFile(Meant(f.parts[i])) /\ Meant(f.parts[i]) \in f.wanted}
Notes(f) == {i \in DOMAIN f.parts : Meant(f.parts[i]) = "N"}
FileOf(f) == f.parts[Min(Files(f))].data
NoteOf(f) == IF Notes(f) = {} THEN <<>> ELSE f.parts[Max(Notes(f))].data

\* A form both readers must take: each part has a header, there is a wanted
\* file, the notes have room, and the form ends, as browsers end it, with a
\* line of its own.
Acceptable(f) ==
  /\ f.cut = 0
  /\ IsPrefix(CRLF, f.tail)
  /\ \A i \in DOMAIN f.parts : f.parts[i].headers # <<>>
  /\ Files(f) # {}
  /\ \A i \in Notes(f) : Fits(f.parts[i].data)

\* A form that is well formed is saved unless a call fails, however its bytes
\* arrive; and what is saved is the first wanted file and the last note, to
\* the byte, whether it was read from memory or from the socket.
SavedExact ==
  pc = "done" =>
    /\ Acceptable(form) /\ ~fault => rc = "ok"
    /\ rc = "ok" => saved /\ Files(form) # {} /\ file = FileOf(form)
    /\ rc = "ok" /\ Acceptable(form) => value = NoteOf(form)

\* When the upload is over, either the connection will be closed, or what is
\* next to read, from the buffer and then the socket, is what follows the body.
NextRequestIntact ==
  pc = "done" =>
    \/ mustClose
    \/ /\ chunk = <<>>
       /\ (IF streamed THEN buffer ELSE SubSeq(buffer, Announced(form) + 1, Len(buffer)))
            \o net = SubSeq(Sent(form), Announced(form) + 1, Len(Sent(form)))

\* An upload takes the bytes of its form and stores those of its parts, no more and
\* no less; the field always keeps room for its end, and what is pending is less
\* than a marker.
UploadExact ==
  /\ Len(value) < FieldCap
  /\ IsStrictPrefix(pending, Marker)
  /\ SavedExact
  /\ NextRequestIntact
=============================================================================
