----------------------------- MODULE Connection -----------------------------
(***************************************************************************)
(* One connection served by its worker, without TLS (src/src/sw_server.c): *)
(* reading, parsing and dispatching requests, the handler's reply, writing *)
(* it, keep-alive and pipelining, the errors answered by the server itself,*)
(* the timers, the half-close at the end, and what epoll is asked for.     *)
(*                                                                         *)
(* The bytes of a request are two or three units: the first part of its    *)
(* head, the end of its head and, if it has one, its body.  The bytes of a *)
(* response are units as well.  The client sends, reads, closes or falls   *)
(* silent at any time, and pipelines as it likes.                          *)
(*                                                                         *)
(* Time is in ticks.  It passes while the worker waits in epoll_wait with  *)
(* no event to report: handling an event takes none.                       *)
(***************************************************************************)
EXTENDS Integers, Sequences, SequencesExt, FiniteSets

CONSTANTS
  Kinds,           \* the kinds of request the client makes
  Replies,         \* what the handler does with a request
  MaxRequests,     \* bound: requests the client makes
  KeepAliveMax,    \* config.keep_alive_max_requests
  MaxRead,         \* config.max_read_buffer_bytes, in units
  SendBuffer,      \* response units the kernel holds until the client reads them
  IdleTimeout, HeaderTimeout, BodyTimeout, WriteTimeout,   \* config.*_timeout_ms
  FileShrinks      \* a file may turn out shorter than stat() said

ASSUME KindAssumption == Kinds \subseteq {"get", "close", "post", "upload", "bad"}
ASSUME ReplyAssumption == Replies \subseteq {"none", "reply", "file", "write", "save", "large"}
ASSUME BoundAssumption ==
  /\ MaxRequests \in Nat /\ KeepAliveMax \in Nat \ {0}
  /\ MaxRead \in Nat \ {0} /\ SendBuffer \in Nat \ {0}
ASSUME TimeoutAssumption ==
  {IdleTimeout, HeaderTimeout, BodyTimeout, WriteTimeout} \subseteq Nat \ {0}
ASSUME FileAssumption == FileShrinks \in BOOLEAN

VARIABLES
  stream,          \* the kinds of the requests the client has begun to send
  sent,            \* the parts of the last of them it has sent
  client,          \* "active", "silent" (does nothing any more) or "gone" (closed)
  inq,             \* units in the kernel that the server has not received
  wire,            \* the response units handed to the kernel
  unread,          \* how many of them the client has not read
  conn,            \* the struct sw_connection
  timer,           \* when its entry in the manager's heap is due
  armed,           \* epoll is asked for EPOLLOUT
  pc,              \* where the worker is
  out              \* EPOLLOUT is reported too, to be handled after EPOLLIN

clientVars == <<stream, sent, client>>
server == <<conn, timer, armed, pc, out>>
vars == <<clientVars, inq, wire, unread, server>>

Parts(kind) == CASE kind = "upload" -> 4 [] kind = "post" -> 3 [] OTHER -> 2
Unit(r, k) == [req |-> r, part |-> k]

\* Unit k of the n units of the response to request r; 0 is the server's own error.
Answer(r, k, n) == [to |-> r, part |-> k, of |-> n]

\* Ages beyond every timeout need not be told apart; no entry is due later.
Longest == Max({IdleTimeout, HeaderTimeout, BodyTimeout, WriteTimeout})
Older(age) == Min({age + 1, Longest})
NoTimer == Longest + 1

\* sw_connection_create.  "seen" is a history: the requests given to the handler.
Fresh ==
  [open |-> TRUE, rbuf |-> <<>>, wbuf |-> <<>>, file |-> <<>>,
   request |-> 0, dispatched |-> FALSE, started |-> FALSE, headers |-> FALSE,
   responding |-> FALSE, closeAfter |-> FALSE, mustClose |-> FALSE, shut |-> FALSE,
   parsed |-> 0, body |-> 0, saving |-> FALSE, handled |-> 0, seen |-> <<>>,
   idleAge |-> 0, phaseAge |-> 0]

Ready(c) == c.request # 0

\* sw_connection_has_pending_output, which is what EPOLLOUT is asked for.
Pending(c) == c.wbuf # <<>> \/ c.file # <<>>

-----------------------------------------------------------------------------
(* Timers and events.  timer is the entry of the connection's latest        *)
(* generation in the manager's heap, as the ticks until it is due; a new    *)
(* entry takes the place of the older, so of a step's entries the last is   *)
(* what counts.                                                             *)

\* sw_connection_timeout_due_ms
Due(c) ==
  LET idle == IdleTimeout - c.idleAge
      write == IF Pending(c) THEN {WriteTimeout - c.idleAge} ELSE {}
      phase == IF c.started /\ ~Ready(c)
               THEN {(IF c.headers THEN BodyTimeout ELSE HeaderTimeout) - c.phaseAge}
               ELSE {}
  IN  IF c.shut THEN idle ELSE Min({idle} \union write \union phase)

\* sw_mgr_schedule_connection_timeout; a closed connection has no timer.
Schedule == timer' = IF conn'.open THEN Due(conn') ELSE NoTimer

\* Mutant: the events are brought up to date, the timer is not.
SyncUntimed == armed' = Pending(conn') /\ UNCHANGED timer

\* sw_mgr_sync_connection: the timer, and the events epoll is asked for.
Sync == Schedule /\ armed' = Pending(conn')

\* The heap's entry counts only if it is still what the connection needs.
TimerValid == timer # NoTimer /\ timer = Due(conn)

-----------------------------------------------------------------------------
(* Replies.                                                                 *)

\* sw_mgr_close_connection; the history is kept.
Close(c) == [Fresh EXCEPT !.open = FALSE, !.seen = c.seen, !.handled = c.handled]

Kind(c) == IF Ready(c) THEN stream[c.request] ELSE "get"

\* sw_request_allows_keep_alive
KeepAlive(c) ==
  /\ ~c.mustClose /\ ~c.shut
  /\ c.handled + 1 < KeepAliveMax
  /\ Kind(c) # "close"

\* sw_connection_begin_response and the bytes that follow: what is left of an
\* earlier response is dropped from the buffer, an open file is kept.
Respond(c, units) ==
  [c EXCEPT !.wbuf = units, !.responding = TRUE, !.closeAfter = ~KeepAlive(c),
            !.idleAge = 0]

\* The server answers 400, 408, 413 or 431 itself, and closes.
ReplyError(c) == Respond([c EXCEPT !.mustClose = TRUE], <<Answer(0, 1, 1)>>)

\* Mutant: the input lost to the limit is forgotten, and the connection goes on.
ReplyTooLargeOpen(c) == Respond(c, <<Answer(0, 1, 1)>>)

\* The read buffer would pass its limit; the bytes just received are lost.
ReplyTooLarge(c) == ReplyError(c)

\* Mutant: the limit is compared with the buffer before the bytes are added.
OverflowsLate(c, n) == Len(c.rbuf) > MaxRead

Overflows(c, n) == Len(c.rbuf) + n > MaxRead

\* sw_http_reply
ReplyBody(c) == Respond(c, <<Answer(c.request, 1, 2), Answer(c.request, 2, 2)>>)

\* sw_http_send_file: the head, and a file of two chunks.
SendFile(c) ==
  LET chunks == <<Answer(c.request, 2, 3), Answer(c.request, 3, 3)>>
  IN  Respond([c EXCEPT !.file = chunks], <<Answer(c.request, 1, 3)>>)

\* sw_http_write: the handler's own bytes, and the connection ends with them.
Write(c) ==
  [c EXCEPT !.mustClose = TRUE, !.closeAfter = TRUE, !.idleAge = 0,
            !.wbuf = Append(@, Answer(c.request, 1, 1))]

\* A reply, sw_http_write or sw_http_printf that would pass max_write_buffer_bytes:
\* the call fails, what it did before stays (sw_http_printf has appended its bytes by
\* then), and the handler leaves it at that.  The server's own answers are taken to
\* fit, its 431 among them: no status line is longer, so a reply leaves at least its own.
ReplyFails(c) ==
  {[Respond(c, <<Answer(c.request, 1, 2)>>) EXCEPT !.idleAge = c.idleAge],
   [c EXCEPT !.mustClose = TRUE, !.closeAfter = TRUE],
   [Write(c) EXCEPT !.idleAge = c.idleAge]}

\* What the handler may have done when it returns, an upload it saves apart.
Handled(c) ==
  {ReplyBody(c) : r \in Replies \intersect {"reply"}}
    \union {SendFile(c) : r \in Replies \intersect {"file"}}
    \union {Write(c) : r \in Replies \intersect {"write"}}
    \union {c : r \in Replies \intersect {"none"}}
    \union UNION {ReplyFails(c) : r \in Replies \intersect {"large"}}

-----------------------------------------------------------------------------
(* Parsing and dispatching.                                                 *)

\* sw_connection_dispatch_request: the handler is called once for a request.
Dispatch(c) ==
  IF c.dispatched
  THEN {c}
  ELSE LET d == [c EXCEPT !.dispatched = TRUE, !.seen = Append(@, c.request)]
           saves == "save" \in Replies /\ c.body > 0
       IN  Handled(d)
             \union {[d EXCEPT !.saving = TRUE] : k \in {TRUE} \intersect {saves}}

\* The end of a head is in the buffer.
HeadEnd(b) == {i \in DOMAIN b : b[i].part = 2}

\* The first complete head: its phase, the body's, begins.
HeadFound(c) ==
  IF c.headers THEN c ELSE [c EXCEPT !.headers = TRUE, !.phaseAge = 0]

\* The buffer begins with a request and holds all of it.
Complete(b) ==
  LET last == Parts(stream[b[1].req])
  IN  Len(b) >= last /\ \A k \in 1 .. last : b[k] = Unit(b[1].req, k)

Malformed(b) == b[1].part # 1 \/ b[2] # Unit(b[1].req, 2) \/ stream[b[1].req] = "bad"

\* Mutant: the head, out of the buffer already, is consumed once more.
StreamedCounted(c) ==
  [c EXCEPT !.request = c.rbuf[1].req, !.parsed = 2, !.mustClose = TRUE,
            !.body = Parts("upload") - 2, !.rbuf = SubSeq(@, 3, Len(@))]

\* sw_connection_begin_streamed_body: only the head leaves the buffer, and the
\* connection is to be closed unless the handler reads the body.
Streamed(c) ==
  [c EXCEPT !.request = c.rbuf[1].req, !.parsed = 0, !.mustClose = TRUE,
            !.body = Parts("upload") - 2, !.rbuf = SubSeq(@, 3, Len(@))]

InMemory(c) ==
  [c EXCEPT !.request = c.rbuf[1].req, !.parsed = Parts(stream[c.rbuf[1].req])]

\* sw_connection_process_input with sw_connection_try_parse_request.
ProcessInput(c) ==
  CASE Pending(c) -> {c}
    [] ~Pending(c) /\ Ready(c) -> Dispatch(c)
    [] ~Pending(c) /\ ~Ready(c) ->
         IF HeadEnd(c.rbuf) = {} THEN {c}
         ELSE LET d == HeadFound(c)
              IN  CASE Malformed(d.rbuf) -> {ReplyError(d)}
                    [] ~Malformed(d.rbuf) /\ stream[d.rbuf[1].req] = "upload" -> Dispatch(Streamed(d))
                    [] OTHER -> IF Complete(d.rbuf) THEN Dispatch(InMemory(d)) ELSE {d}

-----------------------------------------------------------------------------
(* The end of a response.                                                   *)

\* sw_connection_reset_request
ResetRequest(c) ==
  [c EXCEPT !.request = 0, !.dispatched = FALSE, !.started = FALSE, !.headers = FALSE,
            !.responding = FALSE, !.mustClose = FALSE, !.parsed = 0, !.body = 0,
            !.phaseAge = 0]

\* sw_connection_shutdown_send; the call fails only when the client is gone.
ShutdownSend(c) ==
  {[c EXCEPT !.shut = TRUE, !.closeAfter = FALSE, !.idleAge = 0]}
    \union {Close(c) : k \in {"gone"} \intersect {client}}

\* Mutant: the request answered stays in the buffer.
ConsumeNothing(c) == c.rbuf

\* The request leaves the buffer; what follows it there is the next one.
Consume(c) == SubSeq(c.rbuf, c.parsed + 1, Len(c.rbuf))

NextRequest(c) == ResetRequest([c EXCEPT !.rbuf = Consume(c), !.handled = @ + 1])

\* Mutant: input that came with the request answered waits for more to come.
LeftoverIgnored(c) == FALSE

Leftover(c) == c.rbuf # <<>>

\* Mutant: the last chunk is taken for the end of the file.
FillFileShort(c) ==
  IF c.wbuf # <<>> \/ c.file = <<>>
  THEN {c}
  ELSE IF Len(c.file) = 1 THEN {[c EXCEPT !.file = <<>>]}
       ELSE {[c EXCEPT !.wbuf = <<Head(c.file)>>, !.file = Tail(@)]}

\* sw_connection_fill_file_buffer: a file that ends early is closed silently; with a
\* chunk that would pass max_write_buffer_bytes the connection is closed too.
FillFile(c) ==
  IF c.wbuf # <<>> \/ c.file = <<>>
  THEN {c}
  ELSE {[c EXCEPT !.wbuf = <<Head(c.file)>>, !.file = Tail(@)]}
         \union {[c EXCEPT !.file = <<>>] : k \in {TRUE} \intersect {FileShrinks}}
         \union {Close(c) : r \in Replies \intersect {"large"}}

-----------------------------------------------------------------------------

Init ==
  /\ stream = <<>> /\ sent = 0 /\ client = "active"
  /\ inq = <<>> /\ wire = <<>> /\ unread = 0
  /\ conn = Fresh /\ timer = IdleTimeout /\ armed = FALSE
  /\ pc = "expire" /\ out = FALSE

(***************************************************************************)
(* The client.                                                             *)
(***************************************************************************)

BetweenRequests == stream # <<>> => sent = Parts(Last(stream))

ClientSends(kind) ==
  /\ client = "active" /\ conn.open
  /\ IF BetweenRequests
     THEN /\ Len(stream) < MaxRequests
          /\ stream' = Append(stream, kind)
          /\ sent' = 1
     ELSE /\ kind = Last(stream)
          /\ sent' = sent + 1
          /\ UNCHANGED stream
  /\ inq' = Append(inq, Unit(Len(stream'), sent'))
  /\ UNCHANGED <<client, wire, unread, server>>

ClientReads ==
  /\ client = "active"
  /\ unread > 0
  /\ unread' = 0
  /\ UNCHANGED <<clientVars, inq, wire, server>>

ClientStops ==
  /\ client = "active"
  /\ client' \in {"silent", "gone"}
  /\ UNCHANGED <<stream, sent, inq, wire, unread, server>>

(***************************************************************************)
(* The worker: sw_mgr_poll, again and again.                               *)
(***************************************************************************)

\* The handler of an EPOLLIN event returned: EPOLLOUT is next, if reported.
AfterRead(c) ==
  CASE c.saving -> pc' = "save" /\ UNCHANGED out
    [] ~c.saving /\ out /\ c.open -> pc' = "write" /\ out' = FALSE
    [] OTHER -> pc' = "expire" /\ out' = FALSE

AfterWrite(c) ==
  /\ pc' = IF c.saving THEN "save" ELSE "expire"
  /\ out' = FALSE

\* Mutant: a response on its way is cut off by the 408.
AbandonIdle(c) == c.shut \/ ~c.started

\* No 408 is due: nothing of a request arrived, or a response is on its way.
Abandon(c) == c.shut \/ Pending(c) \/ ~c.started

TimedOut == TimerValid /\ timer <= 0

\* sw_mgr_expire_timeouts: a request that takes too long is answered 408, and what
\* input the kernel holds is discarded.
Expire ==
  /\ pc = "expire" /\ conn.open
  /\ TimedOut
  /\ IF Abandon(conn) \/ client = "gone"
     THEN /\ conn' = Close(conn)
          /\ UNCHANGED <<inq, pc>>
     ELSE /\ conn' = ReplyError(conn)
          /\ inq' = <<>>
          /\ pc' = "write"
  /\ Sync
  /\ UNCHANGED <<clientVars, wire, unread, out>>

\* sw_mgr_effective_poll_timeout: an entry that is not valid leaves the heap.
StartWait ==
  /\ pc = "expire" /\ conn.open
  /\ ~TimedOut
  /\ timer' = IF TimerValid THEN timer ELSE NoTimer
  /\ pc' = "wait"
  /\ UNCHANGED <<clientVars, inq, wire, unread, conn, armed, out>>

Readable == inq # <<>>
Writable == armed /\ unread < SendBuffer

\* sw_backend_poll: the client closed its end, or there is something to do.
Hangup ==
  /\ pc = "wait"
  /\ client = "gone"
  /\ conn' = Close(conn)
  /\ Sync
  /\ pc' = "expire"
  /\ UNCHANGED <<clientVars, inq, wire, unread, out>>

Event ==
  /\ pc = "wait"
  /\ client # "gone"
  /\ Readable \/ Writable
  /\ pc' = IF Readable THEN "read" ELSE "write"
  /\ out' = (Readable /\ Writable)
  /\ UNCHANGED <<clientVars, inq, wire, unread, conn, timer, armed>>

Tick ==
  /\ pc = "wait"
  /\ client # "gone"
  /\ ~Readable /\ ~Writable
  /\ conn' = [conn EXCEPT !.idleAge = Older(@), !.phaseAge = Older(@)]
  /\ timer' = IF timer = NoTimer THEN NoTimer ELSE timer - 1
  /\ pc' = "expire"
  /\ UNCHANGED <<clientVars, inq, wire, unread, armed, out>>

\* A request is dispatched or a reply is queued: both end with a sync.  A head or
\* body still incomplete leaves the events as they are.
Answering == Pending(conn') \/ Ready(conn')

\* Mutant: input is read for requests after the half-close too.
ReadsAlways == TRUE

Reads == ~conn.shut

\* One recv() of sw_mgr_connection_readable.
Receive(n) ==
  /\ pc = "read"
  /\ Reads
  /\ n \in 1 .. Len(inq)
  /\ inq' = SubSeq(inq, n + 1, Len(inq))
  /\ \E c \in {IF conn.started THEN conn ELSE [conn EXCEPT !.started = TRUE, !.phaseAge = 0]} :
       IF Overflows(c, n)
       THEN conn' = ReplyTooLarge(c)
       ELSE \E d \in {[c EXCEPT !.rbuf = @ \o SubSeq(inq, 1, n), !.idleAge = 0]} :
              conn' \in ProcessInput(d)
  /\ Schedule
  /\ IF Answering
     THEN armed' = Pending(conn') /\ AfterRead(conn')
     ELSE UNCHANGED <<armed, pc, out>>
  /\ UNCHANGED <<clientVars, wire, unread>>

\* recv() would block, or finds the client gone.  What is in the buffer has been
\* looked at when it came.
ReceiveEnds ==
  /\ pc = "read"
  /\ ~conn.shut
  /\ inq = <<>>
  /\ IF client = "gone"
     THEN conn' = Close(conn) /\ Sync
     ELSE UNCHANGED <<conn, timer, armed>>
  /\ AfterRead(conn')
  /\ UNCHANGED <<clientVars, inq, wire, unread>>

\* After the half-close, input is only read to see the client close.
Discard ==
  /\ pc = "read"
  /\ conn.shut
  /\ inq' = <<>>
  /\ IF client = "gone"
     THEN conn' = Close(conn) /\ Sync
     ELSE UNCHANGED <<conn, timer, armed>>
  /\ AfterRead(conn')
  /\ UNCHANGED <<clientVars, wire, unread>>

\* sw_http_upload_save_fields, called by the handler: the body's next unit comes
\* from the read buffer or else from the socket ...
SaveUnit ==
  /\ pc = "save"
  /\ conn.body > 0
  /\ \/ /\ conn.rbuf # <<>>
        /\ conn' = [conn EXCEPT !.body = @ - 1, !.rbuf = Tail(@)]
        /\ UNCHANGED <<inq, timer>>
     \/ /\ conn.rbuf = <<>> /\ inq # <<>>
        /\ conn' = [conn EXCEPT !.body = @ - 1, !.idleAge = 0]
        /\ inq' = Tail(inq)
        /\ Schedule
  /\ UNCHANGED <<clientVars, wire, unread, armed, pc, out>>

\* ... and the handler replies when it has all of the body, and the connection
\* may be kept; or when the body is malformed or does not arrive in time.
SaveEnds ==
  /\ pc = "save"
  /\ \E saved \in {conn.body = 0, FALSE} :
       \E c \in {[conn EXCEPT !.saving = FALSE, !.mustClose = ~saved]} : conn' \in Handled(c)
  /\ Sync
  /\ AfterRead(conn')
  /\ UNCHANGED <<clientVars, inq, wire, unread>>

\* One send() of sw_mgr_connection_writable, and the file's next chunk.
Send ==
  /\ pc = "write"
  /\ conn.wbuf # <<>>
  /\ unread < SendBuffer
  /\ wire' = Append(wire, Head(conn.wbuf))
  /\ unread' = unread + 1
  /\ \E c \in {[conn EXCEPT !.wbuf = Tail(@), !.idleAge = 0]} : conn' \in FillFile(c)
  /\ IF conn'.open
     THEN timer' = Due([conn EXCEPT !.idleAge = 0]) /\ UNCHANGED <<armed, pc, out>>
     ELSE Sync /\ AfterWrite(conn')
  /\ UNCHANGED <<clientVars, inq>>

\* send() would block, or fails.
SendBlocks ==
  /\ pc = "write"
  /\ conn.wbuf # <<>>
  /\ \/ unread = SendBuffer /\ UNCHANGED conn
     \/ client = "gone" /\ conn' = Close(conn)
  /\ Sync
  /\ AfterWrite(conn')
  /\ UNCHANGED <<clientVars, inq, wire, unread>>

\* Mutant: output that is all written is taken for a response.
RespondedAlways == TRUE

Responded == conn.responding

\* sw_connection_finish_response, when all output is written: nothing was written
\* to a request, the connection ends, or the next request begins.
FinishNothing ==
  /\ ~Responded /\ ~conn.closeAfter
  /\ UNCHANGED conn
  /\ Sync

FinishClose ==
  /\ conn.closeAfter
  /\ conn' \in ShutdownSend([conn EXCEPT !.handled = @ + (IF Responded THEN 1 ELSE 0)])
  /\ Sync

\* The entry made while the request was reset stays, unless the next request's
\* head is complete or the next request is already answered.
FinishNext ==
  /\ Responded /\ ~conn.closeAfter
  /\ \E c \in {NextRequest(conn)} :
       IF ~Leftover(c)
       THEN conn' = c /\ Sync
       ELSE /\ conn' \in ProcessInput([c EXCEPT !.started = TRUE])
            /\ IF Answering
               THEN Sync
               ELSE /\ timer' = Due(IF conn'.headers THEN conn' ELSE c)
                    /\ UNCHANGED armed

SendDone ==
  /\ pc = "write"
  /\ ~Pending(conn)
  /\ FinishNothing \/ FinishClose \/ FinishNext
  /\ AfterWrite(conn')
  /\ UNCHANGED <<clientVars, inq, wire, unread>>

-----------------------------------------------------------------------------

ClientStep == (\E kind \in Kinds : ClientSends(kind)) \/ ClientReads \/ ClientStops

WorkerStep ==
  \/ Expire \/ StartWait \/ Hangup \/ Event
  \/ \E n \in 1 .. Len(inq) : Receive(n)
  \/ ReceiveEnds \/ Discard
  \/ SaveUnit \/ SaveEnds
  \/ Send \/ SendBlocks \/ SendDone

Ended == ~conn.open /\ UNCHANGED vars

Next == ClientStep \/ WorkerStep \/ Tick \/ Ended

Spec == Init /\ [][Next]_vars

\* The worker goes on, whatever the client does.
RunningSpec == Spec /\ WF_vars(WorkerStep)

\* Time passes besides.
TimedSpec == RunningSpec /\ WF_vars(Tick)
-----------------------------------------------------------------------------

TypeOK ==
  /\ stream \in Seq(Kinds) /\ Len(stream) <= MaxRequests
  /\ sent \in 0 .. 4
  /\ client \in {"active", "silent", "gone"}
  /\ inq \in Seq([req : 1 .. MaxRequests, part : 1 .. 4])
  /\ unread \in 0 .. SendBuffer
  /\ pc \in {"expire", "wait", "read", "write", "save"}
  /\ out \in BOOLEAN
  /\ conn.request \in 0 .. Len(stream)
  /\ Len(conn.rbuf) <= MaxRead
  /\ conn.handled \in 0 .. KeepAliveMax
  /\ conn.idleAge \in 0 .. Longest /\ conn.phaseAge \in 0 .. Longest
  /\ timer \in (- Longest) .. NoTimer /\ armed \in BOOLEAN

\* The handler is given the client's requests in the order of the stream, each
\* once, and no more of them than keep_alive_max_requests.
DispatchedInOrder ==
  /\ \A i \in DOMAIN conn.seen : conn.seen[i] = i
  /\ Len(conn.seen) <= KeepAliveMax

\* What the client sends after a unit, and what it sends next.
After(u) ==
  IF u.part < Parts(stream[u.req]) THEN Unit(u.req, u.part + 1) ELSE Unit(u.req + 1, 1)

Coming ==
  IF BetweenRequests THEN Unit(Len(stream) + 1, 1) ELSE Unit(Len(stream), sent + 1)

\* The input is all that the client sent from the unit "first" on, in its order.
SentFrom(first, input) ==
  LET units == Append(input, Coming)
  IN  units[1] = first /\ \A i \in DOMAIN input : units[i + 1] = After(units[i])

\* Between two requests, the read buffer and the kernel hold exactly what the client
\* sent after the last request dispatched: nothing is parsed twice or skipped, over
\* pipelining, streamed and buffered bodies.
InputAligned ==
  conn.open /\ ~Ready(conn) /\ ~conn.mustClose /\ ~conn.shut =>
    SentFrom(Unit(Len(conn.seen) + 1, 1), conn.rbuf \o inq)

\* What the client receives is a sequence of whole responses, to its requests in
\* order, with an error of the server's own last; only the last one may be cut off.
LastAnswered(units) == IF units = <<>> THEN 0 ELSE Last(units).to

Continues(unit, before) ==
  IF unit.part = 1
  THEN \/ before = <<>> /\ unit.to \in {0, 1}
       \/ /\ before # <<>> /\ Last(before).part = Last(before).of
          /\ Last(before).to # 0 /\ unit.to \in {0, Last(before).to + 1}
  ELSE before # <<>> /\ unit = [Last(before) EXCEPT !.part = @ + 1]

ResponsesWhole ==
  \A i \in DOMAIN wire : Continues(wire[i], SubSeq(wire, 1, i - 1))

\* The server closes its side only when the last response is complete.
ShutWhole ==
  conn.shut => wire # <<>> /\ Last(wire).part = Last(wire).of

\* A connection that goes on to a next request has answered all before it.
AllAnswered ==
  conn.open /\ ~Ready(conn) /\ ~conn.responding =>
    conn.handled = Len(conn.seen) /\ LastAnswered(wire) = conn.handled

\* Once the client is told that the connection closes, no request is dispatched.
NoDispatchAfterClose ==
  [][conn.closeAfter \/ conn.shut => conn'.seen = conn.seen]_vars

\* A connection that the worker leaves to wait has a valid entry in the heap of timers:
\* whatever the client does not do, the worker will look at it again.  It needs
\* HeaderTimeout >= IdleTimeout: with a shorter header timeout the entry may be lost.
TimerKept == pc = "wait" /\ conn.open => TimerValid

\* A client that does nothing any more does not keep its connection for ever, if
\* time passes.
Reaped == WF_vars(Tick) => (client = "silent" ~> ~conn.open)

\* A request that arrived is dispatched, even if no input ever arrives after it and
\* time stands still, to a client that reads what it is sent; unless the connection
\* ends before its turn, or the handler never answers a request before it.
SentWhole(r) ==
  \/ r < Len(stream)
  \/ r = Len(stream) /\ sent = Parts(stream[r])

Unanswered == pc = "wait" /\ conn.dispatched /\ ~conn.responding

Served ==
  WF_vars(ClientReads) =>
    \A r \in 1 .. MaxRequests :
      SentWhole(r) ~> \/ r <= Len(conn.seen)
                      \/ conn.closeAfter \/ conn.shut \/ ~conn.open
                      \/ client # "active" \/ Unanswered
=============================================================================
