# A TLA+ verification of Syphax-Web

Syphax-Web is a C library for HTTP servers: an event loop over epoll (or
WSAPoll), optional worker threads, request parsing, responses, uploads, sessions
and login tokens, with an HTML builder, a translator and a database interface
beside it. This directory holds TLA+ modules translated from its sources, the
TLC runs that check them on small instances, and TLAPS proofs for instances of
every size.

    tlc -workers 2 -config ServerThreads.cfg MCServerThreads    # a run
    tlapm ServerThreadsProofs.tla                               # proofs
    tlapm ConnectionProofs.tla
    tlapm SessionStoreProofs.tla                                # and ListProofs.tla
    tlapm UploadProofs.tla                                      # and ListProofs.tla
    tlapm StatementProofs.tla
    tlapm LibraryProofs.tla
    tlapm LibraryDataProofs.tla                                 # and ListProofs.tla

Line numbers are those of `src/src/sw_server.c` unless another file is named.

## 1. The system

| Component | State it keeps | Operations | What is hard about it |
|---|---|---|---|
| Server threads (2289-2940) | stop flags of the server and of each worker's manager, thread handles, `worker_count`, `next_worker`, `active_connection_count`, each worker's `pending` array and its mutex | start, run, stop, wait, destroy, the accept loop, the worker loop | threads of three kinds over shared arrays and one counter; failed starts; stops from anywhere |
| Connection (1087-2238, 2561-2642, 3073-3597) | read and write buffers, file being sent, the request being parsed, response flags, timestamps, timer generation | readable, writable, expire, parse, dispatch, reply, finish, close | callbacks in the event loop's order; pipelining; half-close; every error path answers and closes |
| epoll backend (`sw_backend_epoll.c`) | registered events | poll, update, remove | a connection may be closed between two events of one batch |
| Timer heap (1203-1378) | a binary heap of (due, handle, generation) | push, pop, peek with removal of stale entries | an entry is valid only while generation and due time match |
| HTTP parsing (600-1026, 1492-1833) | position in the head, chunk decoder | parse head, Content-Length, chunked decoder | limits, number widths, input cut anywhere |
| Uploads, multipart (3760-4794) | reader state, pending partial match | read, part iteration, save | a boundary may straddle reads |
| Sessions (5095-5446) | array of sessions, each with id, deadline, items | start, find, end, get/set/remove | pointers into an array that other calls shrink; expiry; eviction |
| Login tokens (4882-5093, 5448-5864) | array of tokens, secret | login, current, logout, get/set/remove | the same, and a cookie that must outlive failures |
| Responses, headers, cookies (2960-3757) | queued headers | reply, printf, set_cookie, get_cookie | text; queued before the response begins |
| Static files, paths (2240-2288, 3392-3597) | open file and what remains | serve, send_file | a file that changes while it is sent |
| TLS (240-600) | the want flags; the rest is OpenSSL's | handshake, recv, send, want flags | reading that has to write and writing that has to read, against the epoll mask and the handlers it leads to |
| HTML builder (`sw_html.c`) | output buffer, stack of translation scopes, the doctype's flag | open, end, void, text, reset | one setting per element that must be restored; what is escaped where |
| JS helpers (`sw_js.c`) | the page's script, and in the browser a request's number, timer and abort signal per target | append initializers; live search, replace | text inside JavaScript inside HTML; answers in any order |
| Translator (`sw_translator.c`) | languages, the current one, a table for each | register, set, load, get | a load that fails half-way |
| Databases (`sw_db*.c`) | connection, statements with their parameters, result and position | open, exec, prepare, bind, step, reset, finalize, column values | one interface over two drivers, one of which has no cursor; pointers into memory of the statement; executions that fail |

Interactions. The accept loop counts a connection in the shared counter and
appends it to a worker's `pending` array under that worker's mutex. The worker
copies and clears the array twice in every poll and from then on is the only
thread that touches the connection, until the control thread tears everything
down after joining. Closing a connection subtracts from the shared counter. In
the worker, the backend's events call `sw_mgr_connection_readable` and
`sw_mgr_connection_writable`, which parse, call the program's handler (which
replies through the connection, uses the session store, or stops the server) and
end in `sw_mgr_sync_connection`, which re-arms the timer and the epoll mask.

What makes each part correct. *Threads*: a connection is in one place and served
by one thread, the counter is exact, nothing is left after wait, a stop ends every
call, a queued connection is taken up. *Connection*: requests are dispatched once
and in order, exactly the bytes parsed are consumed, responses are whole and in
order, output is complete before the half-close, a timer is always pending, a
silent client is dropped, input that has arrived is served without more input.
*Stores*: a pointer stays with its entry (which is false under several workers, section 3), a cookie is good as long as it says, an
ended entry never returns, the least recently used entry is evicted.
*Statements*: each row of one execution is given once and in order, a failed
execution can be tried again, pointers stay valid as long as the header says,
memory is freed. *Readers of requests*: what is read is what the sender wrote, however
it is cut, quoted or escaped. *Timer heap*: no deadline is passed unseen, the poll ends
in time. *Pages*: a browser reads back the elements and texts the program appended.
*Scripts*: the newest answer is what stays on the page.

PROJECT.json lists every component with what is modelled of it, and every hazard
with its line and the properties that watch it.

## 2. The modules

### ServerThreads, ConnectionSlots, ServerThreadsProofs

`ServerThreads` has one program counter for each thread: `ctl` (the control
thread, which makes API calls), `accept` (the accept loop, on its own thread after
`sw_server_start`, on the control thread in `sw_server_run`) and `worker[w]`. A
step is what a thread does between two accesses to shared state:

| In the code | In the module |
|---|---|
| `sw_server_start`, `sw_server_start_workers` (2751-2846) | `BeginStart`, then `StartWorker` or `StartWorkerFails` for each worker, `StartLoop` or `StartLoopFails`; a failed start goes on as `unstart`: it stops the threads and does not join them |
| `sw_server_run` | the same, then the loop runs with `ctl = "running"` |
| `sw_server_stop` (2668) | `StopRoot`, `StopWorkers` for the control thread, `AcceptStopRoot`, `AcceptStopWorkers`, `HandlerStop` for the others; a signal sets the server's flag only (`Signal`) |
| `sw_server_wait`, destroy | `BeginCall`, `JoinAccept`, the stop, `JoinWorker`, `JoinedWorkers`, `ClearPending`, `CloseWorkerConnection`, `Closed` |
| accept loop | `AcceptCheck`, `AcceptIdle`, `AcceptFails`, `AcceptRefuse`, `AcceptReserve`, `DispatchAdd`, `DispatchUnlock` |
| worker loop | `WorkerCheck`, `DrainCopy`, `DrainClear`, `CreateConnection`, `CreateFails`, `DrainDone`, `CloseConnection`, `ServeDone`, `WorkerFails` |
| `sw_mgr_release_connection` (1079) | `ReleaseLoad`, `ReleaseSubtract`: the test and the subtraction are two steps, other threads run between them |

The mutex is held from `DrainCopy` to `DrainClear` and from `DispatchAdd` to
`DispatchUnlock`. The stop flags are plain bytes in the code; a read or a write of
one is one step here.

`ConnectionSlots` is the abstract specification: a pool of `MaxConnections` slots
that each connection passes through in stages (waiting, admitted, serving, closing,
away), and that is empty when it ends. `ServerThreads` implements it
(`ImplementsSlots`): the mapping forgets threads, queues and locks, and `active`
becomes the number of connections inside.

### Connection, ConnectionProofs

The `struct sw_connection` is the record `conn`; `pc` says where the worker is
(`expire`, `wait`, `read`, `write`, `save`). A request is two to four units (first
part of the head, end of the head, body), a response is two or more units, each
labelled with the request it answers, and the kernel's buffers are sequences of
units (`inq`, `wire`, `unread`).

| In the code | In the module |
|---|---|
| `sw_mgr_expire_timeouts` (2593), the poll timeout (2574) | `Expire`, `StartWait` |
| epoll_wait and the events of one connection | `Event` (`Readable`, `Writable`, `Hangup`; `AfterRead`, `AfterWrite`) |
| `sw_mgr_connection_readable` (1998) | `Receive`, `ReceiveEnds`, `Discard`, with `Overflows`, `ReplyTooLarge` |
| parse, dispatch and the handler (1586-1833, 2090-2132) | `ProcessInput`, which includes `Dispatch` and every reply: a body, a file, several writes, none, one that fails at the write buffer's limit (`ReplyFails`), an upload saved or refused (`SaveUnit`, `SaveEnds`) |
| `sw_mgr_connection_writable` (2164) | `Send`, `SendBlocks`, `SendDone`, `FillFile` |
| `sw_connection_finish_response` (2134) | `FinishNothing`, `FinishClose`, `FinishNext`, which parses what is left in the buffer |
| half-close, close (1380-1459) | `ShutdownSend`, `Close` |
| timer heap, for this connection | `timer`, `Due`, `Schedule`, `TimerValid` |
| `sw_mgr_sync_connection` (1422) | `Sync` |
| the client and the kernel | `ClientSends`, `ClientReads`, `ClientStops`, `Tick` |

Abstractions. A `bad` request stands for every parse error (400, 413 for a body,
431): they take the same path. A handler answers before it returns. A reply that would
pass `max_write_buffer_bytes` (3162, 3311) may fail in the first append of its head, after
the head is queued, or (`sw_http_printf`, 3380) after a part of the text that did not fit
was left behind; the handler is told, and leaves it at that. A chunk of a file that does not
fit closes the connection (1851, 2181). The server's own answers are taken to fit: with a
buffer too small for a status line and its headers (some 130 bytes) `begin_response` would
fail for them too, with nothing queued, and the connection would be closed at once (2566). TLS is in
`TlsTransport`. The socket is writable when one unit fits.
`saved` bytes go to a file whose writing may fail at any unit. Time passes only
while the worker waits: a handler takes none.

### SessionStore, Lists, ListProofs, SessionStoreProofs

One module for the two stores, which have the same table: `kind` says whether the
calls are `start`, `find`, `end` (sessions) or `login`, `current`, `end` (tokens).
`entries` is the array, a pointer is an index, an identity is a number never used
before. Each call is an operator that yields the set of its outcomes, one for each
way it may succeed or fail: `Start`, `Look`, `Login`, `Current`, `End`. A browser
has one cookie and several connections; it sends the cookie it has (`Send`), a
handler makes calls (`Begin`, `Call`, `Respond`), and the response's cookie takes
effect when it arrives (`Deliver`), if it does (`Lose`). Expiry, removal and eviction
compact the array in place and keep its order: `Kept(s, I)` of `Lists` is that loop, as a
recursive function, since proofs can say nothing of `SelectSeq`. A browser may send a cookie
the server did not issue (`Foreign`): a session's is then looked for in vain, a token's is
refused when it is decrypted (5544). The stored items and the encryption itself are left out.

### Statement, Cursor, StatementProofs

The postgres driver has no cursor: the first step executes the statement and keeps
its whole result, and later steps count through it. `Statement` is that driver
(`sw_db_postgres.c`) behind the interface of `sw_db.c`, one record of `stmt` for
each `sw_db_stmt` with its `sw_pg_stmt`:

| In the code | In the module |
|---|---|
| `sw_pg_prepare` (496) | `Prepare` |
| `sw_pg_bind_*` (596-663) | `Bind` |
| `sw_pg_step` (735) with `sw_pg_execute_stmt` (665) | `ExecuteFails`, `StepInsert`, `StepSelect` where there is no result, `StepNext` and `StepDone` where there is one |
| `sw_pg_reset`, `sw_pg_finalize` (538-567) | `Reset`, `Finalize` |
| `sw_pg_column_text`, `sw_pg_column_blob` (811-850) | `ColumnText`, `ColumnBlob`; columns that are NULL return no pointer and change nothing |
| `sw_pg_exec` (467), other users of the table | `Exec` |

`held` is what the program keeps: the pointers it was given, until the header says
they end. `KeepsBlobs` says whether it keeps one blob's pointer while it asks for
another. An insert and a select stand for all statements that change the table and
that give rows; the rows themselves, parameters but one, transactions and the count
of changes are left out, as are errors that change nothing (a bad index). The
connection does not break: whether the server executed a statement whose answer is
lost is not known to the driver.

`Cursor` is the abstract specification, without results and positions: a statement
that was executed has the rows it has still to give (`left`) and the one it gave
last (`at`). `Statement` implements it (`ImplementsCursor`): `left` is what follows
the position, a failed execution is a reset, column functions are stutters.

### The readers of requests

Four modules, with `Texts` for what they share. A text is a sequence of symbols; a
symbol stands for a character, or for a run of them no reader looks into. Each module
says how a sender writes something (with every escape and every way to cut it), what
the code reads from it, and requires that both agree.

| Module | Code | State and actions |
|---|---|---|
| `RequestFraming` | `sw_connection_try_parse_request` (1586-1833) with its numbers (647-782), the chunk decoder (784-880) and the limits | the bytes of a request and what follows it; `Arrive` shows the parser any longer prefix. It starts anew at each, as the code does |
| `RequestPath` | path decoding and resolution, serving and sending a file by path (3392-3628) | a path, written token by token (`Write`), over a small tree with a hidden file, a directory and links |
| `RequestFields` | variables (3773-3862), cookies (3643-3757), parameters of a part's header (3895-3967) | a list of fields, each `Write` adds one: bare, plain, quoted or percent-encoded |
| `MultipartUpload` | the reader of uploads from the socket (4405-4794) and the iterator over a body in memory (4063-4327, 4624-4654) | the form, the reader's buffer, the line, the pending partial boundary, the file; one action for a byte taken, a read, each kind of line, a failed write, the drain and the return |

* *Framing*: a head without header lines, which HTTP/1.0 allows, is refused with 400, since
  the end of the request line is sought before the empty line only (1623-1626); so is a line
  of fewer than two spaces, and a header without a name. `Framed` promises a client nothing
  else: no document of the repository does. `MaxRead = 0` (no limit) is defined and not run.
  Numbers have a radix of 4 and a `size_t` of 63, so that they overflow
  within four digits. A chunked trailer that is within three bytes of `max_header_bytes`
  may be accepted or refused, depending on where the input is cut: whether the limit
  counts the final CRLF depends on how much of it has come. `NearLimit` names these.
* *Fields*: an absent variable or cookie reads as an empty one, as in the code. Names of variables are not percent-decoded, and a value that does not fit
  the caller's buffer is cut silently; `FieldsExact` says both. The values of a part's
  header keep their backslashes. Finding the boundary in Content-Type is left out.
* *Uploads*: the two readers accept different forms. From the socket, the last "--"
  must be followed by CRLF; in memory it need not, and a body cut after a whole file
  part is accepted. Parts without headers and data that begins with the boundary are
  read differently too. `Acceptable` is what both must accept unless a call fails, and
  `UploadExact` says so, and that a form reported as saved gave its file to the byte (and, if
  `Acceptable`, its value).

### The library's other parts, LibraryProofs, LibraryDataProofs

| Module | Code | State and actions |
|---|---|---|
| `TimerHeap` | the heap (1203-1378), `sw_mgr_expire_timeouts` (2593), the poll timeout (2574) | heap, each connection's deadline and generation, `wake`; `Accept`, `Activity`, `Leave` and the loop's `Expire`, `Wait`, `Wake`, `Tick`. Only waiting takes time |
| `TlsTransport` | the handshake, recv and send (453-596), `sw_connection_wants_read` and `_write` (1492-1526), the handlers over them (1998-2238), the epoll mask | the `tls_*` flags, `mask`, the handler's `call`; `Event`, then `Blocks`, `Exchange`, `Protocol`, `Receive`, `Send`, `Finish` until the call would block or the response is out |
| `SqlText` | `sw_pg_rewrite_sql` (`sw_db_postgres.c`) | a statement, written unit by unit: parameters, strings, names, comments, dollar-quoted bodies |
| `Translator` | `sw_translator.c` | languages, current one, tables; registering, choosing, loading one table or all of a file, with failures between |
| `Page` | `sw_html.c`, the initializers of `sw_js.c` | the builder `h` and the calls `said`; `Seen` parses the page as a browser does, `MeantCall` says what a call means, from the calls alone |
| `LiveRequests` | `liveSearch` and `fetchReplace` in the script of `sw_js.c` | the input, the timer, the requests and the target element; answers, bodies and failures come in any order |

* *Timer heap*: an entry is never removed from the middle; one that no longer counts
  stays until it reaches the root. Here each change of a deadline adds one
  (`Schedule`); whether the worker does so is asked of `Connection` (`TimerKept`, and the
  lost timer). The loops that sift an entry and drop stale ones
  are `Turns` of `Loops`: so many turns of a function that leaves its value alone once the
  loop would have ended (`Rise`, `Sink`, `Peek`).
* *TLS*: OpenSSL is a sequence of flights that an exchange still has to read or write
  (the handshake's four; a key update of TLS 1.3; a renegotiation of TLS 1.2, which the
  code forbids where OpenSSL can, 374), and what it has decrypted and not given. Every
  call goes on with the exchange before its own work. Which call the event's handler
  makes is chosen once, when it begins. `NeverStalls` excepts one thing: a client that
  pipelines may put more in a record than the 4096 bytes of a read. What is left stays in
  OpenSSL when the request is answered; epoll does not report it and the code never asks
  SSL_pending, so that request waits until the client sends more or is timed out.
  Certificates, ALPN, errors and closing are left out.
* *SQL*: units are joined by blanks and all are closed. Where PostgreSQL and the scanner
  read differently the statements are left out: nested block comments, a name with a
  `$` or ending in `e` directly before a quote. The growth of the buffer is abstracted.
* *Translator*: reading files and JSON are abstracted to a list of members. `LoadAllFails`
  is an allocation that fails between two languages: those before it have their new table.
  The loops over members and languages are recursive functions of the position.
* *Page*: appending does not fail. Not covered: `<html>` with a translation attribute of
  its own (its `dir` follows the setting outside, its `lang` the one inside), elements
  never closed, empty values of attributes, raw text.
* *Requests of a page*: a replaced element keeps its id and has one binding. Without
  `abortStale`, an older request that fails late marks the newer success as an error;
  `Settled` excepts that case and says so.

### MC modules

`MCServerThreads`, `MCConnection`, `MCSessionStore` and `MCStatement` give the constants their
sets and the symmetry. `MCRequests` and `MCLibrary` put modules that do not interact beside
each other: a behaviour is one of a single module (`reader`, `part`), and a property
speaks of that module's behaviours. `MCLibrary` extends `TimerHeap`, `Translator`,
`LiveRequests` and `TlsTransport`, and `MCRequests` extends `MultipartUpload`, of which
theorems speak; in the behaviours of the others their variables keep a value in which
their properties hold too. No definition of a module is replaced.

## 3. The runs

| Run | What it shows |
|---|---|
| `threads` | Two workers, three connections for two slots, two starts with every call and failure between them: `SlotsExact`, `SinglePlace`, `TeardownExclusive`, `NothingLeft`, `FairShare`, and the refinement `ImplementsSlots` |
| `threads_live` | One start under fairness: `TakenUp` (a queued connection is taken up) and `StopCompletes` (wait, run and destroy end) |
| `connection` | Three pipelined requests of every kind and every reply, the header timeout not below the idle timeout: `DispatchedInOrder`, `InputAligned`, `ResponsesWhole`, `ShutWhole`, `AllAnswered`, `TimerKept`, `NoDispatchAfterClose` |
| `connection_limits` | A read buffer that fills, replies that do not fit the write buffer, files that shrink and short timeouts: `InputAligned`; with time that goes on, `Reaped` (a silent client is dropped); without, `Served` (a request that has arrived is dispatched though nothing follows it) |
| `connection_overflow` (violation) | the 413 for a full read buffer cuts off the response being written |
| `connection_stalled` (violation) | header timeout shorter than idle timeout: a client that stalls inside a pipelined head is never timed out |
| `sessions` | Both stores, one worker, browsers that send back their cookies or some of their own making: `CookieHonoured`, `EndedForGood`, `GivenInTime`, `EvictsOldest` |
| `sessions_workers` (violation) | `Private` with two workers: the call of one handler takes away the entry another handler has a pointer to |
| `statement` | Two statements over a table of up to three rows: `PointersValid` (one blob at a time), `NothingLost`, and the refinement `ImplementsCursor` |
| `statement_blobs` (violation) | `PointersValid` for a program that keeps a blob's pointer as long as `sw_db.h` allows |
| `requests` | The readers, on everything a sender of bounded size may write: `Framed` (a request ends where its sender ended it, whatever has arrived), `PathServed` (the file a path names inside the docroot, and no other), `FieldsExact`, `UploadExact` (an upload stores its files and values to the byte and takes no byte of the next request) |
| `library` | The library's other parts: `TimersOrdered` (nothing due is left when the worker waits, and it wakes in time), `NeverStalls` (when a TLS call could go on, an event is reported whose handler makes a call that goes on), `StatementText` (each parameter numbered, all other text as it was), `TranslationsWhole`, `PageExact`, `Settled` |

### Bounds, and why they are enough

* `threads`: two workers show both the rotation and two threads that release at
  once; three connections for two slots show a refusal, a full counter and a slot
  used again; two starts show what a call finds of an earlier one. `MaxArrivals`
  lets a connection come back. The proofs remove these bounds.
* `threads_live`: one connection and one start. `TakenUp` is not promised of a second
  start: `sw_server_wait` joins the workers and leaves `worker_count`, so a start after it
  takes them for running (2759), returns 0 and queues connections for nobody. No document
  or test says that a server can be started again, so no run calls this a bug; `threads`
  has such starts, and its properties hold in them.
* `connection`: three requests are one answered, one being answered and one behind
  it in the buffer; `KeepAliveMax` 2 ends the connection within them; `SendBuffer` 2
  is smaller than two responses, so that writing blocks. `MaxRead` 12 is never
  passed in this run; `connection_limits` has 5. The header timeout is the idle timeout, 3
  ticks, the least with which no timer is lost (below), and those of body and
  writing are shorter.
* `sessions`: two connections of one browser race; a table of two with three
  identities is full, evicts and shifts; ttl of two ticks and three ticks of time
  show an entry that is used, one that expires and a cookie kept for part of it; two
  calls in each handler.
* `sessions_workers`: two browsers of one connection each, and a table of one, which
  any entry fills: the smallest instance in which one handler can evict what another has.
* `statement`: a second statement changes the table between the first one's steps;
  three rows are a first, a middle and a last one; two kinds of rows tell given rows
  apart, and NULL is one of them since an unbound parameter inserts it. The proofs
  remove these bounds.
* `requests`: request lines right and wrong, heads of none to two headers of 14 kinds (a third
  is over `MaxHeaders`); forms on both sides of `StreamThreshold` 2, and of what `MaxRead` 17
  leaves behind a head of `MaxHeader` 16; chunks
  whose data holds CR, LF and "0" in every order of two, one or two of them; sizes that
  are odd, wrong, too large for `MaxBody` 5 and for `SizeMax` 63; trailers up to two over
  `MaxHeader`. Paths of four tokens reach every file, `..` written four ways and a
  link out. Two fields, one's name a beginning of the other's, with values of three tokens
  and a buffer (`ValueCap`) of three. Parts with every data of three symbols of the
  boundary, read in pieces of two (`ReadChunk`), so that a boundary is cut at every
  place; lines of four symbols (`LineLimit`), values of three (`FieldCap`).
* `library`: five deadlines of three connections make a heap of three levels with stale
  entries anywhere; three requests over TLS, in records that end inside a request, with a
  client that begins two exchanges of its own at any time; statements of two units, each holding two pieces of the other kinds'
  quotes; four calls of the translator register, load, load again and choose; pages of
  four calls have three levels or an element beside another; four requests are two
  under way, one abandoned and one new.

Both runs say `CHECK_DEADLOCK FALSE`: a reader ends with its answer, and each part of the
library stops at its bound.

`sessions` has one worker, whose handlers do not interleave, so it says nothing of pointers
into a table that others change. `sessions_workers` has two and asks that alone: `Private` is
violated, as the list below says.

Where the bounds stop one of the other runs (no more requests, arrivals, identities or
ticks) the system may stop, but it is no deadlock: the worker, the client or a handler
always has another step, or the end is a step that changes nothing.

### Fairness

`FairSpec` has weak fairness for each thread's steps: the scheduler runs a thread
that can go on, and a worker's poll returns within 50 ms (2644, 2725). Calls of the
API, clients and signals are not fair: nobody has to act. In `Connection`, `RunningSpec`
has weak fairness of the worker only (its poll returns when something is ready, and the
loop goes on); time may stand still and the client may do nothing. `TimedSpec` adds
time. `Reaped` needs time and `Served` a client that reads what it is sent; each states
that as its premise. A mutex needs no strong fairness: each
worker's is contended by the accept loop alone, whose turn ends.

### Disagreements with the code's documents and tests

1. **413 over a response** (`connection_overflow`, 2039). Too much pipelined input
   is answered at once, in the middle of the response being written.
2. **Lost timer** (`connection_stalled`, 2156). A pipelined partial head moves the
   deadline forward without a new heap entry, and the old entry is dropped as stale.
3. **Pointers of a shared store** (`sessions_workers`, 5323). `src/README.md` configures
   four workers (109) and goes on using the session or token that a call returned
   (126-127, 140-141). The store has no lock and its entries move: another worker's call
   may evict that entry in between.
4. **Blob pointers** (`statement_blobs`, `sw_db_postgres.c:836`). `sw_db.h:73-74`
   promises pointers "valid until the next step/reset/finalize call on that
   statement"; each `sw_pg_column_blob` frees what the one before returned.

The passing runs of `Connection` exclude 1 and 2 by their constants only. 1 needs input
beyond `MaxRead`: `connection` has room for all a client sends, and `connection_limits`
does not ask for `ResponsesWhole`. 2 needs a header timeout below the idle timeout: both
runs have them equal. The default configuration does not (5 s and 15 s, 2254-2255), so it
has the lost timer; `TimedOrLost` (section 4) says in which state exactly, whatever the timeouts.
`FileShrinks` lets a file end before the announced Content-Length (1844): the response is
then taken for whole, and with keep-alive the next one follows. No document says what
should happen; `connection_limits` has such files, `connection`, whose `ResponsesWhole`
they would break, has none.

## 4. The proofs

Each theorem holds for every value of the constants that meets the assumptions its
component's module states (`ASSUME`), and TLC evaluates those on the runs. What a
theorem assumes besides is named here.

### Threads (`ServerThreadsProofs`)

Any number of workers, slots and connections (`Conn` may be infinite), starts and
arrivals.

| Theorem | States |
|---|---|
| `Inductive` | `IInv` holds of every behaviour |
| `TypeCorrect` | `TypeOK` |
| `CountIsExact` | `SlotsExact` |
| `OnePlace` | `SinglePlace` |
| `TeardownIsExclusive` | `TeardownExclusive` |
| `EverythingReleased` | `NothingLeft` |
| `DealtInTurn` | `FairShare` |
| `ServerImplementsSlots` | `ImplementsSlots` |

`IInv` is `TypeOK /\ SinglePlace /\ Mutexes /\ Hands /\ Counts /\ Calls /\ Ending`.
None of the checked invariants is inductive alone:

* `Counts` is `SlotsExact` with the finiteness of `Held`, without which a
  cardinality says nothing. The release step needs the connection it removes to be
  in no other place (`SinglePlace`), and a thread that subtracts to have one in its
  hand (`Hands`): this is why the two-step release never goes below 0, although
  another thread may lower the counter in between.
* `SinglePlace` needs the copy made under the mutex to be all of the array when it
  is cleared, hence `Mutexes`: who holds a mutex follows from program counters.
* `TeardownExclusive` and `NothingLeft` need `Calls` (which program counters and
  threads each call goes through, failed starts included) and `Ending` (whoever
  closes is alone; without an accept loop and outside a closing call nothing is held).

Each conjunct has a lemma (`TypeStep`, `PlaceStep`, `MutexStep`, `HandStep`,
`CountStep`, `CallStep`, `EndStep`) with one step per action; the many actions that
touch no connection are handled once (`Still`). The refinement is `StepSimulation`:
`AcceptReserve` is `Admit`, `ReleaseSubtract` is `Release`, the steps that take a
connection out of an array are moves between stages, and the rest stutter.

`FairShare` is not inductive either. `Dealt` says where the turn stands: for some `n`, the
workers before `next_worker` have been given `n + 1` connections and the others `n`
(`Turn`), and while a dispatch is under way the index is already the next one and the count
of the worker whose mutex is held has still to follow. A start begins anew at 0.

### A connection (`ConnectionProofs`)

Any number of requests, any limits and timeouts, any subset of the kinds of requests and
replies; files that shrink, replies that fail and input that overflows are included.

| Theorem | States |
|---|---|
| `Invariant` | `IInv` holds of every behaviour |
| `TypeCorrect` | `TypeOK` |
| `HandlerOrder` | `DispatchedInOrder` |
| `NothingLost` | `InputAligned` |
| `AnsweredBefore` | `AllAnswered` |
| `AlwaysTimed` | `TimerKept`, if `HeaderTimeout >= IdleTimeout` |
| `TimedOrLost` | an open connection has an entry in the heap that counts, or has lost it as `TimerLost` says |
| `NoneAfterClose` | `NoDispatchAfterClose` |

`IInv` is `Shape /\ Sound(conn, stream, wire) /\ Aligned /\ Worker /\ Timers`, where `Sound`
is what holds of the connection wherever the worker is, so that lemmas about operators
(`HandlerSound`, `ProcessSound`, `NextSound`) can speak of the record they return:

* `Aligned` is `InputAligned` for every state of a connection that goes on, not only
  between requests. `FirstUnit` says where its input begins: at the request in hand, which
  stays in the buffer until it is answered, or at the unit of a streamed body that comes
  next. `Chain` says of a sequence that each unit follows the one before and the last one
  is the last the client sent; taking units from its front (`ChainConsume`), moving them from
  socket to buffer and sending one more (`ChainSent`) preserve it.
* `Requests` relates the request in hand to those dispatched, and their number to
  `handled`; `DispatchedInOrder` is a part of it. Without it consuming could take
  the wrong number of units.
* `Replying` says which flags of the reply exclude each other, `Answered` what is to be
  written belongs to the request in hand, hence `AllAnswered`: when the reply is
  written, the last unit on the wire answers it.
* `Timers` holds wherever the worker is but in the middle of writing, where
  `sw_mgr_sync_connection` has still to be called; `TimerKept` speaks of waiting only.
  `TimerLost` is the one exception, the state that 2156 leaves: a request begun within its
  pipelined head, nothing to write, EPOLLOUT still armed, and a header timeout below the
  idle timeout. `AlwaysTimed` assumes the timeouts with which that cannot be. `Timers`
  needs `Worker`: a half-closed connection writes nothing and is not armed.

`NextInv` has one step per action, and shows besides that no step of a connection that is
to be closed adds to `seen`, which is `NoDispatchAfterClose`.

### What the client receives (`ConnectionProofs`, its second half)

| Theorem | States | If |
|---|---|---|
| `ClosesAfterLast` | `ShutWhole` | `"large" \notin Replies`, `~FileShrinks` |
| `WholeWhileItFits` | `ResponsesWhole` | the same, and `[]Fits` |
| `ResponsesAreWhole` | `ResponsesWhole` | the same, and `MaxRead >= 4 * MaxRequests` |

The argument is about `All`, what was written together with what is still to be written. A
step either leaves `All` alone (writing moves a unit from one part to the other), or adds
one whole response when nothing was left to write, or drops what was left and closes: these
are the cases of `Effect`, and `NextEffect` shows it of every action. `Sequenced` says that
`All` is whole responses in order as long as the connection goes on, `Ending` that a
connection which is answering or ending has a whole response last, and `Flushed` that only the
writer finishes a reply after which the connection closes.

The hypotheses are the cases in which the code does otherwise. A reply larger than
the write buffer may leave its head behind, a file that shrinks ends its response early. `Fits`
says that what the client has sent fits the read buffer while a response is
written: otherwise the 413 is put inside that response, the run `connection_overflow`. No
server can know `Fits` in advance; `ResponsesAreWhole` discharges it where the buffer holds
all that a client sends on the connection (`HeldStep`: buffer and socket never hold more
than was sent), which is how `connection` is configured.

### The stores (`SessionStoreProofs`, with `ListProofs`)

Any browsers, connections, workers, limits and lifetimes.

| Theorem | States |
|---|---|
| `Invariant` | `IInv` holds of every behaviour |
| `TypeCorrect` | `TypeOK` |
| `EndedStaysEnded` | `EndedForGood` |
| `CookiesHonoured` | `CookieHonoured` |
| `GivenOnlyInTime` | `GivenInTime` |
| `OldestEvicted` | `EvictsOldest` |

`IInv` is `Shape /\ Table(entries, made) /\ Served /\ EndedForGood /\ Deadlines`. `Table` says
that no two entries have one name and that none was touched after now: the first makes
removing an entry by its name remove one entry, which `EndedForGood` needs. `CookieHonoured`
speaks of browsers only; `Deadlines` says the same of replies still on their way, and that
the entry's own deadline is not before the cookie's, as expiry looks at the former.
Each operation on the table has a lemma that says what it keeps (`CleanUpIs`, `MakeRoomIs`,
`AddedIs`...), each call then one for all of its outcomes (`CallSound`), and each theorem
follows from what `Sound` says of an outcome. `Spared` in it is the eviction:
an entry of the call's scope that is gone was the oldest of a full table of good ones.

`ListProofs` proves that `Kept(s, I)` has the elements of `s` at `I`, in their order, and no
others (`KeptPicks`, `KeptLen`). That a recursive function has the value its definition says is
proved from the definition (`KeptRecursion`). The library's induction theorems take an operator
as a parameter, which the provers cannot instantiate; `NatInduct` and `NatMinimum` state
induction and least elements over a set of naturals instead, which they can.

### Uploads (`UploadProofs`, with `ListProofs`)

Any forms, headers, data and tails, any size of a field, of a read and of a line's limit, any
cut of the body; every way of the bytes to arrive, and failures anywhere.

| Theorem | States | If |
|---|---|---|
| `UploadLeavesNextRequest` | `NextRequestIntact`, a part of `UploadExact` | |
| `UploadStoresExactly` | `UploadExact` | `streamed \/ Headed(form)` |

`FormsAssumption` says what a form is: the end of a line is in no header, and the boundary
neither in the data of a part nor at its beginning; the parts and their text are any.
`Headed` says that each part of this form has a header. The code needs it in memory only:
`sw_http_next_multipart` (4204) looks for a part's empty line behind the part's first line
end, so it takes the data of a part without headers for headers, and may keep the file of
another part than a reader of the standard would. From the socket nothing is assumed.

`UploadInv` says where the reader is in what was sent.

* *From the socket* (`Streaming`): `Input` says that buffer, chunk and socket together hold
  what was sent from the byte `remaining` names; no step takes a byte behind the body,
  which is `UploadLeavesNextRequest`. Each state of the reader has the part and the
  place in it (`HeaderAt`, `DataAt`, `AfterAt`, `AtEnd`), of forms that will be refused too.
* *Lines*: `AtLine` is a text of which a line was read without its end. Where what is left
  begins with a line that is known, the line that ends is that line (`LineMatches`).
* *Data*: what was written and what is pending are together what was read of the part's
  data and of the marker behind it (`ReadsOn`). `DataStep` shows it of a byte: the longest
  end of what was read that may begin a marker is kept (`LongerBeginning`), so that no byte
  is written that belongs to the marker and none is lost that does not. This is the part a
  naive reader gets wrong (the mutant `StillPendingNaive`).
* *In memory* (`InBody`): the places of a part in the body are those of its text
  (`PartPlaces`), the empty line found first is the one behind its headers
  (`HeadersEndAt`), the boundary found first the one behind its data (`NextBoundaryAt`),
  hence `PartFound`. The lemmas about least and greatest places come from `NatMinimum`.
* *Files and values*: after `i` parts the file is that of the first wanted part among them
  and the value that of the last note (`FileKept`, `NoteTo`).

`StepKeeps` has one step per action, each with a lemma of its own (`LineByteKeeps` to
`LeaveKeeps`, `NextPartKeeps`).

### Statements (`StatementProofs`)

Any statements (`Stmt` may be infinite), any rows and tables of any length.

| Theorem | States |
|---|---|
| `StatementTypes` | `TypeOK` |
| `MemoryFreed` | `NothingLost` |
| `PointersStayValid` | `PointersValid`, if `~KeepsBlobs` |
| `StatementImplementsCursor` | `ImplementsCursor` |

`TypeOK` with `Positioned` (the position is among the rows, only a select has rows)
is inductive. Pointers and refinement need `Fresh` besides: a statement that is not
prepared has nothing, so that preparing it leaves no pointer to what it had and
starts the cursor anew. `PointersStep` goes by three cases: steps that end the
program's pointers (`Dropped`), steps that keep the memory (`MemoryKept`), and
`ColumnBlob`, which frees only what nothing refers to. In `CursorStep`, what follows
the position is a subsequence whose head is the row given and whose tail is left
(`NextGiven`, from `HeadTailOfSubSeq` of the library). Records are updated field by
field (`SetSql` to `SetCache`), since the provers cannot see through several
`EXCEPT`s at once.

### TLS and the requests of a page (`LibraryProofs`)

Any number of units, of records of any size, of responses of any length and of exchanges
that the client begins; any number of requests of a page.

| Theorem | States |
|---|---|
| `TransportNeverStalls` | `NeverStalls` |
| `PageSettles` | `Settled` |

For TLS, `TlsInv` is `TlsShape /\ Calls /\ Wants /\ Mask /\ Kernel /\ Units`.
`NeverStalls` speaks of a worker that waits; what a handler leaves when it returns
depends on all it did:

* `Mask` says which directions epoll is asked for, while handlers run too. Two of them
  leave the mask as it is (a unit received while a response is under way, a response
  that ends with a part of a request in the buffer), and are right because it asks for
  enough already.
* `Wants` is why readable input may be left: a write waits for a read only within an
  exchange whose next flight is to be read, and the next call is that write. It is what
  the mutant `CallReadsInput` breaks.
* `Kernel` orders the records: a flight comes first, and only when it is awaited. This
  makes an event that is reported for the exchange the exchange's.
* `Units` counts: what was decrypted and what the records hold is what the client
  sent (`Amount`: a sum, given by the function of its partial sums). So a client of
  which OpenSSL holds data back has sent more than the request in hand.

`Calm` gathers what the first four say of the moment a handler returns: each of the
worker's steps that returns establishes it, and `ReturnStep` does the rest. There is one
lemma per action of the worker (`EventStep` to `SendStep`) and one for the client
(`TlsClientStep`).

For a page, `LiveInv` adds to `Settled` what holds while requests are under way: where
requests are aborted none before the last is (`Aborted`), and once the last has
ended the element shows its outcome (`ShowsLast`), which later ends of older requests leave.

### Timers and translations (`LibraryDataProofs`, with `ListProofs`)

Any connections (`Conn` may be infinite), deadlines, poll timeout and number of entries; any
languages and files.

| Theorem | States |
|---|---|
| `TimersAreOrdered` | `TimersOrdered` |
| `TranslationsAreWhole` | `TranslationsWhole` |

*The heap.* `Ordered` says that no entry is due before its parent. While an entry rises, the
heap is ordered but between it and its parent; while one sinks, but between it and its
children; in both, what lies above and below the place is in order, so that the swap leaves
one such place further on (`RiseTurn`, `SinkTurn`) and at most as many turns as the heap has
entries leave none. From this each operation keeps the order and the entries: `PushFacts`
(all and the new one), `PopFacts` (all but the root), `PeekedFacts` (all that count).
`TimersInv` is the order, that each live connection has an entry that counts, and that
neither the clock nor `wake` is past its deadline; of a worker that waits, the last is why
time may go on. `TimersImplied` gets the property from it: the root of an
ordered heap is the earliest of all (`RootLeast`), and once stale roots are dropped it
counts (`PeekedRoot`), so it is the deadline of a live connection.

*The translator.* `TranslatorInv` has `Sounds`: both lists have one entry for a code, and
each table is of a registered language. With it "the table of a code" means something
(`FindIs`), and to place a table changes what that code finds and nothing else (`PlacedFinds`),
whether it is added or takes the place of another. `AddItemFacts`, `AddGroupFacts` and
`CollectedFacts` say that collecting a file's groups gives each code the pairs that are meant
for it, in one table each; `StoredFacts`, that storing the first `n` tables of what was collected
leaves the other languages as they were, which is also the failure between two of them.
`TranslatorInv` then says that the tables hold what each language was last told,
and `Says` that a call of `get` finds it. A chosen language is always a registered one.

`ListProofs` has what both need of recursive functions: that one defined on `0 .. n` exists
and has the values its definition says (`Recursion`), and what any number of turns of a
loop keeps and reaches (`TurnsKeep`, `TurnsEnd`).

### Only model-checked

* Liveness: `TakenUp`, `StopCompletes`, `Reaped`, `Served`. They rest on fairness and
  ENABLED.
* Of the run `requests`: `Framed`, `PathServed` and `FieldsExact`. Their readers
  are recursive operators over texts, which the provers cannot expand, and filters of
  sequences by an operator (`SelectSeq`), which they cannot instantiate.
* `StatementText` and `PageExact` of the run `library`: the same holds of the SQL scanner
  and of the page.

## 5. Plan

What is left, the most important first:

1. The other readers' scanners (framing, paths, fields) as recursive functions, as the
   heap's and the translator's loops are, and proofs about them.
2. `Connection`: replies made after the handler returned; several connections in one
   batch of events.
3. A composition of `Connection` with `ServerThreads`: a worker that serves several
   connections and a teardown with open ones.
4. Closing a database with statements open, transactions, the sqlite driver's cursor.

## 6. Not modelled, and why

Certificates, ALPN and the other settings of TLS: they are handed to OpenSSL. The WSAPoll backend: the same interface as epoll, for another system. The sqlite
driver: each call is one of SQLite's, which keeps the state. Utilities: clock, files and
JSON as the callers use them. Examples, stress tool, tests and build files: users of
the library. The script's toggles, classes and modals and the formatting of a response's
head: no state a property could relate. The Syphax library is a submodule that is not in the
repository: arrays with handles, threads and mutexes are modelled as the code uses
them (an array keeps its order when an element is removed; a handle of a removed
element is recognised).
