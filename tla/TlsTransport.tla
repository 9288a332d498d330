---------------------------- MODULE TlsTransport ----------------------------
(***************************************************************************)
(* A connection over TLS (src/src/sw_server.c): OpenSSL may have to read   *)
(* in order to write and to write in order to read, tells so when a call   *)
(* would block, and keeps what it decrypted beyond what it was asked for.  *)
(* The connection asks epoll for a direction and, when that is reported,   *)
(* has to make the call that waits for it.                                 *)
(*                                                                         *)
(* A request is two units of what SSL_read gives at a time, and is answered*)
(* as soon as it is whole.  Timers, closing and errors are in Connection.  *)
(***************************************************************************)
EXTENDS Integers, Sequences, FiniteSets

CONSTANTS
  MaxUnits,        \* bound: units the client sends
  MaxRecord,       \* the most units of one TLS record
  MaxReply,        \* the most units of a response
  MaxControls      \* bound: key updates or renegotiations

ASSUME BoundAssumption == {MaxUnits, MaxRecord, MaxReply, MaxControls} \subseteq Nat

VARIABLES
  tls,             \* the connection's tls_* flags
  mask,            \* what epoll is asked for: a subset of {"in", "out"}
  buffered,        \* units in the read buffer
  output,          \* units of output pending
  pc,              \* "wait", or the event that is handled: "read", "write"
  call,            \* the call of OpenSSL that the handler makes
  out,             \* EPOLLOUT is reported too, to be handled after EPOLLIN
  ssl,             \* OpenSSL: [flights, plain]
  net, full,       \* records the kernel holds; whether it takes no more output
  client           \* [control, units, controls, answered, pipelines]

serverVars == <<tls, mask, buffered, output, pc, call, out>>
tlsVars == <<serverVars, ssl, net, full, client>>

Data(n) == [kind |-> "data", units |-> n]
Control(kind) == [kind |-> kind, units |-> 0]

-----------------------------------------------------------------------------
(* OpenSSL.  While an exchange of flights is under way, every call goes on  *)
(* with it before it does its own part.                                     *)

Exchanging == ssl.flights # <<>>
Blocked(direction) == IF direction = "read" THEN net = <<>> ELSE full

\* The direction that a call waits for, if it does.
WaitsFor(c) ==
  CASE Exchanging -> {d \in {Head(ssl.flights)} : Blocked(d)}
    [] ~Exchanging /\ c = "read" -> {d \in {"read"} : ssl.plain = 0 /\ Blocked(d)}
    [] OTHER -> {d \in {"write"} : Blocked(d)}

\* The next flight is read or written.
Flight ==
  /\ Exchanging
  /\ ~Blocked(Head(ssl.flights))
  /\ ssl' = [ssl EXCEPT !.flights = Tail(@)]
  /\ IF Head(ssl.flights) = "read"
     THEN net' = Tail(net) /\ UNCHANGED full
     ELSE full' \in BOOLEAN /\ UNCHANGED net

\* A record that begins an exchange: a key update of TLS 1.3, or the renegotiation
\* of TLS 1.2, with an OpenSSL that has no SSL_OP_NO_RENEGOTIATION.
Begins ==
  /\ ~Exchanging /\ ssl.plain = 0
  /\ net # <<>> /\ Head(net).kind # "data"
  /\ ssl' = [ssl EXCEPT !.flights = IF Head(net).kind = "update" THEN <<"write">>
                                    ELSE <<"write", "read", "write">>]
  /\ net' = Tail(net)
  /\ UNCHANGED full

Decrypts ==
  /\ ~Exchanging
  /\ IF ssl.plain > 0
     THEN ssl' = [ssl EXCEPT !.plain = @ - 1] /\ UNCHANGED net
     ELSE /\ net # <<>> /\ Head(net).kind = "data"
          /\ ssl' = [ssl EXCEPT !.plain = Head(net).units - 1]
          /\ net' = Tail(net)
  /\ UNCHANGED full

Encrypts ==
  /\ ~Exchanging /\ ~full
  /\ full' \in BOOLEAN
  /\ UNCHANGED <<ssl, net>>

-----------------------------------------------------------------------------
(* The connection's flags.                                                  *)

\* sw_connection_tls_would_block
WouldBlock(t, c, direction) ==
  [t EXCEPT !.wantRead = (direction = "read"), !.wantWrite = (direction = "write"),
            !.readWantsWrite = IF c = "read" THEN direction = "write" ELSE @,
            !.writeWantsRead = IF c = "write" THEN direction = "read" ELSE @]

NoWants == [wantRead |-> FALSE, wantWrite |-> FALSE,
            readWantsWrite |-> FALSE, writeWantsRead |-> FALSE, complete |-> TRUE]

AfterRead(t) == [t EXCEPT !.wantRead = FALSE, !.wantWrite = FALSE, !.readWantsWrite = FALSE]
AfterWrite(t) == [t EXCEPT !.wantRead = FALSE, !.wantWrite = FALSE, !.writeWantsRead = FALSE]

WantsRead(t) == t.complete \/ t.wantRead \/ ~t.wantWrite

WantsWrite(t, pending) ==
  IF ~t.complete THEN t.wantWrite
  ELSE \/ t.readWantsWrite
       \/ ~t.writeWantsRead /\ (t.wantWrite \/ pending > 0)

\* sw_mgr_sync_connection
Sync == mask' = {e \in {"in"} : WantsRead(tls')} \cup {e \in {"out"} : WantsWrite(tls', output')}

\* Mutant: readable input is always read, although it is the output that waits for it.
CallReadsInput(t, pending, event) ==
  CASE ~t.complete -> "accept"
    [] t.complete /\ event = "read" -> "read"
    [] OTHER -> IF pending > 0 THEN "write" ELSE IF t.readWantsWrite THEN "read" ELSE "finish"

\* The call that the handler of an event makes, chosen when it begins.
Call(t, pending, event) ==
  CASE ~t.complete -> "accept"
    [] t.complete /\ event = "read" -> IF t.writeWantsRead /\ pending > 0 THEN "write" ELSE "read"
    [] OTHER -> IF pending > 0 THEN "write" ELSE IF t.readWantsWrite THEN "read" ELSE "finish"

-----------------------------------------------------------------------------

TlsInit ==
  /\ tls = [NoWants EXCEPT !.wantRead = TRUE, !.complete = FALSE]
  /\ mask = {"in"}
  /\ buffered = 0 /\ output = 0 /\ pc = "wait" /\ call = "none" /\ out = FALSE
  /\ ssl = [flights |-> <<"read", "write", "read", "write">>, plain |-> 0]
  /\ net = <<>> /\ full = FALSE
  /\ \E control \in {"update", "hello"} :
       client = [control |-> control, units |-> 0, controls |-> 0, answered |-> 0,
                 pipelines |-> FALSE]

(***************************************************************************)
(* The client and the kernel.                                              *)
(***************************************************************************)

\* The client sends data when it has sent every flight it owes.
MaySend ==
  /\ Cardinality({i \in DOMAIN ssl.flights : ssl.flights[i] = "read"})
       <= Cardinality({i \in DOMAIN net : net[i].kind = "flight"})
  /\ \A i \in DOMAIN net : net[i].kind # "hello"

ClientFlight ==
  /\ Exchanging /\ Head(ssl.flights) = "read" /\ net = <<>>
  /\ net' = <<Control("flight")>>
  /\ UNCHANGED <<serverVars, ssl, full, client>>

ClientData ==
  /\ MaySend
  /\ \E n \in 1 .. MaxRecord :
       /\ client.units + n <= MaxUnits
       /\ net' = Append(net, Data(n))
       /\ client' = [client EXCEPT !.units = @ + n,
                                   !.pipelines = @ \/ client.units + n > 2 * (client.answered + 1)]
  /\ UNCHANGED <<serverVars, ssl, full>>

ClientControl ==
  /\ MaySend /\ tls.complete
  /\ client.controls < MaxControls
  /\ net' = Append(net, Control(client.control))
  /\ client' = [client EXCEPT !.controls = @ + 1]
  /\ UNCHANGED <<serverVars, ssl, full>>

ClientReads ==
  /\ full /\ full' = FALSE
  /\ UNCHANGED <<serverVars, ssl, net, client>>

(***************************************************************************)
(* The worker.                                                             *)
(***************************************************************************)

Reported(event) ==
  CASE event = "read" -> "in" \in mask /\ net # <<>>
    [] event = "write" -> "out" \in mask /\ ~full

\* The handler of an event begins, or there is none.
Handle(event) ==
  /\ pc' = event
  /\ call' = IF event = "wait" THEN "none" ELSE Call(tls', output', event)

Event ==
  /\ pc = "wait"
  /\ \E event \in {"read", "write"} : Reported(event)
  /\ out' = (Reported("read") /\ Reported("write"))
  /\ UNCHANGED <<tls, mask, buffered, output, ssl, net, full, client>>
  /\ Handle(IF Reported("read") THEN "read" ELSE "write")

\* The handler goes on, or returns; EPOLLOUT is next, if reported.
GoesOn == UNCHANGED <<pc, call, out>>
Returns == out' = FALSE /\ Handle(IF out THEN "write" ELSE "wait")

\* A call that would block notes what it waits for, and the handler returns.
Blocks ==
  /\ call \in {"accept", "read", "write"}
  /\ \E d \in WaitsFor(call) : tls' = WouldBlock(tls, call, d)
  /\ UNCHANGED <<buffered, output, ssl, net, full, client>>
  /\ Sync /\ Returns

\* A call goes on with the exchange; SSL_accept returns when it is over, and the
\* handler does its own work.
Exchange ==
  /\ call \in {"accept", "read", "write"}
  /\ Flight
  /\ UNCHANGED <<mask, buffered, output, client>>
  /\ IF call = "accept" /\ ssl'.flights = <<>>
     THEN tls' = NoWants /\ UNCHANGED out /\ Handle(pc)
     ELSE UNCHANGED tls /\ GoesOn

\* SSL_read finds no data but a record of the protocol.
Protocol ==
  /\ call = "read"
  /\ Begins
  /\ GoesOn
  /\ UNCHANGED <<tls, mask, buffered, output, client>>

\* A whole request is answered unless output is pending.
Process(units) ==
  IF output = 0 /\ units >= 2
  THEN buffered' = units - 2 /\ output' \in 1 .. MaxReply
  ELSE buffered' = units /\ UNCHANGED output

Receive ==
  /\ call = "read"
  /\ Decrypts
  /\ tls' = AfterRead(tls)
  /\ Process(buffered + 1)
  /\ CASE output > 0 -> UNCHANGED mask /\ Returns
       [] output = 0 /\ output' > 0 -> Sync /\ Returns
       [] OTHER -> UNCHANGED mask /\ GoesOn
  /\ UNCHANGED client

\* With the last unit the response ends, and what the buffer holds is looked at;
\* the events are brought up to date unless it is a part of a request.
Send ==
  /\ call = "write"
  /\ Encrypts
  /\ tls' = AfterWrite(tls)
  /\ IF output > 1
     THEN output' = output - 1 /\ GoesOn /\ UNCHANGED <<mask, buffered, client>>
     ELSE /\ IF buffered >= 2
             THEN buffered' = buffered - 2 /\ output' \in 1 .. MaxReply
             ELSE output' = 0 /\ UNCHANGED buffered
          /\ IF buffered = 1 THEN UNCHANGED mask ELSE Sync
          /\ client' = [client EXCEPT !.answered = @ + 1]
          /\ Returns

\* Nothing is to be written: sw_connection_finish_response only brings the events
\* up to date.
Finish ==
  /\ call = "finish"
  /\ UNCHANGED <<tls, output>>
  /\ Sync /\ Returns
  /\ UNCHANGED <<buffered, ssl, net, full, client>>

TlsNext ==
  \/ ClientFlight \/ ClientData \/ ClientControl \/ ClientReads
  \/ Event \/ Blocks \/ Exchange \/ Protocol \/ Receive \/ Send \/ Finish

TlsSpec == TlsInit /\ [][TlsNext]_tlsVars

-----------------------------------------------------------------------------
\* The calls that have something to do, apart from taking what OpenSSL holds.
Movable ==
  {c \in (IF tls.complete THEN {"read", "write"} ELSE {"accept"}) :
     /\ WaitsFor(c) = {}
     /\ c = "read" => Exchanging \/ net # <<>>
     /\ c = "write" => output > 0}

\* When the worker waits and a call of OpenSSL could go on, epoll reports an event
\* whose handler makes a call that goes on: the connection neither stalls nor spins
\* on a direction that does not help.  OpenSSL holds back input only of a client
\* that sends requests before the one before them is answered.
NeverStalls ==
  pc = "wait" =>
    /\ Movable # {} =>
         \E event \in {"read", "write"} :
           LET c == Call(tls, output, event)
           IN  Reported(event) /\ c # "finish" /\ WaitsFor(c) = {}
    /\ ssl.plain > 0 => client.pipelines
=============================================================================
