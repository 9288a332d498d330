--------------------------- MODULE LibraryProofs ---------------------------
(***************************************************************************)
(* Proofs about two parts of the library, for every value of their bounds: *)
(* what a page's script leaves when its requests have ended (LiveRequests),*)
(* and that a connection over TLS does not stall (TlsTransport).           *)
(***************************************************************************)
EXTENDS LiveRequests, TlsTransport, SequenceTheorems, FiniteSetTheorems, TLAPS

(***************************************************************************)
(* Requests of a page.                                                     *)
(***************************************************************************)

Request == [value : Nat, stage : {"asked", "body", "done", "aborted"}, ok : BOOLEAN]

Element ==
  [content : Int, state : {"none", "loading", "idle", "success", "error"},
   error : BOOLEAN, loading : BOOLEAN]

LiveShape ==
  /\ config \in Configs /\ typed \in Nat /\ timer \in BOOLEAN
  /\ requests \in Seq(Request)
  /\ target \in Element

\* The request the script waits for is for what was typed last, or the timer will ask.
Asked == RequestId > 0 /\ ~timer => requests[RequestId].value = typed

\* Where requests are aborted, none before the last is under way.
Aborted == config.abort => \A i \in 1 .. RequestId - 1 : ~UnderWay(i)

\* What the element shows when the last request has ended.
ShowsLast ==
  LET last == requests[RequestId]
  IN  RequestId > 0 /\ ~UnderWay(RequestId) =>
        /\ ~target.loading
        /\ last.ok => target.content = last.value
        /\ config.abort => target.state = IF last.ok THEN "success" ELSE "error"

Marked == target.error = (target.state = "error")

\* The inductive invariant of LiveRequests.
LiveInv == LiveShape /\ Asked /\ Aborted /\ ShowsLast /\ Marked

\* The operations on an element.
LEMMA ElementIs ==
  ASSUME NEW e \in Element, NEW s \in {"none", "loading", "idle", "success", "error"},
         NEW l \in BOOLEAN
  PROVE  /\ EmitState(e, s) \in Element
         /\ EmitState(e, s).content = e.content /\ EmitState(e, s).state = s
         /\ EmitState(e, s).error = (s = "error") /\ EmitState(e, s).loading = e.loading
         /\ SetLoading(e, l) \in Element
         /\ SetLoading(e, l).content = e.content /\ SetLoading(e, l).state = e.state
         /\ SetLoading(e, l).error = e.error /\ SetLoading(e, l).loading = l
  BY DEF EmitState, SetLoading, Element

LEMMA ReplacedIs ==
  ASSUME NEW e \in Element, NEW c \in Int
  PROVE  Replaced(e, c) \in Element /\ Replaced(e, c).content = c
  BY DEF Replaced, Fresh, Element

\* What the end of the last request leaves of an element that shows its outcome.
LEMMA FinallyIs ==
  ASSUME NEW e \in Element, e.state \in {"success", "error"}, NEW i
  PROVE  /\ Finally(i, e) \in Element
         /\ Finally(i, e).content = e.content /\ Finally(i, e).state = e.state
         /\ Finally(i, e).error = e.error
         /\ Current(i) => ~Finally(i, e).loading
         /\ ~Current(i) => Finally(i, e) = e
  <1> DEFINE d == SetLoading(e, FALSE)
  <1>1. /\ d \in Element /\ d.content = e.content /\ d.state = e.state
        /\ d.error = e.error /\ d.loading = FALSE
    BY ElementIs
  <1>2. Finally(i, e) = IF ~Current(i) THEN e
                        ELSE IF d.state = "loading" THEN EmitState(d, "idle") ELSE d
    BY DEF Finally
  <1> HIDE DEF d
  <1> QED
    BY <1>1, <1>2

\* The last request is the one that was made, and is under way; the one before may be
\* aborted.
LEMMA RequestMade ==
  ASSUME LiveInv, config' = config, typed' \in Nat, timer' \in BOOLEAN, SendRequest
  PROVE  LiveInv'
  <1> DEFINE n == Len(requests)
             b == [i \in DOMAIN requests |->
                     IF config.abort /\ Current(i) /\ UnderWay(i)
                     THEN [requests[i] EXCEPT !.stage = "aborted"] ELSE requests[i]]
             r == [value |-> typed', stage |-> "asked", ok |-> FALSE]
  <1>1. /\ config \in Configs /\ requests \in Seq(Request) /\ target \in Element
        /\ n \in Nat /\ DOMAIN requests = 1 .. n
        /\ \A i \in 1 .. n : requests[i] \in Request
    BY LenProperties, ElementOfSeq DEF LiveInv, LiveShape
  <1>2. requests' = Append(b, r) /\ target' = EmitState(SetLoading(target, TRUE), "loading")
    BY DEF SendRequest
  <1>3. \A i \in 1 .. n : b[i] \in Request
    BY <1>1 DEF Request
  <1>4. b \in Seq(Request) /\ Len(b) = n
    <2>1. b = [i \in 1 .. n |-> b[i]]
      BY <1>1
    <2> HIDE DEF b
    <2> QED
      BY <1>1, <1>3, <2>1, SeqDef
  <1>5. r \in Request /\ r.value = typed' /\ r.stage = "asked"
    BY DEF Request
  <1>6. config.abort => \A i \in 1 .. n : b[i].stage \notin {"asked", "body"}
    <2> SUFFICES ASSUME config.abort, NEW i \in 1 .. n PROVE b[i].stage \notin {"asked", "body"}
      OBVIOUS
    <2>1. requests[i] \in Request
      BY <1>1
    <2>2. CASE i = n
      <3>1. Current(i)
        BY <2>2 DEF Current, RequestId
      <3>2. CASE UnderWay(i)
        BY <1>1, <2>1, <3>1, <3>2 DEF Request
      <3>3. CASE ~UnderWay(i)
        BY <1>1, <3>3 DEF UnderWay
      <3> QED
        BY <3>2, <3>3
    <2>3. CASE i # n
      <3>1. i \in 1 .. n - 1 /\ ~Current(i)
        <4>1. ~Current(i)
          BY <2>3 DEF Current, RequestId
        <4> HIDE DEF n
        <4> QED
          BY <1>1, <2>3, <4>1
      <3>2. ~UnderWay(i)
        BY <3>1 DEF LiveInv, Aborted, RequestId
      <3> QED
        BY <1>1, <3>1, <3>2 DEF UnderWay
    <2> QED
      BY <2>2, <2>3
  <1> HIDE DEF b, r
  <1>7. /\ requests' \in Seq(Request) /\ Len(requests') = n + 1
        /\ \A i \in 1 .. n : requests'[i] = b[i]
        /\ requests'[n + 1] = r
    BY <1>2, <1>4, <1>5, AppendProperties
  <1> HIDE DEF n
  <1>8. RequestId' = n + 1
    BY <1>7 DEF RequestId
  <1>9. UnderWay(RequestId)'
    <2>1. requests'[RequestId'].stage = "asked"
      BY <1>5, <1>7, <1>8
    <2> QED
      BY <2>1 DEF UnderWay
  <1>10. Asked'
    BY <1>5, <1>7, <1>8 DEF Asked
  <1>11. Aborted'
    <2> SUFFICES ASSUME config.abort, NEW i \in 1 .. n PROVE requests'[i].stage \notin {"asked", "body"}
      BY <1>1, <1>8 DEF Aborted, UnderWay
    <2> QED
      BY <1>6, <1>7
  <1>12. ShowsLast'
    BY <1>9 DEF ShowsLast
  <1>13. target' \in Element /\ Marked'
    <2>1. SetLoading(target, TRUE) \in Element
      BY <1>1, ElementIs
    <2> QED
      BY <1>2, <2>1, ElementIs DEF Marked
  <1> QED
    BY <1>1, <1>7, <1>10, <1>11, <1>12, <1>13 DEF LiveInv, LiveShape

\* A request that goes on or ends leaves the others as they are.
LEMMA RequestChanged ==
  ASSUME LiveInv, NEW i \in DOMAIN requests, NEW s \in {"body", "done"}, NEW k \in BOOLEAN,
         requests' = [requests EXCEPT ![i] = [requests[i] EXCEPT !.stage = s, !.ok = k]]
  PROVE  /\ requests' \in Seq(Request) /\ RequestId' = RequestId /\ i \in 1 .. RequestId
         /\ RequestId \in Nat /\ DOMAIN requests = 1 .. RequestId
         /\ \A j \in 1 .. RequestId : requests[j] \in Request
         /\ requests'[i].value = requests[i].value /\ requests'[i].stage = s
         /\ requests'[i].ok = k
         /\ \A j \in 1 .. RequestId : j # i => requests'[j] = requests[j]
  <1> DEFINE n == Len(requests)
             r == [requests[i] EXCEPT !.stage = s, !.ok = k]
  <1>1. /\ requests \in Seq(Request) /\ n \in Nat /\ DOMAIN requests = 1 .. n
        /\ \A j \in 1 .. n : requests[j] \in Request
    BY LenProperties, ElementOfSeq DEF LiveInv, LiveShape
  <1>2. r \in Request /\ r.value = requests[i].value /\ r.stage = s /\ r.ok = k
    BY <1>1 DEF Request
  <1> HIDE DEF r
  <1>3. requests' = [requests EXCEPT ![i] = r]
    BY DEF r
  <1>4. requests' \in Seq(Request) /\ Len(requests') = n
    BY <1>1, <1>2, <1>3, ExceptSeq
  <1>5. requests'[i] = r /\ \A j \in 1 .. n : j # i => requests'[j] = requests[j]
    BY <1>1, <1>3
  <1> QED
    BY <1>1, <1>2, <1>4, <1>5 DEF RequestId

LEMMA HeadStep ==
  ASSUME LiveInv, NEW i \in DOMAIN requests, HeadArrives(i)
  PROVE  LiveInv'
  <1>1. requests[i] \in Request /\ UnderWay(i)
    BY ElementOfSeq, LenProperties DEF HeadArrives, UnderWay, LiveInv, LiveShape
  <1>2. requests' = [requests EXCEPT ![i] = [requests[i] EXCEPT !.stage = "body", !.ok = requests[i].ok]]
    BY <1>1 DEF HeadArrives, Request
  <1>3. requests[i].ok \in BOOLEAN
    BY <1>1 DEF Request
  <1>4. /\ requests' \in Seq(Request) /\ RequestId' = RequestId /\ i \in 1 .. RequestId
        /\ RequestId \in Nat
        /\ requests'[i].value = requests[i].value /\ requests'[i].stage = "body"
        /\ requests'[i].ok = requests[i].ok
        /\ \A j \in 1 .. RequestId : j # i => requests'[j] = requests[j]
    BY <1>2, <1>3, RequestChanged
  <1>5. /\ config' = config /\ typed' = typed /\ timer' = timer /\ target' = target
    BY DEF HeadArrives
  <1>6. \A j \in 1 .. RequestId : UnderWay(j)' <=> UnderWay(j)
    BY <1>1, <1>4 DEF UnderWay
  <1>7. \A j \in 1 .. RequestId : requests'[j].value = requests[j].value /\ requests'[j].ok = requests[j].ok
    BY <1>4
  <1>8. LiveShape' /\ Asked' /\ Marked'
    BY <1>4, <1>5, <1>7 DEF LiveInv, LiveShape, Asked, Marked
  <1>9. Aborted'
    BY <1>4, <1>5, <1>6 DEF LiveInv, Aborted
  <1>10. ShowsLast'
    <2> SUFFICES ASSUME RequestId > 0 PROVE ShowsLast'
      BY <1>4 DEF ShowsLast
    <2>1. RequestId \in 1 .. RequestId
      BY <1>4
    <2> QED
      BY <1>4, <1>5, <1>6, <1>7, <2>1 DEF LiveInv, ShowsLast
  <1> QED
    BY <1>8, <1>9, <1>10 DEF LiveInv

\* The answer that is shown, or the error, is that of the last request, or of one
\* before it where none is aborted.
LEMMA EndStep ==
  ASSUME LiveInv, NEW i \in DOMAIN requests, Fails(i) \/ BodyArrives(i)
  PROVE  LiveInv'
  <1>1. requests[i] \in Request /\ requests[i].value \in Nat /\ UnderWay(i)
    <2>1. requests[i] \in Request
      BY ElementOfSeq, LenProperties DEF LiveInv, LiveShape
    <2> QED
      BY <2>1 DEF Fails, BodyArrives, UnderWay, Request
  <1>2. PICK k \in BOOLEAN :
          /\ Ends(i, k)
          /\ k = FALSE => Fails(i)
          /\ k = TRUE => BodyArrives(i)
    BY DEF Fails, BodyArrives
  <1>3. requests' = [requests EXCEPT ![i] = [requests[i] EXCEPT !.stage = "done", !.ok = k]]
    BY <1>1, <1>2 DEF Ends, Request
  <1>4. /\ requests' \in Seq(Request) /\ RequestId' = RequestId /\ i \in 1 .. RequestId
        /\ RequestId \in Nat
        /\ requests'[i].value = requests[i].value /\ requests'[i].stage = "done"
        /\ requests'[i].ok = k
        /\ \A j \in 1 .. RequestId : j # i => requests'[j] = requests[j]
    BY <1>3, RequestChanged
  <1>5. config' = config /\ typed' = typed /\ timer' = timer
    BY DEF Fails, BodyArrives
  <1>6. \A j \in 1 .. RequestId : UnderWay(j)' => UnderWay(j)
    BY <1>1, <1>4 DEF UnderWay
  <1>7. \A j \in 1 .. RequestId : requests'[j].value = requests[j].value
    BY <1>4
  <1>8. config \in Configs /\ typed \in Nat /\ timer \in BOOLEAN /\ target \in Element
    BY DEF LiveInv, LiveShape
  <1>9. Asked' /\ Aborted'
    <2>1. Asked'
      <3> SUFFICES ASSUME RequestId > 0, ~timer PROVE requests'[RequestId].value = typed
        BY <1>4, <1>5 DEF Asked
      <3> QED
        BY <1>4, <1>7 DEF LiveInv, Asked
    <2>2. Aborted'
      BY <1>4, <1>5, <1>6 DEF LiveInv, Aborted
    <2> QED
      BY <2>1, <2>2
  <1>10. /\ target' \in Element /\ Marked'
         /\ Current(i) => /\ ~target'.loading
                          /\ k => target'.content = requests[i].value
                          /\ target'.state = IF k THEN "success" ELSE "error"
         /\ ~Current(i) => /\ target'.loading = target.loading /\ target'.content = target.content
                           /\ k => target' = target
    <2>1. CASE ~k
      <3> DEFINE e == EmitState(target, "error")
      <3>1. /\ e \in Element /\ e.state = "error" /\ e.error = TRUE
            /\ e.content = target.content /\ e.loading = target.loading
        BY <1>8, ElementIs
      <3>2. target' = Finally(i, e)
        BY <1>2, <2>1 DEF Fails
      <3> HIDE DEF e
      <3> QED
        BY <2>1, <3>1, <3>2, FinallyIs DEF Marked
    <2>2. CASE k /\ Current(i)
      <3> DEFINE p == Replaced(target, requests[i].value)
                 e == EmitState(p, "success")
      <3>1. p \in Element /\ p.content = requests[i].value
        BY <1>1, <1>8, ReplacedIs
      <3> HIDE DEF p
      <3>2. e \in Element /\ e.state = "success" /\ e.error = FALSE /\ e.content = p.content
        BY <3>1, ElementIs
      <3>3. target' = Finally(i, e)
        BY <1>2, <2>2 DEF BodyArrives, Shown, p
      <3> HIDE DEF e
      <3> QED
        BY <2>2, <3>1, <3>2, <3>3, FinallyIs DEF Marked
    <2>3. CASE k /\ ~Current(i)
      <3>1. target' = target
        BY <1>2, <2>3 DEF BodyArrives, Shown, Finally
      <3> QED
        BY <1>8, <2>3, <3>1 DEF LiveInv, Marked
    <2> QED
      BY <2>1, <2>2, <2>3
  <1>11. ShowsLast'
    <2> SUFFICES ASSUME RequestId > 0, ~UnderWay(RequestId)'
                 PROVE  /\ ~target'.loading
                        /\ requests'[RequestId].ok => target'.content = requests'[RequestId].value
                        /\ config.abort => target'.state = IF requests'[RequestId].ok THEN "success" ELSE "error"
      BY <1>4, <1>5 DEF ShowsLast
    <2>1. RequestId \in 1 .. RequestId
      BY <1>4
    <2>2. CASE Current(i)
      BY <1>4, <1>10, <2>2 DEF Current
    <2>3. CASE ~Current(i)
      <3>1. i # RequestId /\ i \in 1 .. RequestId - 1
        BY <1>4, <2>3 DEF Current
      <3>2. requests'[RequestId] = requests[RequestId]
        BY <1>4, <2>1, <3>1
      <3>3. ~UnderWay(RequestId)
        BY <1>4, <3>2 DEF UnderWay
      <3>4. ~config.abort
        BY <1>1, <3>1 DEF LiveInv, Aborted
      <3> QED
        BY <1>10, <2>3, <3>2, <3>3, <3>4 DEF LiveInv, ShowsLast
    <2> QED
      BY <2>2, <2>3
  <1> QED
    BY <1>4, <1>5, <1>8, <1>9, <1>10, <1>11 DEF LiveInv, LiveShape

\* LiveInv is inductive.
LEMMA LiveStep == LiveInv /\ [LiveNext]_liveVars => LiveInv'
  <1> SUFFICES ASSUME LiveInv, [LiveNext]_liveVars PROVE LiveInv'
    OBVIOUS
  <1>1. typed \in Nat /\ typed + 1 \in Nat /\ timer \in BOOLEAN
    BY DEF LiveInv, LiveShape
  <1>2. CASE Type
    <2>1. CASE config.debounce
      <3>1. /\ config' = config /\ typed' \in Nat /\ timer' = TRUE
            /\ requests' = requests /\ target' = target
        BY <1>1, <1>2, <2>1 DEF Type
      <3>2. RequestId' = RequestId /\ \A i : UnderWay(i)' <=> UnderWay(i)
        BY <3>1 DEF RequestId, UnderWay
      <3>3. LiveShape' /\ Asked' /\ Marked'
        BY <3>1 DEF LiveInv, LiveShape, Asked, Marked
      <3>4. Aborted' /\ ShowsLast'
        BY <3>1, <3>2 DEF LiveInv, Aborted, ShowsLast
      <3> QED
        BY <3>3, <3>4 DEF LiveInv
    <2>2. CASE ~config.debounce
      BY <1>1, <1>2, <2>2, RequestMade DEF Type
    <2> QED
      BY <2>1, <2>2
  <1>3. CASE TimerFires \/ Submit
    <2>1. config' = config /\ typed' \in Nat /\ timer' \in BOOLEAN /\ SendRequest
      BY <1>1, <1>3 DEF TimerFires, Submit
    <2> QED
      BY <2>1, RequestMade
  <1>4. CASE \E i \in DOMAIN requests : HeadArrives(i) \/ Fails(i) \/ BodyArrives(i)
    BY <1>4, HeadStep, EndStep
  <1>5. CASE UNCHANGED liveVars
    <2>1. /\ config' = config /\ typed' = typed /\ timer' = timer
          /\ requests' = requests /\ target' = target
      BY <1>5 DEF liveVars
    <2>2. RequestId' = RequestId /\ \A i : UnderWay(i)' <=> UnderWay(i)
      BY <2>1 DEF RequestId, UnderWay
    <2>3. LiveShape' /\ Asked' /\ Marked'
      BY <2>1, <2>2 DEF LiveInv, LiveShape, Asked, Marked
    <2>4. Aborted' /\ ShowsLast'
      BY <2>1, <2>2 DEF LiveInv, Aborted, ShowsLast
    <2> QED
      BY <2>3, <2>4 DEF LiveInv
  <1> QED
    BY <1>2, <1>3, <1>4, <1>5 DEF LiveNext

\* When the script has nothing left to wait for, the element shows the outcome of the
\* last request, which was for what was typed last, for any number of requests.
THEOREM PageSettles == LiveSpec => []Settled
  <1>1. LiveInit => LiveInv
    <2> SUFFICES ASSUME LiveInit PROVE LiveInv
      OBVIOUS
    <2>1. requests = <<>> /\ requests \in Seq(Request) /\ RequestId = 0
      BY EmptySeq DEF LiveInit, RequestId
    <2>2. target \in Element /\ Marked
      <3>1. target = Fresh(-1) /\ -1 \in Int
        BY DEF LiveInit
      <3>2. \A c \in Int : Fresh(c) \in Element /\ Fresh(c).error = (Fresh(c).state = "error")
        BY DEF Fresh, Element
      <3> QED
        BY <3>1, <3>2 DEF Marked
    <2>3. config \in Configs /\ typed \in Nat /\ timer \in BOOLEAN
      BY DEF LiveInit
    <2> QED
      BY <2>1, <2>2, <2>3 DEF LiveInv, LiveShape, Asked, Aborted, ShowsLast
  <1>2. LiveInv => Settled
    <2> SUFFICES ASSUME LiveInv, ~timer, RequestId > 0, \A i \in DOMAIN requests : ~UnderWay(i)
                 PROVE  LET last == requests[RequestId]
                        IN  /\ last.value = typed
                            /\ ~target.loading
                            /\ last.ok => target.content = last.value
                            /\ config.abort => target.state = (IF last.ok THEN "success" ELSE "error")
                            /\ target.error = (target.state = "error")
      BY DEF Settled
    <2>1. RequestId \in DOMAIN requests
      BY LenProperties DEF LiveInv, LiveShape, RequestId
    <2> QED
      BY <2>1 DEF LiveInv, Asked, ShowsLast, Marked
  <1> QED
    BY <1>1, <1>2, LiveStep, PTL DEF LiveSpec

(***************************************************************************)
(* TLS.                                                                    *)
(***************************************************************************)

USE BoundAssumption

Flags ==
  [wantRead : BOOLEAN, wantWrite : BOOLEAN, readWantsWrite : BOOLEAN,
   writeWantsRead : BOOLEAN, complete : BOOLEAN]

\* What is left of the flights of an exchange.
Flights ==
  {<<>>, <<"write">>, <<"read", "write">>, <<"write", "read", "write">>,
   <<"read", "write", "read", "write">>}

Record == [kind : {"data", "flight", "update", "hello"}, units : Nat]

TlsShape ==
  /\ tls \in Flags /\ mask \subseteq {"in", "out"}
  /\ buffered \in Nat /\ output \in Nat
  /\ pc \in {"wait", "read", "write"} /\ call \in {"none", "accept", "read", "write", "finish"}
  /\ out \in BOOLEAN
  /\ ssl \in [flights : Flights, plain : Nat]
  /\ net \in Seq(Record) /\ full \in BOOLEAN
  /\ client \in [control : {"update", "hello"}, units : Nat, controls : Nat, answered : Nat,
                 pipelines : BOOLEAN]

\* The calls and the exchanges they are in.
Calls ==
  /\ pc = "wait" <=> call = "none"
  /\ call = "accept" => ~tls.complete
  /\ call \in {"read", "write", "finish"} => tls.complete
  /\ ~tls.complete => /\ ~tls.readWantsWrite /\ ~tls.writeWantsRead
                      /\ output = 0 /\ Exchanging
  /\ call = "write" => output > 0
  /\ Exchanging => ssl.plain = 0

\* A write waits for a read only in an exchange, and the next call is that write.  What
\* was left to wait for a write will be called when epoll reports it.
Wants ==
  /\ tls.writeWantsRead =>
       /\ output > 0 /\ call \in {"none", "write"}
       /\ call = "none" => Exchanging /\ Head(ssl.flights) = "read"
  /\ call \in {"none", "finish"} /\ tls.complete /\ Exchanging /\ Head(ssl.flights) = "write" =>
       tls.readWantsWrite \/ output > 0

\* What epoll is asked for.
Mask ==
  /\ tls.complete /\ call # "finish" => "in" \in mask
  /\ pc = "read" => "in" \in mask
  /\ tls.readWantsWrite => "out" \in mask
  /\ tls.complete /\ output > 0 /\ ~tls.writeWantsRead /\ call # "write" => "out" \in mask
  /\ call = "none" /\ ~tls.complete =>
       IF Head(ssl.flights) = "read" THEN "in" \in mask ELSE "out" \in mask

\* What the kernel holds: a flight comes first and when it is awaited, a client that
\* begins to renegotiate sends nothing until it is its turn.
Kernel ==
  /\ \A i \in 1 .. Len(net) :
       /\ net[i].kind = "flight" => i = 1 /\ Exchanging /\ Head(ssl.flights) = "read"
       /\ net[i].kind = "hello" => i = Len(net)
       /\ IF net[i].kind = "data" THEN net[i].units >= 1 ELSE net[i].units = 0
  /\ Exchanging /\ Head(ssl.flights) = "read" /\ net # <<>> => net[1].kind = "flight"
  /\ ssl.flights = <<"write", "read", "write">> => net = <<>>
  /\ ssl.flights = <<"read", "write", "read", "write">> => Len(net) <= 1

\* taken units and those of the records n are u units: f counts them up.
Amount(taken, n, u) ==
  \E f \in [0 .. Len(n) -> Nat] :
    /\ f[0] = taken /\ f[Len(n)] = u
    /\ \A i \in 1 .. Len(n) : f[i] = f[i - 1] + n[i].units
    /\ \A i, j \in 0 .. Len(n) : i <= j => f[i] <= f[j]

\* The units that were decrypted: those of requests answered, of the one in hand, in
\* the buffer, and what OpenSSL holds.
Taken ==
  2 * client.answered + (IF output > 0 THEN 2 ELSE 0) + buffered + ssl.plain

\* OpenSSL holds units when a call returns only if the client sent them too early.
Units ==
  /\ Amount(Taken, net, client.units)
  /\ client.pipelines \/ client.units <= 2 * (client.answered + 1)
  /\ ssl.plain > 0 => client.pipelines \/ (call = "read" /\ output = 0)

\* What holds while the worker waits, of the state in which a handler returns.
Calm ==
  /\ IF tls.complete THEN "in" \in mask
     ELSE /\ ~tls.readWantsWrite /\ ~tls.writeWantsRead /\ output = 0 /\ Exchanging
          /\ IF Head(ssl.flights) = "read" THEN "in" \in mask ELSE "out" \in mask
  /\ tls.writeWantsRead => output > 0 /\ Exchanging /\ Head(ssl.flights) = "read"
  /\ tls.complete /\ Exchanging /\ Head(ssl.flights) = "write" => tls.readWantsWrite \/ output > 0
  /\ tls.readWantsWrite => "out" \in mask
  /\ tls.complete /\ output > 0 /\ ~tls.writeWantsRead => "out" \in mask
  /\ Exchanging => ssl.plain = 0

\* The inductive invariant of TlsTransport.
TlsInv == TlsShape /\ Calls /\ Wants /\ Mask /\ Kernel /\ Units

\* Sums of records.
LEMMA AmountLeast ==
  ASSUME NEW n \in Seq(Record), NEW t, NEW u, Amount(t, n, u)
  PROVE  t \in Nat /\ u \in Nat /\ t <= u
  <1>1. PICK f \in [0 .. Len(n) -> Nat] :
          /\ f[0] = t /\ f[Len(n)] = u
          /\ \A i, j \in 0 .. Len(n) : i <= j => f[i] <= f[j]
    BY DEF Amount
  <1>2. Len(n) \in Nat
    BY LenProperties
  <1>3. 0 \in 0 .. Len(n) /\ Len(n) \in 0 .. Len(n) /\ 0 <= Len(n)
    BY <1>2
  <1> QED
    BY <1>1, <1>3

LEMMA AmountAppend ==
  ASSUME NEW n \in Seq(Record), NEW t, NEW u, Amount(t, n, u), NEW r \in Record
  PROVE  Amount(t, Append(n, r), u + r.units)
  <1> DEFINE l == Len(n)
             m == Append(n, r)
  <1>1. PICK f \in [0 .. l -> Nat] :
          /\ f[0] = t /\ f[l] = u
          /\ \A i \in 1 .. l : f[i] = f[i - 1] + n[i].units
          /\ \A i, j \in 0 .. l : i <= j => f[i] <= f[j]
    BY DEF Amount
  <1>2. l \in Nat
    BY LenProperties
  <1>3. Len(m) = l + 1 /\ m[l + 1] = r /\ \A i \in 1 .. l : m[i] = n[i]
    BY AppendProperties
  <1>4. r.units \in Nat
    BY DEF Record
  <1> HIDE DEF l, m
  <1> DEFINE g == [i \in 0 .. l + 1 |-> IF i <= l THEN f[i] ELSE f[l] + r.units]
  <1>5. g \in [0 .. l + 1 -> Nat]
    BY <1>1, <1>2, <1>4
  <1>6. /\ \A i \in 0 .. l : g[i] = f[i]
        /\ g[l + 1] = f[l] + r.units
    BY <1>2
  <1> HIDE DEF g
  <1>7. g[0] = t /\ g[l + 1] = u + r.units
    BY <1>1, <1>2, <1>6
  <1>8. ASSUME NEW i \in 1 .. l + 1 PROVE g[i] = g[i - 1] + m[i].units
    <2>1. CASE i <= l
      <3>1. i \in 1 .. l /\ i \in 0 .. l /\ i - 1 \in 0 .. l
        BY <1>2, <2>1
      <3> QED
        BY <1>1, <1>3, <1>6, <3>1
    <2>2. CASE ~(i <= l)
      <3>1. i = l + 1 /\ i - 1 = l /\ l \in 0 .. l
        BY <1>2, <2>2
      <3> QED
        BY <1>3, <1>6, <3>1
    <2> QED
      BY <2>1, <2>2
  <1>9. ASSUME NEW i \in 0 .. l + 1, NEW j \in 0 .. l + 1, i <= j PROVE g[i] <= g[j]
    <2>1. CASE j <= l
      <3>1. i \in 0 .. l /\ j \in 0 .. l
        BY <1>2, <1>9, <2>1
      <3> QED
        BY <1>1, <1>6, <1>9, <3>1
    <2>2. CASE ~(j <= l)
      <3>1. j = l + 1
        BY <1>2, <2>2
      <3>2. CASE i = j
        BY <1>5, <3>2
      <3>3. CASE i # j
        <4>1. i \in 0 .. l /\ l \in 0 .. l /\ i <= l
          BY <1>2, <1>9, <3>1, <3>3
        <4>2. f[i] <= f[l] /\ f[i] \in Nat /\ f[l] \in Nat
          BY <1>1, <4>1
        <4> QED
          BY <1>4, <1>6, <3>1, <4>1, <4>2
      <3> QED
        BY <3>2, <3>3
    <2> QED
      BY <2>1, <2>2
  <1>10. Amount(t, m, u + r.units)
    BY <1>3, <1>5, <1>7, <1>8, <1>9 DEF Amount
  <1> QED
    BY <1>10 DEF m

LEMMA AmountTail ==
  ASSUME NEW n \in Seq(Record), n # <<>>, NEW t, NEW u, Amount(t, n, u)
  PROVE  Amount(t + n[1].units, Tail(n), u)
  <1> DEFINE l == Len(n)
             m == Tail(n)
  <1>1. PICK f \in [0 .. l -> Nat] :
          /\ f[0] = t /\ f[l] = u
          /\ \A i \in 1 .. l : f[i] = f[i - 1] + n[i].units
          /\ \A i, j \in 0 .. l : i <= j => f[i] <= f[j]
    BY DEF Amount
  <1>2. l \in Nat /\ l >= 1
    BY EmptySeq, LenProperties
  <1>3. Len(m) = l - 1 /\ \A i \in 1 .. l - 1 : m[i] = n[i + 1]
    BY HeadTailProperties
  <1> HIDE DEF l, m
  <1> DEFINE g == [i \in 0 .. l - 1 |-> f[i + 1]]
  <1>4. g \in [0 .. l - 1 -> Nat] /\ \A i \in 0 .. l - 1 : g[i] = f[i + 1]
    BY <1>1, <1>2
  <1> HIDE DEF g
  <1>5. g[0] = t + n[1].units /\ g[l - 1] = u
    <2>1. 0 \in 0 .. l - 1 /\ l - 1 \in 0 .. l - 1 /\ 0 + 1 = 1 /\ (l - 1) + 1 = l
          /\ 1 \in 1 .. l /\ 1 - 1 = 0
      BY <1>2
    <2> QED
      BY <1>1, <1>4, <2>1
  <1>6. ASSUME NEW i \in 1 .. l - 1 PROVE g[i] = g[i - 1] + m[i].units
    <2>1. /\ i \in 0 .. l - 1 /\ i - 1 \in 0 .. l - 1 /\ (i - 1) + 1 = i /\ i + 1 \in 1 .. l
          /\ (i + 1) - 1 = i
      BY <1>2
    <2> QED
      <3>1. g[i] = f[i + 1] /\ g[i - 1] = f[i]
        BY <1>4, <2>1
      <3>2. f[i + 1] = f[i] + n[i + 1].units
        BY <1>1, <2>1
      <3> QED
        BY <1>3, <3>1, <3>2
  <1>7. ASSUME NEW i \in 0 .. l - 1, NEW j \in 0 .. l - 1, i <= j PROVE g[i] <= g[j]
    <2>1. i + 1 \in 0 .. l /\ j + 1 \in 0 .. l /\ i + 1 <= j + 1
      BY <1>2, <1>7
    <2> QED
      BY <1>1, <1>4, <2>1
  <1>8. Amount(t + n[1].units, m, u)
    BY <1>3, <1>4, <1>5, <1>6, <1>7 DEF Amount
  <1> QED
    BY <1>8 DEF m

\* The flights of an exchange.
LEMMA FlightsIs ==
  ASSUME NEW f \in Flights
  PROVE  \/ f = <<>>
         \/ f = <<"write">> /\ Head(f) = "write" /\ Tail(f) = <<>> /\ f # <<>>
         \/ f = <<"read", "write">> /\ Head(f) = "read" /\ Tail(f) = <<"write">> /\ f # <<>>
         \/ /\ f = <<"write", "read", "write">> /\ Head(f) = "write"
            /\ Tail(f) = <<"read", "write">> /\ f # <<>>
         \/ /\ f = <<"read", "write", "read", "write">> /\ Head(f) = "read"
            /\ Tail(f) = <<"write", "read", "write">> /\ f # <<>>
  <1>1. CASE f = <<"write">>
    <2>1. Tail(<<"write">>) = <<>> /\ Head(<<"write">>) = "write" /\ <<"write">> # <<>>
      OBVIOUS
    <2> QED
      BY <1>1, <2>1
  <1>2. CASE f = <<"read", "write">>
    <2>1. /\ Tail(<<"read", "write">>) = <<"write">> /\ Head(<<"read", "write">>) = "read"
          /\ <<"read", "write">> # <<>>
      OBVIOUS
    <2> QED
      BY <1>2, <2>1
  <1>3. CASE f = <<"write", "read", "write">>
    <2>1. /\ Tail(<<"write", "read", "write">>) = <<"read", "write">>
          /\ Head(<<"write", "read", "write">>) = "write" /\ <<"write", "read", "write">> # <<>>
      OBVIOUS
    <2> QED
      BY <1>3, <2>1
  <1>4. CASE f = <<"read", "write", "read", "write">>
    <2>1. /\ Tail(<<"read", "write", "read", "write">>) = <<"write", "read", "write">>
          /\ Head(<<"read", "write", "read", "write">>) = "read"
          /\ <<"read", "write", "read", "write">> # <<>>
      OBVIOUS
    <2> QED
      BY <1>4, <2>1
  <1> QED
    BY <1>1, <1>2, <1>3, <1>4 DEF Flights

\* What a call waits for.
LEMMA WaitsIs ==
  ASSUME TlsShape, NEW c
  PROVE  /\ Exchanging => WaitsFor(c) = IF Blocked(Head(ssl.flights)) THEN {Head(ssl.flights)} ELSE {}
         /\ ~Exchanging /\ c = "read" =>
              WaitsFor(c) = IF ssl.plain = 0 /\ net = <<>> THEN {"read"} ELSE {}
         /\ ~Exchanging /\ c # "read" => WaitsFor(c) = IF full THEN {"write"} ELSE {}
  BY DEF WaitsFor, Blocked

\* The call of an event's handler.
LEMMA CallIs ==
  ASSUME NEW t \in Flags, NEW p \in Nat, NEW e
  PROVE  /\ ~t.complete => Call(t, p, e) = "accept"
         /\ t.complete /\ e = "read" =>
              Call(t, p, e) = IF t.writeWantsRead /\ p > 0 THEN "write" ELSE "read"
         /\ t.complete /\ e # "read" =>
              Call(t, p, e) = IF p > 0 THEN "write" ELSE IF t.readWantsWrite THEN "read" ELSE "finish"
  BY DEF Call, Flags

\* The flags after a call.
LEMMA FlagsAre ==
  ASSUME NEW t \in Flags, NEW c, NEW d
  PROVE  /\ NoWants \in Flags
         /\ WouldBlock(t, c, d) \in Flags /\ AfterRead(t) \in Flags /\ AfterWrite(t) \in Flags
         /\ WouldBlock(t, c, d).complete = t.complete
         /\ WouldBlock(t, c, d).wantRead = (d = "read")
         /\ WouldBlock(t, c, d).wantWrite = (d = "write")
         /\ WouldBlock(t, c, d).readWantsWrite = IF c = "read" THEN d = "write" ELSE t.readWantsWrite
         /\ WouldBlock(t, c, d).writeWantsRead = IF c = "write" THEN d = "read" ELSE t.writeWantsRead
         /\ AfterRead(t).complete = t.complete /\ AfterRead(t).readWantsWrite = FALSE
         /\ AfterRead(t).writeWantsRead = t.writeWantsRead
         /\ AfterWrite(t).complete = t.complete /\ AfterWrite(t).writeWantsRead = FALSE
         /\ AfterWrite(t).readWantsWrite = t.readWantsWrite
  <1>1. NoWants \in Flags
    BY DEF NoWants, Flags
  <1>2. /\ WouldBlock(t, c, d) \in Flags
        /\ WouldBlock(t, c, d).complete = t.complete
        /\ WouldBlock(t, c, d).wantRead = (d = "read")
        /\ WouldBlock(t, c, d).wantWrite = (d = "write")
        /\ WouldBlock(t, c, d).readWantsWrite = IF c = "read" THEN d = "write" ELSE t.readWantsWrite
        /\ WouldBlock(t, c, d).writeWantsRead = IF c = "write" THEN d = "read" ELSE t.writeWantsRead
    <2>1. CASE c = "read"
      BY <2>1 DEF WouldBlock, Flags
    <2>2. CASE c # "read"
      BY <2>2 DEF WouldBlock, Flags
    <2> QED
      BY <2>1, <2>2
  <1>3. /\ AfterRead(t) \in Flags
        /\ AfterRead(t).complete = t.complete /\ AfterRead(t).readWantsWrite = FALSE
        /\ AfterRead(t).writeWantsRead = t.writeWantsRead
    BY DEF AfterRead, Flags
  <1>4. /\ AfterWrite(t) \in Flags
        /\ AfterWrite(t).complete = t.complete /\ AfterWrite(t).writeWantsRead = FALSE
        /\ AfterWrite(t).readWantsWrite = t.readWantsWrite
    BY DEF AfterWrite, Flags
  <1> QED
    BY <1>1, <1>2, <1>3, <1>4

\* The fields of the state.
LEMMA FieldsAre ==
  ASSUME TlsShape
  PROVE  /\ tls.complete \in BOOLEAN /\ tls.readWantsWrite \in BOOLEAN
         /\ tls.writeWantsRead \in BOOLEAN
         /\ ssl.flights \in Flights /\ ssl.plain \in Nat
         /\ client.units \in Nat /\ client.answered \in Nat /\ client.pipelines \in BOOLEAN
         /\ Len(net) \in Nat /\ DOMAIN net = 1 .. Len(net)
         /\ net # <<>> => Len(net) >= 1
         /\ \A i \in 1 .. Len(net) : net[i] \in Record
  <1>1. net \in Seq(Record)
    BY DEF TlsShape
  <1>2. /\ Len(net) \in Nat /\ DOMAIN net = 1 .. Len(net)
        /\ net # <<>> => Len(net) >= 1
        /\ \A i \in 1 .. Len(net) : net[i] \in Record
    BY <1>1, EmptySeq, LenProperties, ElementOfSeq
  <1> QED
    BY <1>2 DEF TlsShape, Flags

\* sw_mgr_sync_connection
LEMMA SyncIs ==
  ASSUME Sync
  PROVE  /\ mask' \subseteq {"in", "out"}
         /\ "in" \in mask' <=> WantsRead(tls')
         /\ "out" \in mask' <=> WantsWrite(tls', output')
  BY DEF Sync

\* The invariant says so while the worker waits.
LEMMA WaitsCalm ==
  ASSUME TlsInv, call = "none"
  PROVE  Calm
  BY DEF TlsInv, Calls, Wants, Mask, Calm

\* A handler begins, or the worker waits.
LEMMA HandleStep ==
  ASSUME tls' \in Flags, output' \in Nat, Calm', NEW e \in {"wait", "read", "write"}, Handle(e),
         e = "read" => "in" \in mask'
  PROVE  /\ pc' = e /\ call' \in {"none", "accept", "read", "write", "finish"}
         /\ Calls' /\ Wants' /\ Mask'
  <1>1. tls'.complete \in BOOLEAN /\ tls'.readWantsWrite \in BOOLEAN /\ tls'.writeWantsRead \in BOOLEAN
    BY DEF Flags
  <1>2. pc' = e /\ call' = IF e = "wait" THEN "none" ELSE Call(tls', output', e)
    BY DEF Handle
  <1>3. /\ e = "wait" => call' = "none"
        /\ e # "wait" /\ ~tls'.complete => call' = "accept"
        /\ tls'.complete /\ e = "read" =>
             call' = IF tls'.writeWantsRead /\ output' > 0 THEN "write" ELSE "read"
        /\ tls'.complete /\ e = "write" =>
             call' = IF output' > 0 THEN "write"
                     ELSE IF tls'.readWantsWrite THEN "read" ELSE "finish"
    BY <1>2, CallIs
  <1>4. call' \in {"none", "accept", "read", "write", "finish"}
    BY <1>1, <1>3
  <1>5. Calls'
    BY <1>1, <1>2, <1>3 DEF Calls, Calm
  <1>6. Wants'
    BY <1>1, <1>2, <1>3 DEF Wants, Calm
  <1>7. Mask'
    BY <1>1, <1>2, <1>3 DEF Mask, Calm
  <1> QED
    BY <1>2, <1>4, <1>5, <1>6, <1>7

\* The handler returns.
LEMMA ReturnStep ==
  ASSUME tls' \in Flags, output' \in Nat, Calm', Returns
  PROVE  /\ pc' \in {"wait", "read", "write"} /\ out' \in BOOLEAN
         /\ call' \in {"none", "accept", "read", "write", "finish"}
         /\ Calls' /\ Wants' /\ Mask'
  <1> DEFINE e == IF out THEN "write" ELSE "wait"
  <1>1. e \in {"wait", "read", "write"} /\ e # "read" /\ Handle(e) /\ out' = FALSE
    BY DEF Returns
  <1> HIDE DEF e
  <1> QED
    BY <1>1, HandleStep

(***************************************************************************)
(* The kernel.                                                             *)
(***************************************************************************)

\* The first record is taken.
LEMMA KernelTail ==
  ASSUME TlsInv, net # <<>>, net' = Tail(net)
  PROVE  /\ net' \in Seq(Record) /\ Len(net') = Len(net) - 1
         /\ \A i \in 1 .. Len(net') :
              /\ net'[i].kind # "flight"
              /\ net'[i].kind = "hello" => i = Len(net')
              /\ IF net'[i].kind = "data" THEN net'[i].units >= 1 ELSE net'[i].units = 0
         /\ Head(net) = net[1] /\ net[1] \in Record
         /\ net[1].kind = "hello" => net' = <<>>
         /\ Len(net) = 1 => net' = <<>>
         /\ \A t, u : Amount(t, net, u) => Amount(t + net[1].units, net', u)
  <1> DEFINE l == Len(net)
             m == Tail(net)
  <1>1. net \in Seq(Record) /\ l \in Nat /\ l >= 1 /\ \A i \in 1 .. l : net[i] \in Record
    BY FieldsAre DEF TlsInv, TlsShape
  <1>2. /\ m \in Seq(Record) /\ Len(m) = l - 1 /\ Head(net) = net[1]
        /\ \A i \in 1 .. l - 1 : m[i] = net[i + 1]
    BY <1>1, HeadTailProperties
  <1>3. \A i \in 1 .. l :
          /\ net[i].kind = "flight" => i = 1
          /\ net[i].kind = "hello" => i = l
          /\ IF net[i].kind = "data" THEN net[i].units >= 1 ELSE net[i].units = 0
    BY DEF TlsInv, Kernel
  <1>4. \A t, u : Amount(t, net, u) => Amount(t + net[1].units, m, u)
    BY <1>1, AmountTail
  <1>5. net' = m
    OBVIOUS
  <1> HIDE DEF l, m
  <1>6. ASSUME NEW i \in 1 .. l - 1
        PROVE  /\ m[i].kind # "flight"
               /\ m[i].kind = "hello" => i = l - 1
               /\ IF m[i].kind = "data" THEN m[i].units >= 1 ELSE m[i].units = 0
    <2>1. i + 1 \in 1 .. l /\ i + 1 # 1 /\ (i + 1 = l => i = l - 1)
      BY <1>1
    <2> QED
      BY <1>2, <1>3, <2>1
  <1>7. l = 1 => m = <<>>
    BY <1>2, EmptySeq
  <1>8. net[1] \in Record /\ (net[1].kind = "hello" => l = 1)
    <2>1. 1 \in 1 .. l
      BY <1>1
    <2> QED
      BY <1>1, <1>3, <2>1
  <1> QED
    BY <1>2, <1>4, <1>5, <1>6, <1>7, <1>8 DEF l

\* The next flight of the exchange is written, or read.
LEMMA FlightIs ==
  ASSUME TlsInv, Flight
  PROVE  /\ ssl' \in [flights : Flights, plain : Nat] /\ ssl'.plain = ssl.plain
         /\ ssl'.plain = 0 /\ ssl.plain = 0
         /\ net' \in Seq(Record) /\ full' \in BOOLEAN
         /\ Kernel'
         /\ \A t, u : t \in Nat /\ Amount(t, net, u) => Amount(t, net', u)
  <1>1. /\ TlsShape /\ Exchanging /\ ssl.flights # <<>> /\ ssl.flights \in Flights
        /\ ssl.plain = 0 /\ Kernel
    BY FieldsAre DEF TlsInv, Flight, Exchanging, Calls
  <1>2. /\ ~Blocked(Head(ssl.flights))
        /\ ssl' = [ssl EXCEPT !.flights = Tail(@)]
        /\ IF Head(ssl.flights) = "read"
           THEN net' = Tail(net) /\ full' = full
           ELSE full' \in BOOLEAN /\ net' = net
    BY DEF Flight
  <1>3. Tail(ssl.flights) \in Flights
    BY <1>1, FlightsIs DEF Flights
  <1>4. ssl' \in [flights : Flights, plain : Nat] /\ ssl'.plain = ssl.plain /\ ssl'.flights = Tail(ssl.flights)
    BY <1>1, <1>2, <1>3 DEF TlsShape
  <1>5. CASE Head(ssl.flights) = "read"
    <2>1. net # <<>> /\ net' = Tail(net) /\ full' = full
      BY <1>2, <1>5 DEF Blocked
    <2>2. /\ net' \in Seq(Record) /\ Len(net') = Len(net) - 1
          /\ \A i \in 1 .. Len(net') :
               /\ net'[i].kind # "flight"
               /\ net'[i].kind = "hello" => i = Len(net')
               /\ IF net'[i].kind = "data" THEN net'[i].units >= 1 ELSE net'[i].units = 0
          /\ Len(net) = 1 => net' = <<>>
          /\ \A t, u : Amount(t, net, u) => Amount(t + net[1].units, net', u)
      BY <2>1, KernelTail
    <2>3. Len(net) \in Nat /\ Len(net) >= 1 /\ 1 \in 1 .. Len(net)
      BY <1>1, <2>1, FieldsAre
    <2>4. net[1].kind = "flight" /\ net[1].units = 0
      BY <1>1, <1>5, <2>1, <2>3 DEF Kernel
    <2>5. \A t, u : t \in Nat /\ Amount(t, net, u) => Amount(t, net', u)
      <3>1. \A t \in Nat : t + 0 = t
        OBVIOUS
      <3> QED
        BY <2>2, <2>4, <3>1
    <2>6. CASE ssl.flights = <<"read", "write">>
      <3>1. ssl'.flights = <<"write">>
        BY <1>4, <2>6, FlightsIs, <1>1
      <3>2. Head(<<"write">>) = "write"
        OBVIOUS
      <3>3. Kernel'
        BY <2>2, <3>1, <3>2 DEF Kernel
      <3> QED
        BY <1>1, <1>4, <2>1, <2>2, <2>5, <3>3 DEF TlsShape
    <2>7. CASE ssl.flights = <<"read", "write", "read", "write">>
      <3>1. ssl'.flights = <<"write", "read", "write">>
        BY <1>1, <1>4, <2>7, FlightsIs
      <3>2. Len(net) <= 1
        BY <1>1, <2>7 DEF Kernel
      <3>3. net' = <<>>
        BY <2>2, <2>3, <3>2
      <3>4. Head(<<"write", "read", "write">>) = "write"
        OBVIOUS
      <3>5. Kernel'
        BY <2>2, <3>1, <3>3, <3>4 DEF Kernel
      <3> QED
        BY <1>1, <1>4, <2>1, <2>2, <2>5, <3>5 DEF TlsShape
    <2> QED
      BY <1>1, <1>5, <2>6, <2>7, FlightsIs
  <1>6. CASE Head(ssl.flights) # "read"
    <2>1. net' = net /\ full' \in BOOLEAN /\ net \in Seq(Record)
      BY <1>1, <1>2, <1>6 DEF TlsShape
    <2>2. \A i \in 1 .. Len(net) : net[i].kind # "flight"
      BY <1>1, <1>6 DEF Kernel
    <2>3. CASE ssl.flights = <<"write">>
      <3>1. ssl'.flights = <<>>
        BY <1>1, <1>4, <2>3, FlightsIs
      <3> QED
        BY <1>1, <1>4, <2>1, <2>2, <3>1 DEF Kernel, Exchanging
    <2>4. CASE ssl.flights = <<"write", "read", "write">>
      <3>1. ssl'.flights = <<"read", "write">>
        BY <1>1, <1>4, <2>4, FlightsIs
      <3>2. net = <<>>
        BY <1>1, <2>4 DEF Kernel
      <3> QED
        BY <1>1, <1>4, <2>1, <2>2, <3>1, <3>2 DEF Kernel
    <2> QED
      BY <1>1, <1>6, <2>3, <2>4, FlightsIs
  <1> QED
    BY <1>5, <1>6

\* A record begins an exchange.
LEMMA BeginsIs ==
  ASSUME TlsInv, Begins
  PROVE  /\ ssl' \in [flights : Flights, plain : Nat] /\ ssl'.plain = 0 /\ ssl.plain = 0
         /\ net' \in Seq(Record) /\ full' = full
         /\ Kernel'
         /\ \A t, u : t \in Nat /\ Amount(t, net, u) => Amount(t, net', u)
  <1>1. /\ ssl.plain = 0 /\ ~Exchanging /\ net # <<>> /\ Head(net).kind # "data"
        /\ ssl' = [ssl EXCEPT !.flights = IF Head(net).kind = "update" THEN <<"write">>
                                          ELSE <<"write", "read", "write">>]
        /\ net' = Tail(net) /\ full' = full
    BY DEF Begins
  <1>2. TlsShape /\ Kernel
    BY DEF TlsInv
  <1>3. /\ net' \in Seq(Record) /\ Len(net') = Len(net) - 1
        /\ \A i \in 1 .. Len(net') :
             /\ net'[i].kind # "flight"
             /\ net'[i].kind = "hello" => i = Len(net')
             /\ IF net'[i].kind = "data" THEN net'[i].units >= 1 ELSE net'[i].units = 0
        /\ Head(net) = net[1] /\ net[1] \in Record
        /\ net[1].kind = "hello" => net' = <<>>
        /\ \A t, u : Amount(t, net, u) => Amount(t + net[1].units, net', u)
    BY <1>1, KernelTail
  <1>4. 1 \in 1 .. Len(net)
    BY <1>1, <1>2, FieldsAre
  <1>5. net[1].kind \in {"update", "hello"} /\ net[1].units = 0
    BY <1>1, <1>2, <1>3, <1>4 DEF Kernel, Record
  <1>6. \A t, u : t \in Nat /\ Amount(t, net, u) => Amount(t, net', u)
    <2>1. \A t \in Nat : t + 0 = t
      OBVIOUS
    <2> QED
      BY <1>3, <1>5, <2>1
  <1>7. CASE net[1].kind = "update"
    <2>1. ssl' = [ssl EXCEPT !.flights = <<"write">>]
      BY <1>1, <1>3, <1>7
    <2>2. <<"write">> \in Flights
      BY DEF Flights
    <2>3. ssl' \in [flights : Flights, plain : Nat] /\ ssl'.flights = <<"write">> /\ ssl'.plain = 0
      BY <1>1, <1>2, <2>1, <2>2 DEF TlsShape
    <2>4. Head(<<"write">>) = "write"
      OBVIOUS
    <2> QED
      BY <1>1, <1>3, <1>6, <2>3, <2>4 DEF Kernel
  <1>8. CASE net[1].kind = "hello"
    <2>1. ssl' = [ssl EXCEPT !.flights = <<"write", "read", "write">>]
      BY <1>1, <1>3, <1>8
    <2>2. <<"write", "read", "write">> \in Flights
      BY DEF Flights
    <2>3. /\ ssl' \in [flights : Flights, plain : Nat] /\ ssl'.plain = 0
          /\ ssl'.flights = <<"write", "read", "write">>
      BY <1>1, <1>2, <2>1, <2>2 DEF TlsShape
    <2>4. Head(<<"write", "read", "write">>) = "write"
      OBVIOUS
    <2> QED
      BY <1>1, <1>3, <1>6, <1>8, <2>3, <2>4 DEF Kernel
  <1> QED
    BY <1>5, <1>7, <1>8

\* A unit is given.
LEMMA DecryptsIs ==
  ASSUME TlsInv, Decrypts
  PROVE  /\ ssl' \in [flights : Flights, plain : Nat]
         /\ ~Exchanging /\ ~Exchanging'
         /\ net' \in Seq(Record) /\ full' = full
         /\ Kernel'
         /\ \A t \in Nat, u \in Nat :
              Amount(t + ssl.plain, net, u) => Amount(t + 1 + ssl'.plain, net', u)
  <1>1. ~Exchanging /\ full' = full /\ TlsShape /\ Kernel /\ ssl.flights = <<>> /\ ssl.plain \in Nat
    BY FieldsAre DEF Decrypts, TlsInv, Exchanging
  <1>2. CASE ssl.plain > 0
    <2>1. ssl' = [ssl EXCEPT !.plain = @ - 1] /\ net' = net
      BY <1>2 DEF Decrypts
    <2>2. ssl.plain - 1 \in Nat
      BY <1>1, <1>2
    <2>3. /\ ssl' \in [flights : Flights, plain : Nat] /\ ssl'.plain = ssl.plain - 1
          /\ ssl'.flights = ssl.flights
      BY <1>1, <2>1, <2>2 DEF TlsShape
    <2>4. \A t \in Nat : t + 1 + (ssl.plain - 1) = t + ssl.plain
      BY <1>1
    <2> QED
      BY <1>1, <2>1, <2>3, <2>4 DEF Exchanging, Kernel, TlsShape
  <1>3. CASE ~(ssl.plain > 0)
    <2>1. /\ net # <<>> /\ Head(net).kind = "data"
          /\ ssl' = [ssl EXCEPT !.plain = Head(net).units - 1]
          /\ net' = Tail(net)
      BY <1>3 DEF Decrypts
    <2>2. /\ net' \in Seq(Record) /\ Len(net') = Len(net) - 1
          /\ \A i \in 1 .. Len(net') :
               /\ net'[i].kind # "flight"
               /\ net'[i].kind = "hello" => i = Len(net')
               /\ IF net'[i].kind = "data" THEN net'[i].units >= 1 ELSE net'[i].units = 0
          /\ Head(net) = net[1] /\ net[1] \in Record
          /\ \A t, u : Amount(t, net, u) => Amount(t + net[1].units, net', u)
      BY <2>1, KernelTail
    <2>3. 1 \in 1 .. Len(net)
      BY <1>1, <2>1, FieldsAre
    <2>4. net[1].units \in Nat /\ net[1].units >= 1
      BY <1>1, <2>1, <2>2, <2>3 DEF Kernel, Record
    <2>5. net[1].units - 1 \in Nat
      BY <2>4
    <2>6. /\ ssl' \in [flights : Flights, plain : Nat] /\ ssl'.plain = net[1].units - 1
          /\ ssl'.flights = ssl.flights
      BY <1>1, <2>1, <2>2, <2>5 DEF TlsShape
    <2>7. \A t \in Nat : t + ssl.plain = t /\ t + 1 + (net[1].units - 1) = t + net[1].units
      BY <1>1, <1>3, <2>4
    <2>8. ASSUME NEW t \in Nat, NEW u \in Nat, Amount(t + ssl.plain, net, u)
          PROVE  Amount(t + 1 + ssl'.plain, net', u)
      <3>1. Amount(t + net[1].units, net', u)
        BY <2>2, <2>7, <2>8
      <3> QED
        BY <2>6, <2>7, <3>1
    <2> QED
      BY <1>1, <2>2, <2>6, <2>8 DEF Exchanging, Kernel
  <1> QED
    BY <1>2, <1>3

\* The client sends no data while it owes a flight.
LEMMA MaySendIs ==
  ASSUME TlsShape, Kernel, MaySend
  PROVE  /\ Exchanging /\ Head(ssl.flights) = "read" => net # <<>>
         /\ ssl.flights # <<"write", "read", "write">>
         /\ ssl.flights # <<"read", "write", "read", "write">>
         /\ \A i \in 1 .. Len(net) : net[i].kind # "hello"
  <1> DEFINE f == ssl.flights
             A == {i \in DOMAIN f : f[i] = "read"}
             B == {i \in DOMAIN net : net[i].kind = "flight"}
  <1>1. /\ Cardinality(A) <= Cardinality(B)
        /\ \A i \in DOMAIN net : net[i].kind # "hello"
    BY DEF MaySend
  <1>2. Len(net) \in Nat /\ DOMAIN net = 1 .. Len(net) /\ f \in Flights
    BY FieldsAre
  <1>3. net = <<>> => B = {}
    BY <1>2, EmptySeq
  <1>4. B \subseteq {1}
    BY <1>2 DEF Kernel
  <1> HIDE DEF A, B
  <1>5. IsFiniteSet(B) /\ Cardinality(B) \in Nat /\ Cardinality(B) <= 1 /\ (B = {} => Cardinality(B) = 0)
    <2>1. IsFiniteSet({1}) /\ Cardinality({1}) = 1
      BY FS_Singleton
    <2>2. IsFiniteSet(B) /\ Cardinality(B) <= 1
      BY <1>4, <2>1, FS_Subset
    <2>3. Cardinality(B) \in Nat
      BY <2>2, FS_CardinalityType
    <2>4. B = {} => Cardinality(B) = 0
      BY FS_EmptySet
    <2> QED
      BY <2>2, <2>3, <2>4
  <1>6. CASE f = <<"read", "write">>
    <2>1. A = {1}
      BY <1>6 DEF A
    <2>2. Cardinality(A) = 1
      BY <2>1, FS_Singleton
    <2>3. f # <<"write", "read", "write">> /\ f # <<"read", "write", "read", "write">>
      BY <1>6
    <2> QED
      BY <1>1, <1>2, <1>3, <1>5, <2>2, <2>3
  <1>7. f # <<"write", "read", "write">>
    <2> SUFFICES ASSUME f = <<"write", "read", "write">> PROVE FALSE
      OBVIOUS
    <2>1. A = {2}
      BY DEF A
    <2>2. Cardinality(A) = 1
      BY <2>1, FS_Singleton
    <2>3. net = <<>>
      BY DEF Kernel
    <2> QED
      BY <1>1, <1>3, <1>5, <2>2, <2>3
  <1>8. f # <<"read", "write", "read", "write">>
    <2> SUFFICES ASSUME f = <<"read", "write", "read", "write">> PROVE FALSE
      OBVIOUS
    <2>1. A = {1, 3}
      BY DEF A
    <2> DEFINE one == {1}
    <2>2. IsFiniteSet(one) /\ Cardinality(one) = 1
      <3>1. IsFiniteSet({1}) /\ Cardinality({1}) = 1
        BY FS_Singleton
      <3> QED
        BY <3>1
    <2>3. A = one \union {3} /\ 3 \notin one
      BY <2>1
    <2> HIDE DEF one
    <2>4. Cardinality(A) = 2
      BY <2>2, <2>3, FS_AddElement
    <2> QED
      BY <1>1, <1>5, <2>4
  <1> QED
    BY <1>1, <1>2, <1>6, <1>7, <1>8, FlightsIs DEF Exchanging

\* What the client sends is last.
LEMMA ClientSent ==
  ASSUME TlsInv, MaySend, ssl' = ssl, NEW r \in Record, net' = Append(net, r),
         r.kind # "flight", IF r.kind = "data" THEN r.units >= 1 ELSE r.units = 0
  PROVE  /\ net' \in Seq(Record)
         /\ Kernel'
         /\ \A t, u : Amount(t, net, u) => Amount(t, net', u + r.units)
  <1>1. TlsShape /\ Kernel /\ net \in Seq(Record) /\ Len(net) \in Nat
    BY FieldsAre DEF TlsInv, TlsShape
  <1>2. /\ net' \in Seq(Record) /\ Len(net') = Len(net) + 1 /\ net'[Len(net) + 1] = r
        /\ \A i \in 1 .. Len(net) : net'[i] = net[i]
    BY <1>1, AppendProperties
  <1>3. /\ Exchanging /\ Head(ssl.flights) = "read" => net # <<>>
        /\ ssl.flights # <<"write", "read", "write">>
        /\ ssl.flights # <<"read", "write", "read", "write">>
        /\ \A i \in 1 .. Len(net) : net[i].kind # "hello"
    BY <1>1, MaySendIs
  <1>4. Exchanging' <=> Exchanging
    BY DEF Exchanging
  <1>5. ASSUME NEW i \in 1 .. Len(net')
        PROVE  /\ net'[i].kind = "flight" => i = 1 /\ Exchanging' /\ Head(ssl'.flights) = "read"
               /\ net'[i].kind = "hello" => i = Len(net')
               /\ IF net'[i].kind = "data" THEN net'[i].units >= 1 ELSE net'[i].units = 0
    <2> DEFINE l == Len(net)
    <2>1. i \in 1 .. l \/ i = l + 1
      <3>1. l \in Nat /\ i \in 1 .. l + 1
        BY <1>1, <1>2
      <3> HIDE DEF l
      <3> QED
        BY <3>1
    <2>2. CASE i \in 1 .. l
      BY <1>1, <1>2, <1>3, <1>4, <2>2 DEF Kernel
    <2>3. CASE i = l + 1
      BY <1>2, <2>3
    <2> QED
      BY <2>1, <2>2, <2>3
  <1>6. Exchanging' /\ Head(ssl'.flights) = "read" => net'[1].kind = "flight"
    <2> SUFFICES ASSUME Exchanging', Head(ssl'.flights) = "read" PROVE net'[1].kind = "flight"
      OBVIOUS
    <2>1. net # <<>>
      BY <1>3, <1>4
    <2>2. 1 \in 1 .. Len(net)
      BY <1>1, <2>1, FieldsAre
    <2>3. Exchanging /\ Head(ssl.flights) = "read"
      BY <1>4
    <2>4. net[1].kind = "flight"
      BY <1>1, <2>1, <2>3 DEF Kernel
    <2> QED
      BY <1>2, <2>2, <2>4
  <1>7. Kernel'
    BY <1>3, <1>5, <1>6 DEF Kernel
  <1> QED
    BY <1>1, <1>2, <1>7, AmountAppend

\* The steps of the client and the kernel.
LEMMA TlsClientStep ==
  ASSUME TlsInv, ClientFlight \/ ClientData \/ ClientControl \/ ClientReads
  PROVE  TlsInv'
  <1>1. /\ tls' = tls /\ mask' = mask /\ buffered' = buffered /\ output' = output
        /\ pc' = pc /\ call' = call /\ out' = out /\ ssl' = ssl
    BY DEF ClientFlight, ClientData, ClientControl, ClientReads, serverVars
  <1>2. /\ TlsShape /\ net \in Seq(Record) /\ Units /\ Kernel
        /\ client \in [control : {"update", "hello"}, units : Nat, controls : Nat, answered : Nat,
                       pipelines : BOOLEAN]
        /\ full \in BOOLEAN
    BY DEF TlsInv, TlsShape
  <1>3. /\ net' \in Seq(Record) /\ full' \in BOOLEAN /\ Kernel' /\ Units'
        /\ client' \in [control : {"update", "hello"}, units : Nat, controls : Nat, answered : Nat,
                        pipelines : BOOLEAN]
    <2>1. CASE ClientFlight
      <3> DEFINE r == Control("flight")
      <3>1. r \in Record /\ r.kind = "flight" /\ r.units = 0
        BY DEF Control, Record
      <3>2. /\ Exchanging /\ Head(ssl.flights) = "read" /\ net = <<>> /\ net' = <<r>>
            /\ full' = full /\ client' = client
        BY <2>1 DEF ClientFlight
      <3> HIDE DEF r
      <3>3. /\ net' = Append(net, r) /\ net' \in Seq(Record) /\ Len(net') = 1 /\ net'[1] = r
        BY <3>1, <3>2
      <3>4. Exchanging' /\ Head(ssl'.flights) = "read"
        BY <1>1, <3>2 DEF Exchanging
      <3>5. ssl.flights # <<"write", "read", "write">>
        BY <3>2
      <3>6. Kernel'
        BY <1>1, <3>1, <3>3, <3>4, <3>5 DEF Kernel
      <3>7. Amount(Taken, net', client.units)
        <4>1. Amount(Taken, net', client.units + r.units)
          BY <1>2, <3>1, <3>3, AmountAppend DEF Units
        <4>2. client.units + r.units = client.units
          BY <1>2, <3>1
        <4> QED
          BY <4>1, <4>2
      <3>8. Units'
        BY <1>1, <1>2, <3>2, <3>7 DEF Units, Taken
      <3> QED
        BY <1>2, <3>2, <3>3, <3>6, <3>8
    <2>2. CASE ClientData
      <3>1. PICK n \in 1 .. MaxRecord :
              /\ net' = Append(net, Data(n))
              /\ client' = [client EXCEPT !.units = @ + n,
                              !.pipelines = @ \/ client.units + n > 2 * (client.answered + 1)]
        BY <2>2 DEF ClientData
      <3>2. MaySend /\ full' = full
        BY <2>2 DEF ClientData
      <3>3. n \in Nat /\ n >= 1
        OBVIOUS
      <3>4. Data(n) \in Record /\ Data(n).kind = "data" /\ Data(n).units = n
        BY <3>3 DEF Data, Record
      <3>5. /\ net' \in Seq(Record) /\ Kernel'
            /\ \A t, u : Amount(t, net, u) => Amount(t, net', u + n)
        BY <1>1, <3>1, <3>2, <3>3, <3>4, ClientSent
      <3>6. /\ client.units \in Nat /\ client.answered \in Nat /\ client.pipelines \in BOOLEAN
        BY <1>2
      <3> DEFINE p == client.pipelines \/ client.units + n > 2 * (client.answered + 1)
      <3>7. client.units + n \in Nat /\ p \in BOOLEAN
        BY <3>3, <3>6
      <3>8. client' = [client EXCEPT !.units = @ + n, !.pipelines = p]
        BY <3>1
      <3> HIDE DEF p
      <3>9. /\ client' \in [control : {"update", "hello"}, units : Nat, controls : Nat,
                            answered : Nat, pipelines : BOOLEAN]
            /\ client'.units = client.units + n /\ client'.answered = client.answered
            /\ client'.pipelines = p
        BY <1>2, <3>7, <3>8
      <3>10. Taken' = Taken
        BY <1>1, <3>9 DEF Taken
      <3>11. Units'
        BY <1>1, <1>2, <3>3, <3>5, <3>6, <3>9, <3>10 DEF Units, p
      <3> QED
        BY <1>2, <3>2, <3>5, <3>9, <3>11
    <2>3. CASE ClientControl
      <3> DEFINE r == Control(client.control)
      <3>1. r \in Record /\ r.kind \in {"update", "hello"} /\ r.units = 0
        BY <1>2 DEF Control, Record
      <3>2. /\ MaySend /\ full' = full /\ net' = Append(net, r)
            /\ client' = [client EXCEPT !.controls = @ + 1]
        BY <2>3 DEF ClientControl
      <3> HIDE DEF r
      <3>3. /\ net' \in Seq(Record) /\ Kernel'
            /\ \A t, u : Amount(t, net, u) => Amount(t, net', u + r.units)
        BY <1>1, <3>1, <3>2, ClientSent
      <3>4. /\ client' \in [control : {"update", "hello"}, units : Nat, controls : Nat,
                            answered : Nat, pipelines : BOOLEAN]
            /\ client'.units = client.units /\ client'.answered = client.answered
            /\ client'.pipelines = client.pipelines
        <4>1. client.controls + 1 \in Nat
          BY <1>2
        <4>2. client' = [client EXCEPT !.controls = client.controls + 1]
          BY <3>2
        <4> DEFINE k == client.controls + 1
        <4>3. client' = [client EXCEPT !.controls = k] /\ k \in Nat
          BY <4>1, <4>2
        <4> HIDE DEF k
        <4> QED
          BY <1>2, <4>3
      <3>5. Taken' = Taken /\ client.units + r.units = client.units
        <4>1. Taken' = Taken
          BY <1>1, <3>4 DEF Taken
        <4>2. client.units \in Nat
          BY <1>2
        <4>3. client.units + r.units = client.units
          BY <3>1, <4>2
        <4> QED
          BY <4>1, <4>3
      <3>6. Amount(Taken, net, client.units)
        BY <1>2 DEF Units
      <3>7. Amount(Taken, net', client.units)
        BY <3>3, <3>5, <3>6
      <3>8. Units'
        BY <1>1, <1>2, <3>4, <3>5, <3>7 DEF Units
      <3> QED
        BY <1>2, <3>2, <3>3, <3>4, <3>8
    <2>4. CASE ClientReads
      <3>1. net' = net /\ client' = client /\ full' = FALSE
        BY <2>4 DEF ClientReads
      <3>2. Units' /\ Kernel'
        BY <1>1, <1>2, <3>1 DEF Units, Taken, Kernel, Exchanging
      <3> QED
        BY <1>2, <3>1, <3>2
    <2> QED
      BY <2>1, <2>2, <2>3, <2>4
  <1>4. TlsShape'
    BY <1>1, <1>2, <1>3 DEF TlsShape
  <1>5. Calls' /\ Wants' /\ Mask'
    BY <1>1 DEF TlsInv, Calls, Wants, Mask, Exchanging
  <1> QED
    BY <1>3, <1>4, <1>5 DEF TlsInv

(***************************************************************************)
(* The worker.                                                             *)
(***************************************************************************)

\* A handler begins.
LEMMA EventStep ==
  ASSUME TlsInv, Event
  PROVE  TlsInv'
  <1> DEFINE e == IF Reported("read") THEN "read" ELSE "write"
  <1>1. /\ pc = "wait" /\ Handle(e) /\ out' = (Reported("read") /\ Reported("write"))
        /\ tls' = tls /\ mask' = mask /\ buffered' = buffered /\ output' = output
        /\ ssl' = ssl /\ net' = net /\ full' = full /\ client' = client
    BY DEF Event
  <1>2. TlsShape /\ Kernel /\ Units /\ call = "none"
    BY <1>1 DEF TlsInv, Calls
  <1>3. Calm'
    <2>1. Calm
      BY <1>2, WaitsCalm
    <2> QED
      BY <1>1, <2>1 DEF Calm, Exchanging
  <1>4. e \in {"wait", "read", "write"} /\ (e = "read" => "in" \in mask')
    BY <1>1 DEF Reported
  <1>5. out' \in BOOLEAN
    BY <1>1
  <1>6. tls' \in Flags /\ output' \in Nat
    BY <1>1, <1>2 DEF TlsShape
  <1> HIDE DEF e
  <1>7. /\ pc' = e /\ call' \in {"none", "accept", "read", "write", "finish"}
        /\ Calls' /\ Wants' /\ Mask'
    BY <1>1, <1>3, <1>4, <1>6, HandleStep
  <1>8. TlsShape'
    BY <1>1, <1>2, <1>4, <1>5, <1>7 DEF TlsShape, e
  <1>9. Kernel'
    BY <1>1, <1>2 DEF Kernel, Exchanging
  <1>10. Units'
    <2>1. Taken' = Taken
      BY <1>1 DEF Taken
    <2> QED
      BY <1>1, <1>2, <2>1 DEF Units
  <1> QED
    BY <1>7, <1>8, <1>9, <1>10 DEF TlsInv

\* A call that would block notes what it waits for.
LEMMA BlocksStep ==
  ASSUME TlsInv, Blocks
  PROVE  TlsInv'
  <1>1. PICK d \in WaitsFor(call) : tls' = WouldBlock(tls, call, d)
    BY DEF Blocks
  <1>2. /\ call \in {"accept", "read", "write"} /\ Sync /\ Returns
        /\ buffered' = buffered /\ output' = output
        /\ ssl' = ssl /\ net' = net /\ full' = full /\ client' = client
    BY DEF Blocks
  <1>3. TlsShape /\ Calls /\ Wants /\ Mask /\ Kernel /\ Units /\ tls \in Flags
    BY DEF TlsInv, TlsShape
  <1>4. /\ tls.complete \in BOOLEAN /\ tls.readWantsWrite \in BOOLEAN
        /\ tls.writeWantsRead \in BOOLEAN /\ output \in Nat
    BY <1>3, FieldsAre DEF TlsShape
  <1>5. /\ Exchanging => d = Head(ssl.flights)
        /\ ~Exchanging /\ call = "read" => d = "read" /\ ssl.plain = 0
        /\ ~Exchanging /\ call # "read" => d = "write"
    BY <1>1, <1>3, WaitsIs
  <1>6. d \in {"read", "write"}
    <2>1. Exchanging => Head(ssl.flights) \in {"read", "write"}
      BY <1>3, FieldsAre, FlightsIs DEF Exchanging
    <2> QED
      BY <1>2, <1>5, <2>1
  <1>7. /\ tls' \in Flags
        /\ tls'.complete = tls.complete
        /\ tls'.wantRead = (d = "read") /\ tls'.wantWrite = (d = "write")
        /\ tls'.readWantsWrite = IF call = "read" THEN d = "write" ELSE tls.readWantsWrite
        /\ tls'.writeWantsRead = IF call = "write" THEN d = "read" ELSE tls.writeWantsRead
    <2>1. tls' = WouldBlock(tls, call, d) /\ tls \in Flags
      BY <1>1, <1>3
    <2>2. CASE call = "read"
      BY <2>1, <2>2 DEF WouldBlock, Flags
    <2>3. CASE call # "read"
      BY <2>1, <2>3 DEF WouldBlock, Flags
    <2> QED
      BY <2>2, <2>3
  <1>8. /\ mask' \subseteq {"in", "out"}
        /\ "in" \in mask' <=> WantsRead(tls')
        /\ "out" \in mask' <=> WantsWrite(tls', output')
    BY <1>2, SyncIs
  <1>9. Exchanging' <=> Exchanging
    BY <1>2 DEF Exchanging
  <1>10. Calm'
    <2>1. CASE ~tls.complete
      <3>1. /\ call = "accept" /\ ~tls.readWantsWrite /\ ~tls.writeWantsRead
            /\ output = 0 /\ Exchanging /\ ssl.plain = 0
        BY <1>2, <1>3, <2>1 DEF Calls
      <3>2. "in" \in mask' <=> d = "read"
        BY <1>6, <1>7, <1>8, <2>1 DEF WantsRead
      <3>3. "out" \in mask' <=> d = "write"
        BY <1>7, <1>8, <2>1 DEF WantsWrite
      <3> QED
        BY <1>2, <1>5, <1>6, <1>7, <1>9, <2>1, <3>1, <3>2, <3>3 DEF Calm
    <2>2. CASE tls.complete
      <3>1. "in" \in mask'
        BY <1>7, <1>8, <2>2 DEF WantsRead
      <3>2. /\ tls'.readWantsWrite => "out" \in mask'
            /\ output' > 0 /\ ~tls'.writeWantsRead => "out" \in mask'
        BY <1>7, <1>8, <2>2 DEF WantsWrite
      <3>3. call \in {"read", "write"} /\ (call = "write" => output > 0)
        BY <1>2, <1>3, <2>2 DEF Calls
      <3>4. tls'.writeWantsRead => output' > 0 /\ Exchanging' /\ Head(ssl'.flights) = "read"
        BY <1>2, <1>3, <1>5, <1>6, <1>7, <1>9, <3>3 DEF Wants
      <3>5. Exchanging' /\ Head(ssl'.flights) = "write" => tls'.readWantsWrite \/ output' > 0
        BY <1>2, <1>5, <1>7, <1>9, <3>3
      <3>6. Exchanging' => ssl'.plain = 0
        BY <1>2, <1>3, <1>9 DEF Calls
      <3> QED
        BY <1>7, <2>2, <3>1, <3>2, <3>4, <3>5, <3>6 DEF Calm
    <2> QED
      BY <1>4, <2>1, <2>2
  <1>11. output' \in Nat
    BY <1>2, <1>4
  <1>12. /\ pc' \in {"wait", "read", "write"} /\ out' \in BOOLEAN
         /\ call' \in {"none", "accept", "read", "write", "finish"}
         /\ Calls' /\ Wants' /\ Mask'
    BY <1>2, <1>7, <1>10, <1>11, ReturnStep
  <1>13. TlsShape'
    BY <1>2, <1>3, <1>7, <1>8, <1>12 DEF TlsShape
  <1>14. Kernel'
    BY <1>2, <1>3 DEF Kernel, Exchanging
  <1>15. Units'
    <2>1. Taken' = Taken
      BY <1>2 DEF Taken
    <2>2. ssl.plain > 0 => client.pipelines
      <3>1. call = "read" => ssl.plain = 0
        BY <1>3, <1>5 DEF Calls
      <3> QED
        BY <1>3, <3>1 DEF Units
    <2> QED
      BY <1>2, <1>3, <2>1, <2>2 DEF Units
  <1> QED
    BY <1>12, <1>13, <1>14, <1>15 DEF TlsInv

\* A call goes on with an exchange.
LEMMA ExchangeStep ==
  ASSUME TlsInv, Exchange
  PROVE  TlsInv'
  <1>1. /\ call \in {"accept", "read", "write"} /\ Flight
        /\ mask' = mask /\ buffered' = buffered /\ output' = output /\ client' = client
        /\ IF call = "accept" /\ ssl'.flights = <<>>
           THEN tls' = NoWants /\ out' = out /\ Handle(pc)
           ELSE tls' = tls /\ pc' = pc /\ call' = call /\ out' = out
    BY DEF Exchange, GoesOn
  <1>2. TlsShape /\ Calls /\ Wants /\ Mask /\ Kernel /\ Units /\ tls \in Flags
    BY DEF TlsInv, TlsShape
  <1>3. /\ ssl' \in [flights : Flights, plain : Nat] /\ ssl'.plain = 0 /\ ssl.plain = 0
        /\ net' \in Seq(Record) /\ full' \in BOOLEAN /\ Kernel'
        /\ \A t, u : t \in Nat /\ Amount(t, net, u) => Amount(t, net', u)
    BY <1>1, FlightIs
  <1>4. Exchanging /\ (Exchanging' <=> ssl'.flights # <<>>)
    BY <1>1 DEF Flight, Exchanging
  <1>5. Units'
    <2>1. Taken' = Taken
      BY <1>1, <1>3 DEF Taken
    <2>2. Amount(Taken, net, client.units) /\ Taken \in Nat
      BY <1>2, AmountLeast DEF Units, TlsShape
    <2>3. Amount(Taken', net', client'.units)
      BY <1>1, <1>3, <2>1, <2>2
    <2> QED
      BY <1>1, <1>2, <1>3, <2>3 DEF Units
  <1>6. CASE call = "accept" /\ ssl'.flights = <<>>
    <2>1. tls' = NoWants /\ out' = out /\ Handle(pc)
      BY <1>1, <1>6
    <2>2. ~tls.complete /\ output = 0 /\ pc \in {"read", "write"}
      BY <1>2, <1>6 DEF Calls, TlsShape
    <2>3. /\ tls' \in Flags /\ tls'.complete /\ ~tls'.readWantsWrite /\ ~tls'.writeWantsRead
      BY <2>1, FlagsAre, <1>2 DEF NoWants
    <2>4. output' = 0 /\ ~Exchanging'
      BY <1>1, <1>4, <1>6, <2>2
    <2>5. CASE pc = "read"
      <3>1. "in" \in mask'
        BY <1>1, <1>2, <2>5 DEF Mask
      <3>2. Calm'
        BY <2>3, <2>4, <3>1 DEF Calm
      <3>3. /\ pc' = pc /\ call' \in {"none", "accept", "read", "write", "finish"}
            /\ Calls' /\ Wants' /\ Mask'
        BY <2>1, <2>3, <2>4, <2>5, <3>1, <3>2, HandleStep
      <3>4. TlsShape'
        BY <1>1, <1>2, <1>3, <2>1, <2>3, <3>3 DEF TlsShape
      <3> QED
        BY <1>3, <1>5, <3>3, <3>4 DEF TlsInv
    <2>6. CASE pc = "write"
      <3>1. pc' = "write" /\ call' = Call(tls', output', "write")
        BY <2>1, <2>6 DEF Handle
      <3>2. call' = "finish"
        BY <2>3, <2>4, <3>1, CallIs
      <3>3. Calls'
        BY <2>3, <2>4, <3>1, <3>2 DEF Calls
      <3>4. Wants'
        BY <2>3, <2>4, <3>2 DEF Wants
      <3>5. Mask'
        BY <2>3, <2>4, <3>1, <3>2 DEF Mask
      <3>6. TlsShape'
        BY <1>1, <1>2, <1>3, <2>1, <2>3, <3>1, <3>2 DEF TlsShape
      <3> QED
        BY <1>3, <1>5, <3>3, <3>4, <3>5, <3>6 DEF TlsInv
    <2> QED
      BY <2>2, <2>5, <2>6
  <1>7. CASE ~(call = "accept" /\ ssl'.flights = <<>>)
    <2>1. tls' = tls /\ pc' = pc /\ call' = call /\ out' = out
      BY <1>1, <1>7
    <2>2. ~tls.complete => Exchanging'
      BY <1>1, <1>2, <1>4, <1>7 DEF Calls
    <2>3. Calls'
      BY <1>1, <1>2, <1>3, <1>4, <2>1, <2>2 DEF Calls
    <2>4. Wants'
      BY <1>1, <1>2, <2>1 DEF Wants
    <2>5. Mask'
      BY <1>1, <1>2, <2>1 DEF Mask
    <2>6. TlsShape'
      BY <1>1, <1>2, <1>3, <2>1 DEF TlsShape
    <2> QED
      BY <1>3, <1>5, <2>3, <2>4, <2>5, <2>6 DEF TlsInv
  <1> QED
    BY <1>6, <1>7

\* SSL_read finds a record that begins an exchange.
LEMMA ProtocolStep ==
  ASSUME TlsInv, Protocol
  PROVE  TlsInv'
  <1>1. /\ call = "read" /\ Begins
        /\ mask' = mask /\ buffered' = buffered /\ output' = output /\ client' = client
        /\ tls' = tls /\ pc' = pc /\ call' = call /\ out' = out
    BY DEF Protocol, GoesOn
  <1>2. TlsShape /\ Calls /\ Wants /\ Mask /\ Kernel /\ Units
    BY DEF TlsInv
  <1>3. /\ ssl' \in [flights : Flights, plain : Nat] /\ ssl'.plain = 0 /\ ssl.plain = 0
        /\ net' \in Seq(Record) /\ full' = full /\ Kernel'
        /\ \A t, u : t \in Nat /\ Amount(t, net, u) => Amount(t, net', u)
    BY <1>1, BeginsIs
  <1>4. Units'
    <2>1. Taken' = Taken
      BY <1>1, <1>3 DEF Taken
    <2>2. Amount(Taken, net, client.units) /\ Taken \in Nat
      BY <1>2, AmountLeast DEF Units, TlsShape
    <2>3. Amount(Taken', net', client'.units)
      BY <1>1, <1>3, <2>1, <2>2
    <2> QED
      BY <1>1, <1>2, <1>3, <2>3 DEF Units
  <1>5. Calls'
    BY <1>1, <1>2, <1>3 DEF Calls
  <1>6. Wants'
    BY <1>1, <1>2 DEF Wants
  <1>7. Mask'
    BY <1>1, <1>2 DEF Mask, Calls
  <1>8. TlsShape'
    BY <1>1, <1>2, <1>3 DEF TlsShape
  <1> QED
    BY <1>3, <1>4, <1>5, <1>6, <1>7, <1>8 DEF TlsInv

\* Nothing is to be written.
LEMMA FinishStep ==
  ASSUME TlsInv, Finish
  PROVE  TlsInv'
  <1>1. /\ call = "finish" /\ Sync /\ Returns
        /\ tls' = tls /\ output' = output /\ buffered' = buffered
        /\ ssl' = ssl /\ net' = net /\ full' = full /\ client' = client
    BY DEF Finish
  <1>2. TlsShape /\ Calls /\ Wants /\ Mask /\ Kernel /\ Units
    BY DEF TlsInv
  <1>3. /\ mask' \subseteq {"in", "out"}
        /\ "in" \in mask' <=> WantsRead(tls')
        /\ "out" \in mask' <=> WantsWrite(tls', output')
    BY <1>1, SyncIs
  <1>4. tls.complete /\ (Exchanging' <=> Exchanging)
    BY <1>1, <1>2 DEF Calls, Exchanging
  <1>5. Calm'
    <2>1. "in" \in mask'
      BY <1>1, <1>3, <1>4 DEF WantsRead
    <2>2. /\ tls.readWantsWrite => "out" \in mask'
          /\ output > 0 /\ ~tls.writeWantsRead => "out" \in mask'
      BY <1>1, <1>3, <1>4 DEF WantsWrite
    <2> QED
      BY <1>1, <1>2, <1>4, <2>1, <2>2 DEF Calm, Wants, Calls
  <1>6. tls' \in Flags /\ output' \in Nat
    BY <1>1, <1>2 DEF TlsShape
  <1>7. /\ pc' \in {"wait", "read", "write"} /\ out' \in BOOLEAN
        /\ call' \in {"none", "accept", "read", "write", "finish"}
        /\ Calls' /\ Wants' /\ Mask'
    BY <1>1, <1>5, <1>6, ReturnStep
  <1>8. TlsShape'
    BY <1>1, <1>2, <1>3, <1>7 DEF TlsShape
  <1>9. Kernel'
    BY <1>1, <1>2 DEF Kernel, Exchanging
  <1>10. Units'
    <2>1. Taken' = Taken
      BY <1>1 DEF Taken
    <2> QED
      BY <1>1, <1>2, <2>1 DEF Units
  <1> QED
    BY <1>7, <1>8, <1>9, <1>10 DEF TlsInv

\* A unit of data is given, and the request processed if it is whole.
LEMMA ReceiveStep ==
  ASSUME TlsInv, Receive
  PROVE  TlsInv'
  <1>1. /\ call = "read" /\ Decrypts /\ tls' = AfterRead(tls) /\ client' = client
        /\ Process(buffered + 1)
        /\ CASE output > 0 -> mask' = mask /\ Returns
             [] output = 0 /\ output' > 0 -> Sync /\ Returns
             [] OTHER -> mask' = mask /\ GoesOn
    BY DEF Receive
  <1>2. /\ TlsShape /\ Calls /\ Wants /\ Mask /\ Kernel /\ Units /\ tls \in Flags
        /\ buffered \in Nat /\ output \in Nat /\ client.answered \in Nat
        /\ client.units \in Nat /\ client.pipelines \in BOOLEAN
    BY FieldsAre DEF TlsInv, TlsShape
  <1>3. /\ ssl' \in [flights : Flights, plain : Nat]
        /\ ~Exchanging /\ ~Exchanging'
        /\ net' \in Seq(Record) /\ full' = full
        /\ Kernel'
        /\ \A t \in Nat, u \in Nat :
             Amount(t + ssl.plain, net, u) => Amount(t + 1 + ssl'.plain, net', u)
    BY <1>1, DecryptsIs
  <1>4. tls.complete /\ ~tls.writeWantsRead /\ "in" \in mask
    BY <1>1, <1>2 DEF Calls, Wants, Mask
  <1>5. tls' \in Flags /\ tls'.complete /\ ~tls'.readWantsWrite /\ ~tls'.writeWantsRead
    BY <1>1, <1>2, <1>4, FlagsAre
  <1>6. ssl.plain \in Nat /\ ssl'.plain \in Nat
    BY <1>2, <1>3, FieldsAre
  <1> DEFINE asked == IF output > 0 THEN 2 ELSE 0
             t == 2 * client.answered + asked + buffered
  <1>7. t \in Nat /\ t + ssl.plain = Taken
    BY <1>2, <1>6 DEF Taken
  <1>8. Amount(t + 1 + ssl'.plain, net', client.units)
    BY <1>2, <1>3, <1>7 DEF Units
  <1>9. t + 1 + ssl'.plain <= client.units
    BY <1>3, <1>8, AmountLeast
  <1>10. \/ output = 0 /\ buffered >= 1 /\ buffered' = buffered - 1 /\ output' \in Nat /\ output' > 0
         \/ output > 0 /\ buffered' = buffered + 1 /\ output' = output
         \/ output = 0 /\ buffered = 0 /\ buffered' = 1 /\ output' = 0
    <2>1. CASE output = 0 /\ buffered >= 1
      <3>1. buffered + 1 >= 2 /\ (buffered + 1) - 2 = buffered - 1
        BY <1>2, <2>1
      <3>2. IF output = 0 /\ buffered + 1 >= 2
            THEN buffered' = (buffered + 1) - 2 /\ output' \in 1 .. MaxReply
            ELSE buffered' = buffered + 1 /\ output' = output
        BY <1>1 DEF Process
      <3>3. buffered' = (buffered + 1) - 2 /\ output' \in 1 .. MaxReply
        BY <2>1, <3>1, <3>2
      <3> QED
        BY <2>1, <3>1, <3>3
    <2>2. CASE ~(output = 0 /\ buffered >= 1)
      <3>1. output > 0 \/ (output = 0 /\ buffered = 0 /\ buffered + 1 = 1)
        BY <1>2, <2>2
      <3>2. ~(output = 0 /\ buffered + 1 >= 2)
        BY <1>2, <2>2
      <3>3. buffered' = buffered + 1 /\ output' = output
        BY <1>1, <3>2 DEF Process
      <3> QED
        BY <3>1, <3>3
    <2> QED
      BY <2>1, <2>2
  <1>11. buffered' \in Nat /\ output' \in Nat
    BY <1>2, <1>10
  <1>12. Taken' = t + 1 + ssl'.plain
    BY <1>1, <1>2, <1>6, <1>10 DEF Taken
  <1>13. /\ Amount(Taken', net', client'.units)
         /\ client'.pipelines \/ client'.units <= 2 * (client'.answered + 1)
    BY <1>1, <1>2, <1>8, <1>12 DEF Units
  <1>14. ssl'.plain > 0 /\ (output > 0 \/ buffered >= 1) => client.pipelines
    <2> SUFFICES ASSUME ssl'.plain > 0, output > 0 \/ buffered >= 1
                 PROVE  client.pipelines
      OBVIOUS
    <2>1. t >= 2 * client.answered + 1
      BY <1>2
    <2>2. client.units > 2 * (client.answered + 1)
      <3> HIDE DEF t
      <3> QED
        BY <1>2, <1>6, <1>7, <1>9, <2>1
    <2>3. client.pipelines \/ client.units <= 2 * (client.answered + 1)
      BY <1>2 DEF Units
    <2> QED
      BY <1>2, <2>2, <2>3
  <1> HIDE DEF t, asked
  <1>15. CASE output > 0 \/ output' > 0
    <2>1. Returns
      BY <1>1, <1>2, <1>11, <1>15
    <2>2. /\ mask' \subseteq {"in", "out"} /\ "in" \in mask'
          /\ output' > 0 => "out" \in mask'
      <3>1. CASE output > 0
        <4>1. mask' = mask
          BY <1>1, <3>1
        <4>2. "out" \in mask
          BY <1>1, <1>2, <1>4, <3>1 DEF Mask
        <4> QED
          BY <1>2, <1>4, <4>1, <4>2 DEF TlsShape
      <3>2. CASE ~(output > 0)
        <4>1. Sync
          BY <1>1, <1>2, <1>15, <3>2
        <4>2. "in" \in mask' /\ "out" \in mask' /\ mask' \subseteq {"in", "out"}
          BY <1>5, <1>15, <3>2, <4>1, SyncIs DEF WantsRead, WantsWrite
        <4> QED
          BY <4>2
      <3> QED
        BY <3>1, <3>2
    <2>3. Calm'
      BY <1>3, <1>5, <2>2 DEF Calm
    <2>4. /\ pc' \in {"wait", "read", "write"} /\ out' \in BOOLEAN
          /\ call' \in {"none", "accept", "read", "write", "finish"}
          /\ Calls' /\ Wants' /\ Mask'
      BY <1>5, <1>11, <2>1, <2>3, ReturnStep
    <2>5. TlsShape'
      BY <1>1, <1>2, <1>3, <1>5, <1>11, <2>2, <2>4 DEF TlsShape
    <2>6. output > 0 \/ buffered >= 1
      BY <1>10, <1>15
    <2>7. Units'
      BY <1>1, <1>13, <1>14, <2>6 DEF Units
    <2> QED
      BY <1>3, <2>4, <2>5, <2>7 DEF TlsInv
  <1>16. CASE ~(output > 0 \/ output' > 0)
    <2>1. mask' = mask /\ pc' = pc /\ call' = call /\ out' = out
      BY <1>1, <1>2, <1>16 DEF GoesOn
    <2>2. output' = 0
      BY <1>11, <1>16
    <2>3. TlsShape'
      BY <1>1, <1>2, <1>3, <1>5, <1>11, <2>1 DEF TlsShape
    <2>4. Calls'
      BY <1>1, <1>2, <1>3, <1>5, <2>1 DEF Calls
    <2>5. Wants'
      BY <1>1, <1>5, <2>1 DEF Wants
    <2>6. Mask'
      BY <1>1, <1>2, <1>4, <1>5, <2>1, <2>2 DEF Mask
    <2>7. Units'
      BY <1>1, <1>13, <2>1, <2>2 DEF Units
    <2> QED
      BY <1>3, <2>3, <2>4, <2>5, <2>6, <2>7 DEF TlsInv
  <1> QED
    BY <1>15, <1>16

\* A unit of the response is written.
LEMMA SendStep ==
  ASSUME TlsInv, Send
  PROVE  TlsInv'
  <1>1. /\ call = "write" /\ Encrypts /\ tls' = AfterWrite(tls)
        /\ IF output > 1
           THEN /\ output' = output - 1 /\ pc' = pc /\ call' = call /\ out' = out
                /\ mask' = mask /\ buffered' = buffered /\ client' = client
           ELSE /\ IF buffered >= 2
                   THEN buffered' = buffered - 2 /\ output' \in 1 .. MaxReply
                   ELSE output' = 0 /\ buffered' = buffered
                /\ IF buffered = 1 THEN mask' = mask ELSE Sync
                /\ client' = [client EXCEPT !.answered = @ + 1]
                /\ Returns
    BY DEF Send, GoesOn
  <1>2. /\ TlsShape /\ Calls /\ Wants /\ Mask /\ Kernel /\ Units /\ tls \in Flags
        /\ buffered \in Nat /\ output \in Nat /\ client.answered \in Nat
        /\ client.units \in Nat /\ client.pipelines \in BOOLEAN /\ ssl.plain \in Nat
    BY FieldsAre DEF TlsInv, TlsShape
  <1>3. ~Exchanging /\ full' \in BOOLEAN /\ ssl' = ssl /\ net' = net /\ (Exchanging' <=> Exchanging)
    BY <1>1 DEF Encrypts, Exchanging
  <1>4. tls.complete /\ output > 0 /\ "in" \in mask
    BY <1>1, <1>2 DEF Calls, Mask
  <1>5. /\ tls' \in Flags /\ tls'.complete /\ ~tls'.writeWantsRead
        /\ tls'.readWantsWrite = tls.readWantsWrite
    BY <1>1, <1>2, <1>4, FlagsAre
  <1>6. Kernel'
    BY <1>2, <1>3 DEF Kernel
  <1>7. ssl.plain > 0 => client.pipelines
    BY <1>1, <1>2 DEF Units
  <1>8. tls.readWantsWrite => "out" \in mask
    BY <1>2 DEF Mask
  <1>9. CASE output > 1
    <2>1. /\ output' = output - 1 /\ pc' = pc /\ call' = call /\ out' = out
          /\ mask' = mask /\ buffered' = buffered /\ client' = client
      BY <1>1, <1>9
    <2>2. output' \in Nat /\ output' > 0
      BY <1>2, <1>9, <2>1
    <2>3. TlsShape'
      BY <1>2, <1>3, <1>5, <2>1, <2>2 DEF TlsShape
    <2>4. Calls'
      BY <1>1, <1>2, <1>3, <1>5, <2>1, <2>2 DEF Calls
    <2>5. Wants'
      BY <1>1, <1>5, <2>1 DEF Wants
    <2>6. Mask'
      BY <1>1, <1>2, <1>4, <1>5, <1>8, <2>1 DEF Mask
    <2>7. Taken' = Taken
      BY <1>3, <1>4, <2>1, <2>2 DEF Taken
    <2>8. Units'
      BY <1>2, <1>3, <1>7, <2>1, <2>7 DEF Units
    <2> QED
      BY <1>6, <2>3, <2>4, <2>5, <2>6, <2>8 DEF TlsInv
  <1>10. CASE ~(output > 1)
    <2>1. /\ IF buffered >= 2
             THEN buffered' = buffered - 2 /\ output' \in 1 .. MaxReply
             ELSE output' = 0 /\ buffered' = buffered
          /\ IF buffered = 1 THEN mask' = mask ELSE Sync
          /\ client' = [client EXCEPT !.answered = @ + 1]
          /\ Returns
      BY <1>1, <1>10
    <2>2. \/ buffered >= 2 /\ buffered' = buffered - 2 /\ output' \in Nat /\ output' > 0
          \/ buffered < 2 /\ buffered' = buffered /\ output' = 0
      BY <1>2, <2>1
    <2>3. buffered' \in Nat /\ output' \in Nat
      BY <1>2, <2>2
    <2>4. client.answered + 1 \in Nat
      BY <1>2
    <2>5. /\ client' \in [control : {"update", "hello"}, units : Nat, controls : Nat,
                          answered : Nat, pipelines : BOOLEAN]
          /\ client'.units = client.units /\ client'.answered = client.answered + 1
          /\ client'.pipelines = client.pipelines
      BY <1>2, <2>1, <2>4 DEF TlsShape
    <2>6. /\ mask' \subseteq {"in", "out"} /\ "in" \in mask'
          /\ tls'.readWantsWrite => "out" \in mask'
          /\ output' > 0 => "out" \in mask'
      <3>1. CASE buffered = 1
        <4>1. mask' = mask /\ output' = 0
          BY <2>1, <2>2, <3>1
        <4> QED
          BY <1>2, <1>4, <1>5, <1>8, <4>1 DEF TlsShape
      <3>2. CASE buffered # 1
        <4>1. Sync
          BY <2>1, <3>2
        <4> QED
          BY <1>5, <4>1, SyncIs DEF WantsRead, WantsWrite
      <3> QED
        BY <3>1, <3>2
    <2>7. Calm'
      BY <1>3, <1>5, <2>6 DEF Calm
    <2>8. /\ pc' \in {"wait", "read", "write"} /\ out' \in BOOLEAN
          /\ call' \in {"none", "accept", "read", "write", "finish"}
          /\ Calls' /\ Wants' /\ Mask'
      BY <1>5, <2>1, <2>3, <2>7, ReturnStep
    <2>9. TlsShape'
      BY <1>2, <1>3, <1>5, <2>3, <2>5, <2>6, <2>8 DEF TlsShape
    <2>10. Taken' = Taken
      BY <1>2, <1>3, <1>4, <2>2, <2>5 DEF Taken
    <2>11. client.units <= 2 * (client.answered + 1) => client'.units <= 2 * (client'.answered + 1)
      BY <1>2, <2>5
    <2>12. Units'
      BY <1>2, <1>3, <1>7, <2>5, <2>10, <2>11 DEF Units
    <2> QED
      BY <1>6, <2>8, <2>9, <2>12 DEF TlsInv
  <1> QED
    BY <1>9, <1>10

(***************************************************************************)
(* The transport.                                                          *)
(***************************************************************************)

LEMMA TlsStarts == TlsInit => TlsInv
  <1> SUFFICES ASSUME TlsInit PROVE TlsInv
    OBVIOUS
  <1>1. /\ tls = [NoWants EXCEPT !.wantRead = TRUE, !.complete = FALSE] /\ mask = {"in"}
        /\ buffered = 0 /\ output = 0 /\ pc = "wait" /\ call = "none" /\ out = FALSE
        /\ ssl = [flights |-> <<"read", "write", "read", "write">>, plain |-> 0]
        /\ net = <<>> /\ full = FALSE
    BY DEF TlsInit
  <1>2. PICK control \in {"update", "hello"} :
          client = [control |-> control, units |-> 0, controls |-> 0, answered |-> 0,
                    pipelines |-> FALSE]
    BY DEF TlsInit
  <1>3. tls \in Flags /\ ~tls.complete /\ ~tls.readWantsWrite /\ ~tls.writeWantsRead
    BY <1>1 DEF NoWants, Flags
  <1>4. /\ ssl.flights = <<"read", "write", "read", "write">> /\ ssl.plain = 0
        /\ ssl.flights \in Flights
    BY <1>1 DEF Flights
  <1>5. Exchanging /\ Head(ssl.flights) = "read"
    <2>1. /\ Head(<<"read", "write", "read", "write">>) = "read"
          /\ <<"read", "write", "read", "write">> # <<>>
      OBVIOUS
    <2> QED
      BY <1>4, <2>1 DEF Exchanging
  <1>6. /\ client \in [control : {"update", "hello"}, units : Nat, controls : Nat, answered : Nat,
                       pipelines : BOOLEAN]
        /\ client.units = 0 /\ client.answered = 0
    BY <1>2
  <1>7. net \in Seq(Record) /\ Len(net) = 0
    BY <1>1, EmptySeq
  <1>8. TlsShape
    <2>1. ssl \in [flights : Flights, plain : Nat]
      BY <1>1, <1>4
    <2> QED
      BY <1>1, <1>3, <1>6, <1>7, <2>1 DEF TlsShape
  <1>9. Calls /\ Wants /\ Mask
    <2>1. Calls
      BY <1>1, <1>3, <1>4, <1>5 DEF Calls
    <2>2. Wants
      BY <1>3 DEF Wants
    <2>3. Mask
      BY <1>1, <1>3, <1>5 DEF Mask
    <2> QED
      BY <2>1, <2>2, <2>3
  <1>10. Kernel
    <2>1. ssl.flights # <<"write", "read", "write">>
      BY <1>4
    <2> QED
      BY <1>1, <1>7, <2>1 DEF Kernel
  <1>11. Units
    <2>1. Taken = 0
      BY <1>1, <1>4, <1>6 DEF Taken
    <2>2. Amount(0, net, 0)
      <3> DEFINE f == [i \in 0 .. 0 |-> 0]
      <3>1. f \in [0 .. 0 -> Nat] /\ f[0] = 0 /\ \A i, j \in 0 .. 0 : i <= j => f[i] <= f[j]
        OBVIOUS
      <3>2. 1 .. 0 = {}
        OBVIOUS
      <3> HIDE DEF f
      <3> QED
        BY <1>7, <3>1, <3>2 DEF Amount
    <2> QED
      BY <1>4, <1>6, <2>1, <2>2 DEF Units
  <1> QED
    BY <1>8, <1>9, <1>10, <1>11 DEF TlsInv

\* Every step keeps the invariant.
LEMMA TlsStep == TlsInv /\ [TlsNext]_tlsVars => TlsInv'
  <1> SUFFICES ASSUME TlsInv, [TlsNext]_tlsVars PROVE TlsInv'
    OBVIOUS
  <1>1. CASE ClientFlight \/ ClientData \/ ClientControl \/ ClientReads
    BY <1>1, TlsClientStep
  <1>2. CASE Event
    BY <1>2, EventStep
  <1>3. CASE Blocks
    BY <1>3, BlocksStep
  <1>4. CASE Exchange
    BY <1>4, ExchangeStep
  <1>5. CASE Protocol
    BY <1>5, ProtocolStep
  <1>6. CASE Receive
    BY <1>6, ReceiveStep
  <1>7. CASE Send
    BY <1>7, SendStep
  <1>8. CASE Finish
    BY <1>8, FinishStep
  <1>9. CASE UNCHANGED tlsVars
    <2>1. /\ tls' = tls /\ mask' = mask /\ buffered' = buffered /\ output' = output
          /\ pc' = pc /\ call' = call /\ out' = out
          /\ ssl' = ssl /\ net' = net /\ full' = full /\ client' = client
      BY <1>9 DEF tlsVars, serverVars
    <2>2. TlsShape' /\ Calls' /\ Wants' /\ Mask'
      BY <2>1 DEF TlsInv, TlsShape, Calls, Wants, Mask, Exchanging
    <2>3. Kernel' /\ Units'
      BY <2>1 DEF TlsInv, Kernel, Units, Taken, Exchanging
    <2> QED
      BY <2>2, <2>3 DEF TlsInv
  <1> QED
    BY <1>1, <1>2, <1>3, <1>4, <1>5, <1>6, <1>7, <1>8, <1>9 DEF TlsNext

\* While the worker waits, what can go on is reported and called.
LEMMA StallsNever == TlsInv => NeverStalls
  <1> SUFFICES ASSUME TlsInv, pc = "wait"
               PROVE  /\ Movable # {} =>
                           \E event \in {"read", "write"} :
                             LET c == Call(tls, output, event)
                             IN  Reported(event) /\ c # "finish" /\ WaitsFor(c) = {}
                      /\ ssl.plain > 0 => client.pipelines
    BY DEF NeverStalls
  <1>1. TlsShape /\ call = "none" /\ tls \in Flags /\ output \in Nat
    BY DEF TlsInv, Calls, TlsShape
  <1>2. Calm
    BY <1>1, WaitsCalm
  <1>3. ssl.plain > 0 => client.pipelines
    BY <1>1 DEF TlsInv, Units
  <1>4. ASSUME NEW c \in Movable
        PROVE  \E event \in {"read", "write"} :
                 LET x == Call(tls, output, event)
                 IN  Reported(event) /\ x # "finish" /\ WaitsFor(x) = {}
    <2> DEFINE Helps(event) == /\ Reported(event) /\ Call(tls, output, event) # "finish"
                               /\ WaitsFor(Call(tls, output, event)) = {}
    <2>1. /\ c \in (IF tls.complete THEN {"read", "write"} ELSE {"accept"})
          /\ WaitsFor(c) = {}
          /\ c = "read" => Exchanging \/ net # <<>>
          /\ c = "write" => output > 0
      BY <1>4 DEF Movable
    <2>2. /\ "in" \in mask /\ net # <<>> => Reported("read")
          /\ "out" \in mask /\ ~full => Reported("write")
      BY DEF Reported
    <2>3. CASE Exchanging
      <3>1. ~Blocked(Head(ssl.flights))
        BY <1>1, <2>1, <2>3, WaitsIs
      <3>2. \A x : WaitsFor(x) = {}
        BY <1>1, <2>3, <3>1, WaitsIs
      <3>3. CASE Head(ssl.flights) = "read"
        <4>1. "in" \in mask /\ net # <<>>
          BY <1>2, <3>1, <3>3 DEF Calm, Blocked
        <4>2. Call(tls, output, "read") # "finish"
          <5>1. Call(tls, output, "read") \in {"accept", "read", "write"}
            BY <1>1, CallIs
          <5> QED
            BY <5>1
        <4>3. Helps("read")
          BY <2>2, <3>2, <4>1, <4>2
        <4> QED
          BY <4>3
      <3>4. CASE Head(ssl.flights) # "read"
        <4>1. Head(ssl.flights) = "write" /\ ~full
          BY <1>1, <2>3, <3>1, <3>4, FieldsAre, FlightsIs DEF Blocked, Exchanging
        <4>2. "out" \in mask /\ (tls.complete => output > 0 \/ tls.readWantsWrite)
          BY <1>2, <2>3, <4>1 DEF Calm
        <4>3. Call(tls, output, "write") \in {"accept", "read", "write"}
          BY <1>1, <4>2, CallIs
        <4>4. Call(tls, output, "write") # "finish"
          BY <4>3
        <4>5. Helps("write")
          BY <2>2, <3>2, <4>1, <4>2, <4>4
        <4> QED
          BY <4>5
      <3> QED
        BY <3>3, <3>4
    <2>4. CASE ~Exchanging
      <3>1. tls.complete /\ ~tls.writeWantsRead /\ "in" \in mask
        BY <1>2, <2>4 DEF Calm
      <3>2. CASE c = "read"
        <4>1. net # <<>>
          BY <2>1, <2>4, <3>2
        <4>2. Call(tls, output, "read") = "read"
          BY <1>1, <3>1, CallIs
        <4>3. Helps("read")
          BY <2>1, <2>2, <3>1, <3>2, <4>1, <4>2
        <4> QED
          BY <4>3
      <3>3. CASE c = "write"
        <4>1. output > 0 /\ ~full
          <5>1. WaitsFor("write") = IF full THEN {"write"} ELSE {}
            BY <1>1, <2>4, WaitsIs
          <5>2. full => "write" \in WaitsFor("write")
            BY <5>1
          <5> QED
            BY <2>1, <3>3, <5>2
        <4>2. "out" \in mask
          BY <1>2, <3>1, <4>1 DEF Calm
        <4>3. Call(tls, output, "write") = "write"
          BY <1>1, <3>1, <4>1, CallIs
        <4>4. Helps("write")
          BY <2>1, <2>2, <3>3, <4>1, <4>2, <4>3
        <4> QED
          BY <4>4
      <3> QED
        BY <2>1, <3>1, <3>2, <3>3
    <2> QED
      BY <2>3, <2>4
  <1> QED
    BY <1>3, <1>4

(***************************************************************************)
(* A connection over TLS neither stalls nor spins: while its worker waits, *)
(* if some call of OpenSSL could go on, epoll reports an event, and the    *)
(* handler of that event makes a call that goes on; and OpenSSL holds back *)
(* decrypted data only of a client that sent requests ahead of its answers *)
(* (the direction flags of sw_connection_tls_would_block, the mask of      *)
(* sw_mgr_sync_connection, and the choice of the call by the handlers).    *)
(***************************************************************************)
THEOREM TransportNeverStalls == TlsSpec => []NeverStalls
  <1>1. TlsInv => NeverStalls
    BY StallsNever
  <1> QED
    BY <1>1, TlsStarts, TlsStep, PTL DEF TlsSpec
=============================================================================
