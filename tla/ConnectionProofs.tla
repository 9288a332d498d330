-------------------------- MODULE ConnectionProofs --------------------------
(***************************************************************************)
(* Proofs about Connection, for any requests, replies, limits and timeouts:*)
(* type correctness, that requests are dispatched in order, that no input  *)
(* is lost or parsed twice, that all requests before the next are answered,*)
(* that a connection at rest is timed, and that nothing is dispatched once *)
(* the connection is to be closed.                                         *)
(***************************************************************************)
EXTENDS Connection, SequenceTheorems, TLAPS

\* The units of the client's input and of the server's output.
InUnit == [req : 1 .. MaxRequests, part : 1 .. 4]
OutUnit == [to : 0 .. MaxRequests, part : 1 .. 3, of : 1 .. 3]

\* The records that stand for a struct sw_connection.
Conns ==
  [open : BOOLEAN, rbuf : Seq(InUnit), wbuf : Seq(OutUnit), file : Seq(OutUnit),
   request : 0 .. MaxRequests, dispatched : BOOLEAN, started : BOOLEAN,
   headers : BOOLEAN, responding : BOOLEAN, closeAfter : BOOLEAN,
   mustClose : BOOLEAN, shut : BOOLEAN, parsed : 0 .. 4, body : 0 .. 2,
   saving : BOOLEAN, handled : 0 .. KeepAliveMax, seen : Seq(1 .. MaxRequests),
   idleAge : 0 .. Longest, phaseAge : 0 .. Longest]

\* k parts of the last of the requests s are sent.
SentOf(s, k) == IF s = <<>> THEN k = 0 ELSE k \in 1 .. Parts(s[Len(s)])

\* The variables but conn, by type, and how much of the last request is sent.
Shape ==
  /\ stream \in Seq(Kinds) /\ Len(stream) <= MaxRequests
  /\ sent \in 0 .. 4 /\ SentOf(stream, sent)
  /\ client \in {"active", "silent", "gone"}
  /\ inq \in Seq(InUnit)
  /\ wire \in Seq(OutUnit)
  /\ unread \in 0 .. SendBuffer
  /\ timer \in (- Longest) .. NoTimer
  /\ armed \in BOOLEAN
  /\ pc \in {"expire", "wait", "read", "write", "save"}
  /\ out \in BOOLEAN
  /\ Len(conn.rbuf) <= MaxRead

\* What the client sent, as the requests s of which it sent k parts of the last: the
\* unit after u, the one that comes next, and an input that is all from u on.
Follows(s, u) ==
  IF u.part < Parts(s[u.req]) THEN Unit(u.req, u.part + 1) ELSE Unit(u.req + 1, 1)

Upcoming(s, k) ==
  IF s # <<>> /\ k # Parts(s[Len(s)]) THEN Unit(Len(s), k + 1) ELSE Unit(Len(s) + 1, 1)

InStream(s, u) == u.req \in 1 .. Len(s) /\ u.part \in 1 .. Parts(s[u.req])

Chain(s, k, u, q) ==
  /\ IF q = <<>> THEN u = Upcoming(s, k)
     ELSE q[1] = u /\ Follows(s, q[Len(q)]) = Upcoming(s, k)
  /\ \A i \in 1 .. Len(q) - 1 : q[i + 1] = Follows(s, q[i])
  /\ \A i \in 1 .. Len(q) : InStream(s, q[i])

\* The unit at which the input of a connection begins: the request in hand stays in
\* the buffer until it is answered, a streamed body is taken out unit by unit.
FirstUnit(c) ==
  IF ~Ready(c) \/ (c.parsed = 0 /\ c.body = 0) THEN Unit(Len(c.seen) + 1, 1)
  ELSE IF c.parsed = 0 THEN Unit(Len(c.seen), 5 - c.body)
  ELSE Unit(Len(c.seen), 1)

\* A connection that will go on to a next request.
GoesOn(c) == c.open /\ ~c.closeAfter /\ ~c.shut

\* The request in hand is the last one given to the handler, and the next after those
\* answered.
Requests(c, s) ==
  /\ Ready(c) <=> c.dispatched
  /\ \A i \in DOMAIN c.seen : c.seen[i] = i
  /\ Len(c.seen) <= KeepAliveMax
  /\ Ready(c) => c.request = Len(c.seen) /\ c.request <= Len(s)
  /\ Ready(c) =>
       \/ c.parsed = Parts(s[c.request]) /\ Len(c.rbuf) >= c.parsed /\ c.body = 0
       \/ c.parsed = 0 /\ s[c.request] = "upload" /\ (c.body > 0 => c.mustClose)
  /\ ~Ready(c) => c.parsed = 0 /\ c.body = 0
  /\ c.open /\ ~c.shut =>
       /\ c.handled < KeepAliveMax
       /\ Len(c.seen) = IF Ready(c) THEN c.handled + 1 ELSE c.handled

\* The state of the reply.
Replying(c) ==
  /\ c.responding /\ ~c.closeAfter /\ ~c.shut =>
       Ready(c) /\ ~c.mustClose /\ c.handled + 1 < KeepAliveMax
  /\ ~c.responding /\ ~c.closeAfter => ~Pending(c)
  /\ c.wbuf = <<>> => c.file = <<>>
  /\ c.closeAfter \/ c.shut => Ready(c) \/ c.responding
  /\ c.closeAfter /\ ~Ready(c) => c.mustClose
  /\ c.shut => ~Pending(c) /\ ~c.closeAfter
  /\ c.saving => Ready(c) /\ c.parsed = 0 /\ ~c.responding /\ GoesOn(c)
  /\ ~c.open =>
       ~Pending(c) /\ ~Ready(c) /\ ~c.responding /\ ~c.closeAfter /\ ~c.shut /\ ~c.saving

\* Between two events a reply has been written only if it is not the last.
Settled(c) ==
  /\ c.responding /\ ~c.shut => Pending(c)
  /\ c.closeAfter => Pending(c) \/ Ready(c)

\* What is to be sent and what was sent last answer the request in hand, or all before.
Answered(c, w) ==
  GoesOn(c) =>
    IF c.responding
    THEN /\ \A i \in DOMAIN c.wbuf : c.wbuf[i].to = c.request
         /\ \A i \in DOMAIN c.file : c.file[i].to = c.request
         /\ c.wbuf = <<>> => LastAnswered(w) = c.request
    ELSE LastAnswered(w) = c.handled

\* The input is all that was sent from where the connection is in the stream.
Aligned == GoesOn(conn) => Chain(stream, sent, FirstUnit(conn), conn.rbuf \o inq)

\* Where the worker may be, by what the connection needs.
Worker ==
  /\ ~conn.open => pc = "expire"
  /\ pc = "save" <=> conn.saving
  /\ conn.shut => pc \in {"expire", "wait", "read"} /\ ~armed /\ ~out
  /\ pc # "write" => Settled(conn)

\* How an entry is lost: a response ended with the beginning of the next head in the
\* buffer, and the header timeout, which is the shorter, got no entry of its own.
TimerLost ==
  /\ HeaderTimeout < IdleTimeout
  /\ armed /\ ~Pending(conn) /\ ~Ready(conn)
  /\ conn.started /\ ~conn.headers /\ conn.rbuf # <<>>

\* The heap's entry is what the connection needs, or it is lost in that one way.
Timers ==
  /\ conn.open /\ pc # "write" => TimerValid \/ TimerLost
  /\ conn.open /\ Pending(conn) => armed
  /\ conn.open /\ pc = "write" /\ conn.responding /\ ~conn.closeAfter => armed
  /\ conn.open /\ pc = "wait" /\ timer # NoTimer => timer >= 1

\* A connection in the state the invariant says of it, wherever the worker is.
Sound(c, s, w) ==
  /\ c \in Conns
  /\ Requests(c, s)
  /\ Replying(c)
  /\ Answered(c, w)

\* The inductive invariant.
IInv == Shape /\ Sound(conn, stream, wire) /\ Aligned /\ Worker /\ Timers

USE KindAssumption, ReplyAssumption, BoundAssumption, TimeoutAssumption, FileAssumption

(***************************************************************************)
(* The input.                                                              *)
(***************************************************************************)

\* A request has two to four units.
LEMMA PartsIs == \A kind : Parts(kind) \in 2 .. 4
  BY DEF Parts

\* Without its first unit, an input is all that was sent from the next unit on.
LEMMA ChainTail ==
  ASSUME NEW s \in Seq(Kinds), NEW k \in 0 .. 4, NEW u, NEW q \in Seq(InUnit),
         q # <<>>, Chain(s, k, u, q)
  PROVE  Chain(s, k, Follows(s, u), Tail(q))
  <1> DEFINE t == Tail(q)
  <1>1. /\ t \in Seq(InUnit) /\ Len(t) = Len(q) - 1 /\ Len(q) \in Nat \ {0}
        /\ \A i \in 1 .. Len(t) : t[i] = q[i + 1]
    BY HeadTailProperties, EmptySeq, LenProperties
  <1>2. q[1] = u /\ Follows(s, q[Len(q)]) = Upcoming(s, k)
    BY DEF Chain
  <1>3. \A i \in 1 .. Len(q) - 1 : q[i + 1] = Follows(s, q[i])
    BY DEF Chain
  <1>4. \A i \in 1 .. Len(q) : InStream(s, q[i])
    BY DEF Chain
  <1> HIDE DEF t
  <1>5. \A i \in 1 .. Len(t) - 1 : t[i + 1] = Follows(s, t[i])
    <2> TAKE i \in 1 .. Len(t) - 1
    <2>1. i + 1 \in 1 .. Len(q) - 1 /\ i \in 1 .. Len(t) /\ i + 1 \in 1 .. Len(t)
      BY <1>1
    <2>2. t[i] = q[i + 1] /\ t[i + 1] = q[(i + 1) + 1]
      BY <2>1, <1>1
    <2> QED
      BY <2>1, <2>2, <1>3
  <1>6. \A i \in 1 .. Len(t) : InStream(s, t[i])
    <2> TAKE i \in 1 .. Len(t)
    <2>1. i + 1 \in 1 .. Len(q)
      BY <1>1
    <2>2. t[i] = q[i + 1]
      BY <1>1
    <2> QED
      BY <2>1, <2>2, <1>4
  <1>7. CASE Len(q) = 1
    <2>1. t = <<>>
      BY <1>7, <1>1, EmptySeq
    <2> QED
      BY <2>1, <1>7, <1>2, <1>5, <1>6 DEF Chain, t
  <1>8. CASE Len(q) # 1
    <2>1. t # <<>> /\ 1 \in 1 .. Len(t) /\ Len(t) \in 1 .. Len(t)
      BY <1>8, <1>1, EmptySeq
    <2>2. t[1] = Follows(s, u)
      BY <2>1, <1>8, <1>1, <1>2, <1>3
    <2>3. t[Len(t)] = q[Len(q)]
      BY <2>1, <1>1
    <2> QED
      BY <2>1, <2>2, <2>3, <1>2, <1>5, <1>6 DEF Chain, t
  <1> QED
    BY <1>7, <1>8

\* What the client sends next continues the input.
LEMMA ChainSent ==
  ASSUME NEW s \in Seq(Kinds), NEW k \in 0 .. 4, SentOf(s, k),
         NEW s2 \in Seq(Kinds), NEW k2 \in 0 .. 4,
         \/ /\ s # <<>> => k = Parts(s[Len(s)])
            /\ \E kind \in Kinds : s2 = Append(s, kind)
            /\ k2 = 1
         \/ s # <<>> /\ k # Parts(s[Len(s)]) /\ s2 = s /\ k2 = k + 1,
         NEW u, NEW q \in Seq(InUnit), Chain(s, k, u, q),
         Unit(Len(s2), k2) \in InUnit
  PROVE  Chain(s2, k2, u, Append(q, Unit(Len(s2), k2)))
  <1> DEFINE x == Unit(Len(s2), k2)
             p == Append(q, x)
  <1>1. /\ p \in Seq(InUnit) /\ Len(p) = Len(q) + 1 /\ Len(q) \in Nat /\ p # <<>>
        /\ \A i \in 1 .. Len(q) : p[i] = q[i]
        /\ p[Len(q) + 1] = x
    BY AppendProperties, LenProperties, EmptySeq
  <1>2. Len(s) \in Nat /\ Len(s2) \in Nat
    BY LenProperties
  <1>3. \A r \in 1 .. Len(s) : r \in 1 .. Len(s2) /\ s2[r] = s[r]
    BY AppendProperties, <1>2
  <1>4. x = Upcoming(s, k)
    BY <1>2, EmptySeq, AppendProperties DEF Upcoming, Unit
  <1>5. InStream(s2, x)
    BY <1>2, PartsIs, AppendProperties DEF InStream, Unit, SentOf
  <1>6. Follows(s2, x) = Upcoming(s2, k2)
    <2>1. s2 # <<>> /\ Len(s2) > 0
      BY <1>2, AppendProperties, EmptySeq
    <2>2. k2 <= Parts(s2[Len(s2)]) /\ Parts(s2[Len(s2)]) \in Nat /\ k2 \in Nat
      BY <1>5, PartsIs DEF InStream, Unit
    <2>3. x.req = Len(s2) /\ x.part = k2
      BY DEF Unit
    <2> HIDE DEF x
    <2> QED
      BY <2>1, <2>2, <2>3 DEF Follows, Upcoming
  <1>7. \A i \in 1 .. Len(q) : InStream(s2, q[i]) /\ Follows(s2, q[i]) = Follows(s, q[i])
    BY <1>3 DEF Chain, InStream, Follows
  <1> HIDE DEF x, p
  <1>8. \A i \in 1 .. Len(p) : InStream(s2, p[i])
    BY <1>1, <1>5, <1>7
  <1>9. \A i \in 1 .. Len(p) - 1 : p[i + 1] = Follows(s2, p[i])
    <2> TAKE i \in 1 .. Len(p) - 1
    <2>1. i \in 1 .. Len(q) /\ p[i] = q[i] /\ Follows(s2, p[i]) = Follows(s, q[i])
      BY <1>1, <1>7
    <2>2. CASE i = Len(q)
      <3>1. q # <<>>
        BY <2>1, <1>1, EmptySeq
      <3> QED
        BY <2>1, <2>2, <3>1, <1>1, <1>4 DEF Chain
    <2>3. CASE i # Len(q)
      <3>1. i + 1 \in 1 .. Len(q) /\ i \in 1 .. Len(q) - 1
        BY <2>1, <2>3, <1>1
      <3> QED
        BY <2>1, <3>1, <1>1 DEF Chain
    <2> QED
      BY <2>2, <2>3
  <1>10. p[1] = u
    <2>1. CASE q = <<>>
      BY <2>1, <1>1, <1>4, EmptySeq DEF Chain
    <2>2. CASE q # <<>>
      BY <2>2, <1>1, EmptySeq DEF Chain
    <2> QED
      BY <2>1, <2>2
  <1>11. p[Len(p)] = x
    BY <1>1
  <1> QED
    BY <1>1, <1>6, <1>8, <1>9, <1>10, <1>11 DEF Chain, p, x

\* The first element of a concatenation is taken from its first part.
LEMMA TailConcat ==
  ASSUME NEW S, NEW d \in Seq(S), NEW i \in Seq(S), d # <<>>
  PROVE  Tail(d \o i) = Tail(d) \o i /\ d \o i # <<>> /\ d \o i \in Seq(S)
  <1> DEFINE e == Tail(d)
             l == Tail(d \o i)
             r == e \o i
  <1>1. /\ e \in Seq(S) /\ Len(e) = Len(d) - 1
        /\ \A j \in 1 .. Len(e) : e[j] = d[j + 1]
    BY HeadTailProperties
  <1>2. Len(d) \in Nat \ {0} /\ Len(i) \in Nat
    BY LenProperties, EmptySeq
  <1>3. /\ d \o i \in Seq(S) /\ Len(d \o i) = Len(d) + Len(i)
        /\ \A j \in 1 .. Len(d) + Len(i) :
             (d \o i)[j] = IF j <= Len(d) THEN d[j] ELSE i[j - Len(d)]
    BY ConcatProperties
  <1>4. d \o i # <<>>
    BY <1>2, <1>3, EmptySeq
  <1>5. /\ l \in Seq(S) /\ Len(l) = Len(d \o i) - 1
        /\ \A j \in 1 .. Len(l) : l[j] = (d \o i)[j + 1]
    BY <1>3, <1>4, HeadTailProperties
  <1> HIDE DEF e
  <1>6. /\ r \in Seq(S) /\ Len(r) = Len(e) + Len(i)
        /\ \A j \in 1 .. Len(e) + Len(i) :
             r[j] = IF j <= Len(e) THEN e[j] ELSE i[j - Len(e)]
    BY <1>1, ConcatProperties
  <1> HIDE DEF l, r
  <1>7. \A j \in 1 .. Len(l) : l[j] = r[j]
    <2> TAKE j \in 1 .. Len(l)
    <2>1. j + 1 \in 1 .. Len(d) + Len(i) /\ j \in 1 .. Len(e) + Len(i)
      BY <1>1, <1>2, <1>3, <1>5
    <2>2. CASE j <= Len(e)
      <3>1. j + 1 <= Len(d) /\ j \in 1 .. Len(e)
        BY <2>1, <2>2, <1>1, <1>2
      <3> QED
        BY <2>1, <2>2, <3>1, <1>1, <1>3, <1>5, <1>6
    <2>3. CASE ~(j <= Len(e))
      <3>1. ~(j + 1 <= Len(d)) /\ (j + 1) - Len(d) = j - Len(e)
        BY <2>1, <2>3, <1>1, <1>2
      <3> QED
        BY <2>1, <2>3, <3>1, <1>3, <1>5, <1>6
    <2> QED
      BY <2>2, <2>3
  <1>8. Len(l) = Len(r)
    BY <1>1, <1>2, <1>3, <1>5, <1>6
  <1>9. l = r
    BY <1>5, <1>6, <1>7, <1>8, SeqEqual
  <1> QED
    BY <1>3, <1>4, <1>9 DEF l, r, e

\* One unit of the buffer b, with i behind it, is taken.
LEMMA ChainDrop ==
  ASSUME NEW s \in Seq(Kinds), NEW k \in 0 .. 4, NEW u,
         NEW b \in Seq(InUnit), NEW i \in Seq(InUnit), NEW m \in 1 .. Len(b),
         Chain(s, k, u, SubSeq(b, m, Len(b)) \o i)
  PROVE  Chain(s, k, Follows(s, u), SubSeq(b, m + 1, Len(b)) \o i)
  <1> DEFINE d == SubSeq(b, m, Len(b))
  <1>1. Len(b) \in Nat /\ \A j \in 1 .. Len(b) : b[j] \in InUnit
    BY LenProperties, ElementOfSeq
  <1>2. d \in Seq(InUnit) /\ Len(d) = Len(b) - m + 1
    BY <1>1, SubSeqProperties
  <1>3. Tail(d) = SubSeq(b, m + 1, Len(b))
    BY <1>1, HeadTailOfSubSeq
  <1>4. Chain(s, k, u, d \o i)
    OBVIOUS
  <1> HIDE DEF d
  <1>5. d # <<>>
    BY <1>1, <1>2, EmptySeq
  <1>6. Tail(d \o i) = Tail(d) \o i /\ d \o i # <<>> /\ d \o i \in Seq(InUnit)
    BY <1>2, <1>5, TailConcat
  <1>7. Chain(s, k, Follows(s, u), Tail(d \o i))
    BY <1>4, <1>6, ChainTail
  <1> QED
    BY <1>3, <1>6, <1>7

\* A request that is all at the beginning of the buffer is taken out of it.
LEMMA ChainConsume ==
  ASSUME NEW s \in Seq(Kinds), NEW k \in 0 .. 4, NEW r \in Nat,
         NEW b \in Seq(InUnit), NEW i \in Seq(InUnit),
         Chain(s, k, Unit(r, 1), b \o i),
         NEW n \in 0 .. Parts(s[r]), n <= Len(b)
  PROVE  Chain(s, k, IF n = Parts(s[r]) THEN Unit(r + 1, 1) ELSE Unit(r, n + 1),
               SubSeq(b, n + 1, Len(b)) \o i)
  <1> DEFINE U(j) == IF j = Parts(s[r]) THEN Unit(r + 1, 1) ELSE Unit(r, j + 1)
             C(j) == Chain(s, k, U(j), SubSeq(b, j + 1, Len(b)) \o i)
  <1>1. Len(b) \in Nat /\ Parts(s[r]) \in 2 .. 4
    BY LenProperties, PartsIs
  <1>2. C(0)
    <2>1. SubSeq(b, 0 + 1, Len(b)) = b
      BY SubSeqFull
    <2>2. U(0) = Unit(r, 1)
      BY <1>1
    <2> HIDE DEF U
    <2> QED
      BY <2>1, <2>2
  <1>3. ASSUME NEW j \in 0 .. 3, j < Parts(s[r]), j < Len(b), C(j) PROVE C(j + 1)
    <2>1. Follows(s, U(j)) = U(j + 1)
      <3>1. U(j) = Unit(r, j + 1) /\ U(j).req = r /\ U(j).part = j + 1
        BY <1>3, <1>1 DEF Unit
      <3>2. U(j + 1) = IF j + 1 = Parts(s[r]) THEN Unit(r + 1, 1) ELSE Unit(r, (j + 1) + 1)
        OBVIOUS
      <3>3. j + 1 < Parts(s[r]) <=> j + 1 # Parts(s[r])
        BY <1>3, <1>1
      <3> HIDE DEF U
      <3> QED
        BY <3>1, <3>2, <3>3 DEF Follows
    <2>2. j + 1 \in 1 .. Len(b)
      BY <1>3, <1>1
    <2> HIDE DEF U
    <2> QED
      BY <2>1, <2>2, <1>3, ChainDrop
  <1> HIDE DEF C
  <1>4. C(n)
    <2>1. n >= 1 => C(0 + 1)
      BY <1>1, <1>2, <1>3
    <2>2. n >= 2 => C(1 + 1)
      BY <1>1, <1>3, <2>1
    <2>3. n >= 3 => C(2 + 1)
      BY <1>1, <1>3, <2>2
    <2>4. n >= 4 => C(3 + 1)
      BY <1>1, <1>3, <2>3
    <2>5. n \in {0, 1, 2, 3, 4}
      BY <1>1
    <2> QED
      BY <2>1, <2>2, <2>3, <2>4, <2>5, <1>2
  <1> QED
    BY <1>4 DEF C

(***************************************************************************)
(* The timer.                                                              *)
(***************************************************************************)

\* The longest timeout.
LEMMA LongestIs ==
  /\ Longest \in Nat \ {0}
  /\ \A t \in {IdleTimeout, HeaderTimeout, BodyTimeout, WriteTimeout} :
       t \in Nat \ {0} /\ t <= Longest
  <1> DEFINE T == {IdleTimeout, HeaderTimeout, BodyTimeout, WriteTimeout}
  <1>1. \E x \in T : \A y \in T : x >= y
    OBVIOUS
  <1>2. Longest \in T /\ \A y \in T : Longest >= y
    BY <1>1 DEF Longest, Max
  <1> QED
    BY <1>2

\* A tick makes an age one greater, up to the longest that is told apart.
LEMMA OlderIs ==
  ASSUME NEW age \in 0 .. Longest
  PROVE  /\ Older(age) \in 0 .. Longest
         /\ age < Longest => Older(age) = age + 1
  <1> DEFINE S == {age + 1, Longest}
  <1>1. \E x \in S : \A y \in S : x =< y
    BY LongestIs
  <1>2. Older(age) \in S /\ \A y \in S : Older(age) =< y
    BY <1>1 DEF Older, Min
  <1> QED
    BY <1>2, LongestIs

\* The timeout of a request not complete yet, by its phase.
Phase(c) == c.started /\ ~Ready(c)
PhaseTimeout(c) == IF c.headers THEN BodyTimeout ELSE HeaderTimeout

\* The entry a connection needs is the earliest of those that apply to it.
LEMMA DueIs ==
  ASSUME NEW c \in Conns
  PROVE  /\ Due(c) \in (- Longest) .. Longest
         /\ Due(c) <= IdleTimeout - c.idleAge
         /\ ~c.shut /\ Pending(c) => Due(c) <= WriteTimeout - c.idleAge
         /\ ~c.shut /\ Phase(c) => Due(c) <= PhaseTimeout(c) - c.phaseAge
         /\ \/ Due(c) = IdleTimeout - c.idleAge
            \/ ~c.shut /\ Pending(c) /\ Due(c) = WriteTimeout - c.idleAge
            \/ ~c.shut /\ Phase(c) /\ Due(c) = PhaseTimeout(c) - c.phaseAge
  <1> DEFINE i == IdleTimeout - c.idleAge
             w == WriteTimeout - c.idleAge
             p == PhaseTimeout(c) - c.phaseAge
             W == IF Pending(c) THEN {w} ELSE {}
             P == IF Phase(c) THEN {p} ELSE {}
             S == {i} \union W \union P
  <1>1. c.idleAge \in 0 .. Longest /\ c.phaseAge \in 0 .. Longest
    BY DEF Conns
  <1>2. {i, w, p} \subseteq (- Longest) .. Longest
    BY <1>1, LongestIs DEF PhaseTimeout
  <1>3. Due(c) = IF c.shut THEN i ELSE Min(S)
    BY DEF Due, Phase, PhaseTimeout
  <1>4. \E x \in S : \A y \in S : x =< y
    <2> HIDE DEF i, w, p
    <2> QED
      BY <1>2, LongestIs
  <1>5. Min(S) \in S /\ \A y \in S : Min(S) =< y
    BY <1>4 DEF Min
  <1>6. i \in S /\ (Pending(c) => w \in S) /\ (Phase(c) => p \in S)
    OBVIOUS
  <1>7. \A x \in S : x = i \/ (Pending(c) /\ x = w) \/ (Phase(c) /\ x = p)
    OBVIOUS
  <1> HIDE DEF S, i, w, p
  <1>8. CASE c.shut
    BY <1>8, <1>2, <1>3, LongestIs DEF i, w, p
  <1>9. CASE ~c.shut
    <2>1. Due(c) \in S /\ \A y \in S : Due(c) =< y
      BY <1>9, <1>3, <1>5
    <2>2. Due(c) = i \/ (Pending(c) /\ Due(c) = w) \/ (Phase(c) /\ Due(c) = p)
      BY <2>1, <1>7
    <2>3. Due(c) \in (- Longest) .. Longest
      BY <2>2, <1>2
    <2>4. Due(c) =< i /\ (Pending(c) => Due(c) =< w) /\ (Phase(c) => Due(c) =< p)
      BY <2>1, <1>6
    <2> QED
      BY <1>9, <2>2, <2>3, <2>4 DEF i, w, p
  <1> QED
    BY <1>8, <1>9

\* While an entry that is not due yet waits, its time and the ages go together.
LEMMA DueTicks ==
  ASSUME NEW c \in Conns, NEW d \in Conns, Due(c) >= 1,
         d.idleAge = Older(c.idleAge), d.phaseAge = Older(c.phaseAge),
         d.shut = c.shut, Pending(d) <=> Pending(c), Phase(d) <=> Phase(c),
         PhaseTimeout(d) = PhaseTimeout(c)
  PROVE  Due(d) = Due(c) - 1
  <1>1. /\ d.idleAge = Older(c.idleAge) /\ d.phaseAge = Older(c.phaseAge)
        /\ d.shut = c.shut /\ (Pending(d) <=> Pending(c)) /\ (Phase(d) <=> Phase(c))
        /\ PhaseTimeout(d) = PhaseTimeout(c)
    OBVIOUS
  <1>2. c.idleAge \in 0 .. Longest /\ c.phaseAge \in 0 .. Longest /\ Longest \in Nat
    BY LongestIs DEF Conns
  <1>3. PhaseTimeout(c) \in Nat /\ PhaseTimeout(c) <= Longest
    BY LongestIs DEF PhaseTimeout
  <1>4. d.idleAge = c.idleAge + 1
    <2>1. c.idleAge < Longest
      BY <1>2, DueIs, LongestIs
    <2> QED
      BY <2>1, <1>1, <1>2, OlderIs
  <1>5. ~c.shut /\ Phase(c) => d.phaseAge = c.phaseAge + 1
    <2> SUFFICES ASSUME ~c.shut, Phase(c) PROVE d.phaseAge = c.phaseAge + 1
      OBVIOUS
    <2>1. Due(c) <= PhaseTimeout(c) - c.phaseAge /\ Due(c) \in Int
      BY DueIs
    <2>2. c.phaseAge < Longest
      BY <2>1, <1>2, <1>3
    <2> QED
      BY <2>2, <1>1, <1>2, OlderIs
  <1>6. /\ Due(c) \in Int
        /\ Due(c) <= IdleTimeout - c.idleAge
        /\ ~c.shut /\ Pending(c) => Due(c) <= WriteTimeout - c.idleAge
        /\ ~c.shut /\ Phase(c) => Due(c) <= PhaseTimeout(c) - c.phaseAge
        /\ \/ Due(c) = IdleTimeout - c.idleAge
           \/ ~c.shut /\ Pending(c) /\ Due(c) = WriteTimeout - c.idleAge
           \/ ~c.shut /\ Phase(c) /\ Due(c) = PhaseTimeout(c) - c.phaseAge
    BY DueIs
  <1>7. /\ Due(d) \in Int
        /\ Due(d) <= IdleTimeout - d.idleAge
        /\ ~d.shut /\ Pending(d) => Due(d) <= WriteTimeout - d.idleAge
        /\ ~d.shut /\ Phase(d) => Due(d) <= PhaseTimeout(d) - d.phaseAge
        /\ \/ Due(d) = IdleTimeout - d.idleAge
           \/ ~d.shut /\ Pending(d) /\ Due(d) = WriteTimeout - d.idleAge
           \/ ~d.shut /\ Phase(d) /\ Due(d) = PhaseTimeout(d) - d.phaseAge
    BY DueIs
  <1>8. IdleTimeout \in Int /\ WriteTimeout \in Int
    BY LongestIs
  <1> QED
    BY <1>1, <1>2, <1>3, <1>4, <1>5, <1>6, <1>7, <1>8

(***************************************************************************)
(* Replies.                                                                *)
(***************************************************************************)

\* A reply leaves the request it answers, and the input, as they are.
SameRequest(c, d) ==
  /\ d.open = c.open /\ d.rbuf = c.rbuf /\ d.request = c.request
  /\ d.dispatched = c.dispatched /\ d.started = c.started /\ d.headers = c.headers
  /\ d.shut = c.shut /\ d.parsed = c.parsed /\ d.body = c.body
  /\ d.saving = c.saving /\ d.handled = c.handled /\ d.seen = c.seen
  /\ d.phaseAge = c.phaseAge

\* What sw_connection_begin_response changes.
LEMMA RespondIs ==
  ASSUME NEW c \in Conns, NEW u \in Seq(OutUnit)
  PROVE  /\ Respond(c, u) \in Conns
         /\ SameRequest(c, Respond(c, u))
         /\ Respond(c, u).wbuf = u
         /\ Respond(c, u).file = c.file
         /\ Respond(c, u).mustClose = c.mustClose
         /\ Respond(c, u).responding
         /\ Respond(c, u).closeAfter = ~KeepAlive(c)
         /\ Respond(c, u).idleAge = 0
  <1>1. KeepAlive(c) \in BOOLEAN
    BY DEF KeepAlive
  <1>2. 0 \in 0 .. Longest
    BY LongestIs
  <1> QED
    BY <1>1, <1>2 DEF Respond, Conns, SameRequest

\* The server's own errors: the connection ends with them.
LEMMA ReplyErrorIs ==
  ASSUME NEW c \in Conns
  PROVE  /\ ReplyError(c) \in Conns
         /\ SameRequest(c, ReplyError(c))
         /\ ReplyError(c).wbuf = <<Answer(0, 1, 1)>>
         /\ ReplyError(c).file = c.file
         /\ ReplyError(c).responding
         /\ ReplyError(c).closeAfter
         /\ ReplyError(c).mustClose
         /\ ReplyError(c).idleAge = 0
  <1> DEFINE m == [c EXCEPT !.mustClose = TRUE]
             u == <<Answer(0, 1, 1)>>
  <1>1. m \in Conns /\ SameRequest(c, m) /\ m.file = c.file /\ m.mustClose
    BY DEF Conns, SameRequest
  <1>2. u \in Seq(OutUnit)
    BY DEF Answer, OutUnit
  <1>3. ~KeepAlive(m)
    BY <1>1 DEF KeepAlive
  <1> HIDE DEF m
  <1>4. ReplyError(c) = Respond(m, u)
    BY DEF ReplyError, m
  <1> HIDE DEF u
  <1>5. SameRequest(m, Respond(m, u)) /\ Respond(m, u) \in Conns /\ Respond(m, u).wbuf = u
        /\ Respond(m, u).file = m.file /\ Respond(m, u).mustClose = m.mustClose
        /\ Respond(m, u).responding /\ Respond(m, u).closeAfter = ~KeepAlive(m)
        /\ Respond(m, u).idleAge = 0
    BY <1>1, <1>2, RespondIs
  <1> QED
    BY <1>1, <1>3, <1>4, <1>5 DEF SameRequest, u

\* What a handler may leave behind: nothing, a response, or bytes of its own and a
\* connection that ends.
Replied(c, d) ==
  /\ d \in Conns
  /\ SameRequest(c, d)
  /\ d.idleAge \in {0, c.idleAge}
  /\ \/ d = c
     \/ /\ d.responding
        /\ d.closeAfter = ~KeepAlive(c)
        /\ d.mustClose = c.mustClose
        /\ d.wbuf # <<>>
        /\ \A i \in DOMAIN d.wbuf : d.wbuf[i].to = c.request
        /\ \A i \in DOMAIN d.file : d.file[i].to = c.request
     \/ /\ d.closeAfter
        /\ d.mustClose
        /\ ~d.responding
        /\ d.file = <<>>

\* All that a handler may do leaves a reply of the kinds above.
LEMMA HandledIs ==
  ASSUME NEW c \in Conns, c.request # 0, c.wbuf = <<>>, c.file = <<>>, ~c.responding,
         NEW d \in Handled(c)
  PROVE  Replied(c, d)
  <1> DEFINE r == c.request
             A(k, n) == Answer(r, k, n)
  <1>1. r \in 0 .. MaxRequests /\ c.idleAge \in 0 .. Longest /\ 0 \in 0 .. Longest
    BY LongestIs DEF Conns
  <1>2. \A k \in 1 .. 3, n \in 1 .. 3 : A(k, n) \in OutUnit /\ A(k, n).to = r
    BY <1>1 DEF Answer, OutUnit
  <1> HIDE DEF A
  <1>3. /\ <<A(1, 1)>> \in Seq(OutUnit) /\ <<A(1, 2)>> \in Seq(OutUnit)
        /\ <<A(1, 3)>> \in Seq(OutUnit) /\ <<A(1, 2), A(2, 2)>> \in Seq(OutUnit)
        /\ <<A(2, 3), A(3, 3)>> \in Seq(OutUnit)
    BY <1>2
  <1>4. CASE d = ReplyBody(c)
    <2> DEFINE u == <<A(1, 2), A(2, 2)>>
    <2>1. d = Respond(c, u)
      BY <1>4 DEF ReplyBody, A
    <2>2. u # <<>> /\ \A i \in DOMAIN u : u[i].to = r
      BY <1>2
    <2>3. u \in Seq(OutUnit)
      BY <1>3
    <2> HIDE DEF u
    <2>4. /\ d \in Conns /\ SameRequest(c, d) /\ d.wbuf = u /\ d.file = c.file
          /\ d.mustClose = c.mustClose /\ d.responding /\ d.closeAfter = ~KeepAlive(c)
          /\ d.idleAge = 0
      BY <2>1, <2>3, RespondIs
    <2> QED
      BY <2>2, <2>4 DEF Replied
  <1>5. CASE d = SendFile(c)
    <2> DEFINE f == <<A(2, 3), A(3, 3)>>
               u == <<A(1, 3)>>
               m == [c EXCEPT !.file = f]
    <2>1. d = Respond(m, u)
      BY <1>5 DEF SendFile, A
    <2>2. /\ u # <<>> /\ \A i \in DOMAIN u : u[i].to = r
          /\ \A i \in DOMAIN f : f[i].to = r
      BY <1>2
    <2>3. u \in Seq(OutUnit) /\ f \in Seq(OutUnit)
      BY <1>3
    <2> HIDE DEF u, f
    <2>4. /\ m \in Conns /\ SameRequest(c, m) /\ m.file = f /\ m.mustClose = c.mustClose
          /\ (KeepAlive(m) <=> KeepAlive(c))
      BY <2>3 DEF Conns, SameRequest, KeepAlive, Kind, Ready
    <2> HIDE DEF m
    <2>5. /\ d \in Conns /\ SameRequest(m, d) /\ d.wbuf = u /\ d.file = m.file
          /\ d.mustClose = m.mustClose /\ d.responding /\ d.closeAfter = ~KeepAlive(m)
          /\ d.idleAge = 0
      BY <2>1, <2>3, <2>4, RespondIs
    <2>6. SameRequest(c, d)
      BY <2>4, <2>5 DEF SameRequest
    <2> QED
      BY <2>2, <2>4, <2>5, <2>6 DEF Replied
  <1>6. CASE d = Write(c)
    <2>1. Append(c.wbuf, A(1, 1)) \in Seq(OutUnit)
      BY <1>2, AppendProperties DEF Conns
    <2>2. d = [c EXCEPT !.mustClose = TRUE, !.closeAfter = TRUE, !.idleAge = 0,
                        !.wbuf = Append(c.wbuf, A(1, 1))]
      BY <1>6 DEF Write, A
    <2>3. /\ d \in Conns /\ SameRequest(c, d) /\ d.idleAge = 0 /\ d.closeAfter
          /\ d.mustClose /\ d.responding = c.responding /\ d.file = c.file
      BY <2>1, <2>2, <1>1 DEF Conns, SameRequest
    <2> QED
      BY <2>3 DEF Replied
  <1>7. CASE d = c
    BY <1>7 DEF Replied, SameRequest
  <1>8. CASE d \in ReplyFails(c)
    <2> DEFINE u == <<A(1, 2)>>
               m == Respond(c, u)
    <2>1. \/ d = [m EXCEPT !.idleAge = c.idleAge]
          \/ d = [c EXCEPT !.mustClose = TRUE, !.closeAfter = TRUE]
          \/ d = [Write(c) EXCEPT !.idleAge = c.idleAge]
      BY <1>8 DEF ReplyFails, A
    <2>2. u # <<>> /\ u \in Seq(OutUnit) /\ \A i \in DOMAIN u : u[i].to = r
      BY <1>2, <1>3
    <2> HIDE DEF u
    <2>3. /\ m \in Conns /\ SameRequest(c, m) /\ m.wbuf = u /\ m.file = c.file
          /\ m.mustClose = c.mustClose /\ m.responding /\ m.closeAfter = ~KeepAlive(c)
      BY <2>2, RespondIs
    <2> HIDE DEF m
    <2>4. CASE d = [m EXCEPT !.idleAge = c.idleAge]
      <3>1. /\ d \in Conns /\ SameRequest(c, d) /\ d.wbuf = u /\ d.file = c.file
            /\ d.mustClose = c.mustClose /\ d.responding /\ d.closeAfter = ~KeepAlive(c)
            /\ d.idleAge = c.idleAge
        BY <2>3, <2>4, <1>1 DEF Conns, SameRequest
      <3> QED
        BY <3>1, <2>2 DEF Replied
    <2>5. CASE d = [c EXCEPT !.mustClose = TRUE, !.closeAfter = TRUE]
      <3>1. /\ d \in Conns /\ SameRequest(c, d) /\ d.idleAge = c.idleAge /\ d.closeAfter
            /\ d.mustClose /\ d.responding = c.responding /\ d.file = c.file
        BY <2>5 DEF Conns, SameRequest
      <3> QED
        BY <3>1 DEF Replied
    <2>6. CASE d = [Write(c) EXCEPT !.idleAge = c.idleAge]
      <3> DEFINE a == Append(c.wbuf, A(1, 1))
      <3>1. a \in Seq(OutUnit)
        BY <1>2, AppendProperties DEF Conns
      <3>2. Write(c) = [c EXCEPT !.mustClose = TRUE, !.closeAfter = TRUE, !.idleAge = 0,
                                 !.wbuf = a]
        BY DEF Write, A
      <3> HIDE DEF a
      <3>3. /\ d \in Conns /\ SameRequest(c, d) /\ d.idleAge = c.idleAge /\ d.closeAfter
            /\ d.mustClose /\ d.responding = c.responding /\ d.file = c.file
        BY <2>6, <3>1, <3>2, <1>1 DEF Conns, SameRequest
      <3> QED
        BY <3>3 DEF Replied
    <2> QED
      BY <2>1, <2>4, <2>5, <2>6
  <1> QED
    BY <1>4, <1>5, <1>6, <1>7, <1>8 DEF Handled

\* What is still to be written, and the responses a handler may write to request r.
Output(c) == c.wbuf \o c.file

Response(r) ==
  {<<Answer(r, 1, 1)>>, <<Answer(r, 1, 2), Answer(r, 2, 2)>>,
   <<Answer(r, 1, 3), Answer(r, 2, 3), Answer(r, 3, 3)>>}

\* Nothing is said to the client, or a response to the next request begins, or an error
\* of the server's own does.
SameOutput(c, d) ==
  /\ d.wbuf = c.wbuf /\ d.file = c.file /\ d.open = c.open /\ d.shut = c.shut
  /\ d.closeAfter = c.closeAfter /\ d.responding = c.responding /\ d.handled = c.handled
  /\ c.responding => d.request = c.request

Begins(c, d) ==
  /\ GoesOn(c) /\ ~c.responding /\ c.wbuf = <<>> /\ c.file = <<>>
  /\ d.responding \/ d.closeAfter
  /\ \/ Output(d) \in Response(c.handled + 1) /\ d.request = c.handled + 1
     \/ Output(d) = <<Answer(0, 1, 1)>> /\ d.closeAfter

Outcome(c, d) == SameOutput(c, d) \/ Begins(c, d)

\* A head and the two chunks of a file.
LEMMA JoinsThree ==
  ASSUME NEW x \in OutUnit, NEW y \in OutUnit, NEW z \in OutUnit
  PROVE  <<x>> \o <<y, z>> = <<x, y, z>>
  <1> DEFINE a == <<x>>
             b == <<y, z>>
             c == <<x, y, z>>
             d == a \o b
  <1>1. a \in Seq(OutUnit) /\ b \in Seq(OutUnit) /\ c \in Seq(OutUnit)
    OBVIOUS
  <1>2. Len(a) = 1 /\ Len(b) = 2 /\ Len(c) = 3 /\ a[1] = x /\ b[1] = y /\ b[2] = z
        /\ c[1] = x /\ c[2] = y /\ c[3] = z
    OBVIOUS
  <1> HIDE DEF a, b, c
  <1>6. /\ a \o b \in Seq(OutUnit)
        /\ Len(a \o b) = Len(a) + Len(b)
        /\ \A i \in 1 .. Len(a) + Len(b) : (a \o b)[i] = IF i <= Len(a) THEN a[i] ELSE b[i - Len(a)]
    BY <1>1, ConcatProperties
  <1>3. d \in Seq(OutUnit) /\ Len(d) = 3 /\ d[1] = a[1] /\ d[2] = b[1] /\ d[3] = b[2]
    <2> HIDE DEF d
    <2>1. d \in Seq(OutUnit) /\ Len(d) = 3
          /\ \A i \in 1 .. 3 : d[i] = IF i <= 1 THEN a[i] ELSE b[i - 1]
      BY <1>2, <1>6 DEF d
    <2>2. 1 \in 1 .. 3 /\ 2 \in 1 .. 3 /\ 3 \in 1 .. 3
      OBVIOUS
    <2> QED
      BY <2>1, <2>2
  <1> HIDE DEF d
  <1>4. \A i \in 1 .. Len(d) : d[i] = c[i]
    BY <1>2, <1>3
  <1>5. d = c
    BY <1>1, <1>2, <1>3, <1>4, SeqEqual
  <1> QED
    BY <1>5 DEF a, b, c, d

\* A handler whose reply fits the write buffer writes nothing or a whole response.
LEMMA HandlerOutput ==
  ASSUME "large" \notin Replies,
         NEW c \in Conns, c.request # 0, c.wbuf = <<>>, c.file = <<>>, ~c.responding,
         NEW d \in Handled(c)
  PROVE  d = c \/ (Output(d) \in Response(c.request) /\ (d.responding \/ d.closeAfter))
  <1> DEFINE r == c.request
             A(k, n) == Answer(r, k, n)
  <1>1. r \in 0 .. MaxRequests
    BY DEF Conns
  <1>2. \A k \in 1 .. 3, n \in 1 .. 3 : A(k, n) \in OutUnit
    BY <1>1 DEF Answer, OutUnit
  <1>3. Response(r) = {<<A(1, 1)>>, <<A(1, 2), A(2, 2)>>, <<A(1, 3), A(2, 3), A(3, 3)>>}
    BY DEF Response
  <1> HIDE DEF A
  <1>4. /\ <<A(1, 1)>> \in Seq(OutUnit) /\ <<A(1, 2), A(2, 2)>> \in Seq(OutUnit)
        /\ <<A(1, 3)>> \in Seq(OutUnit) /\ <<A(2, 3), A(3, 3)>> \in Seq(OutUnit)
    BY <1>2
  <1>5. CASE d = ReplyBody(c)
    <2> DEFINE u == <<A(1, 2), A(2, 2)>>
    <2>1. d = Respond(c, u)
      BY <1>5 DEF ReplyBody, A
    <2>2. u \in Seq(OutUnit)
      BY <1>4
    <2>3. u \in Response(r)
      BY <1>3
    <2> HIDE DEF u
    <2>4. d.wbuf = u /\ d.file = <<>> /\ d.responding
      BY <2>1, <2>2, RespondIs
    <2>5. Output(d) = u
      BY <2>2, <2>4, ConcatEmptySeq DEF Output
    <2> QED
      BY <2>3, <2>4, <2>5
  <1>6. CASE d = SendFile(c)
    <2> DEFINE f == <<A(2, 3), A(3, 3)>>
               u == <<A(1, 3)>>
               m == [c EXCEPT !.file = f]
    <2>1. d = Respond(m, u)
      BY <1>6 DEF SendFile, A
    <2>2. u \in Seq(OutUnit) /\ f \in Seq(OutUnit)
      BY <1>4
    <2>3. u \o f = <<A(1, 3), A(2, 3), A(3, 3)>>
      BY <1>2, JoinsThree
    <2> HIDE DEF u, f
    <2>4. m \in Conns /\ m.file = f
      BY <2>2 DEF Conns
    <2> HIDE DEF m
    <2>5. d.wbuf = u /\ d.file = f /\ d.responding
      BY <2>1, <2>2, <2>4, RespondIs
    <2> QED
      BY <1>3, <2>3, <2>5 DEF Output
  <1>7. CASE d = Write(c)
    <2> DEFINE u == <<A(1, 1)>>
    <2>1. Append(c.wbuf, A(1, 1)) = u
      OBVIOUS
    <2>2. u \in Seq(OutUnit) /\ u \in Response(r)
      BY <1>3, <1>4
    <2> HIDE DEF u
    <2>3. d = [c EXCEPT !.mustClose = TRUE, !.closeAfter = TRUE, !.idleAge = 0, !.wbuf = u]
      BY <1>7, <2>1 DEF Write, A
    <2>4. d.wbuf = u /\ d.file = <<>> /\ d.closeAfter
      BY <2>3 DEF Conns
    <2>5. Output(d) = u
      BY <2>2, <2>4, ConcatEmptySeq DEF Output
    <2> QED
      BY <2>2, <2>4, <2>5
  <1> QED
    BY <1>5, <1>6, <1>7 DEF Handled

\* The handler has a request before it and has not replied.
Serving(c, s, w) == Sound(c, s, w) /\ GoesOn(c) /\ Ready(c) /\ ~c.responding

\* What the handler may do keeps the connection sound.
LEMMA HandlerSound ==
  ASSUME NEW s, NEW w, NEW c, Serving(c, s, w), ~c.saving, NEW d \in Handled(c)
  PROVE  /\ Sound(d, s, w) /\ Settled(d)
         /\ SameRequest(c, d)
         /\ FirstUnit(d) = FirstUnit(c)
         /\ "large" \notin Replies => Outcome(c, d)
  <1> USE DEF Serving, Sound
  <1>1. ~Pending(c) /\ c.wbuf = <<>> /\ c.file = <<>> /\ c.request # 0
    BY DEF Replying, GoesOn, Pending, Ready
  <1>2. Replied(c, d)
    BY <1>1, HandledIs
  <1>3. FirstUnit(d) = FirstUnit(c)
    BY <1>2 DEF Replied, SameRequest, FirstUnit, Ready
  <1>4. Settled(d)
    BY <1>2, <1>1 DEF Replied, SameRequest, Settled, Pending, Ready
  <1>5. Replying(d)
    BY <1>2, <1>1 DEF Replied, SameRequest, Replying, Pending, Ready, GoesOn, KeepAlive
  <1>6. Requests(d, s)
    <2>1. d.mustClose \/ d.mustClose = c.mustClose
      BY <1>2 DEF Replied
    <2> QED
      BY <1>2, <2>1 DEF Replied, SameRequest, Requests, Ready
  <1>7. Answered(d, w)
    BY <1>2, <1>1 DEF Replied, SameRequest, Answered, GoesOn
  <1>8. ASSUME "large" \notin Replies PROVE Outcome(c, d)
    <2>1. c.request = c.handled + 1
      BY DEF Requests, GoesOn
    <2>2. d = c \/ (Output(d) \in Response(c.request) /\ (d.responding \/ d.closeAfter))
      BY <1>1, <1>8, HandlerOutput
    <2>3. d.request = c.request
      BY <1>2 DEF Replied, SameRequest
    <2> QED
      BY <1>1, <2>1, <2>2, <2>3 DEF Outcome, SameOutput, Begins
  <1> QED
    BY <1>2, <1>3, <1>4, <1>5, <1>6, <1>7, <1>8 DEF Replied

(***************************************************************************)
(* Parsing and dispatching.                                                *)
(***************************************************************************)

\* The connection as it was before it took the request in hand.
Before(c) == [c EXCEPT !.request = 0, !.parsed = 0, !.body = 0]

\* The fields of the connection before it took the request in hand.
LEMMA BeforeIs ==
  ASSUME NEW m \in Conns
  PROVE  /\ Before(m) \in Conns
         /\ Before(m).request = 0
         /\ Before(m).parsed = 0
         /\ Before(m).body = 0
         /\ Before(m).open = m.open
         /\ Before(m).shut = m.shut
         /\ Before(m).closeAfter = m.closeAfter
         /\ Before(m).responding = m.responding
         /\ Before(m).dispatched = m.dispatched
         /\ Before(m).saving = m.saving
         /\ Before(m).seen = m.seen
         /\ Before(m).handled = m.handled
         /\ Before(m).wbuf = m.wbuf
         /\ Before(m).file = m.file
  <1>1. 0 \in 0 .. MaxRequests /\ 0 \in 0 .. 4 /\ 0 \in 0 .. 2
    OBVIOUS
  <1>2. Before(m) \in Conns
    BY <1>1 DEF Before, Conns
  <1> QED
    BY <1>2 DEF Before, Conns

\* The next request is in hand, and the handler has not been called for it.
Arrived(c, s, w) ==
  /\ Sound(Before(c), s, w)
  /\ c \in Conns /\ GoesOn(c) /\ ~c.responding /\ ~c.dispatched /\ ~c.saving
  /\ c.request = Len(c.seen) + 1
  /\ c.request \in 1 .. MaxRequests /\ c.request <= Len(s)
  /\ \/ c.parsed = Parts(s[c.request]) /\ Len(c.rbuf) >= c.parsed /\ c.body = 0
     \/ c.parsed = 0 /\ s[c.request] = "upload" /\ c.body = 2 /\ c.mustClose

\* The handler is called for the next request, once, and leaves the connection sound.
LEMMA DispatchSound ==
  ASSUME NEW s, NEW w, NEW c, Arrived(c, s, w), NEW e \in Dispatch(c)
  PROVE  /\ Sound(e, s, w) /\ Settled(e)
         /\ e.open /\ ~e.shut /\ e.rbuf = c.rbuf /\ e.request = c.request
         /\ FirstUnit(e) = IF c.parsed = 0 THEN Unit(c.request, 3) ELSE Unit(c.request, 1)
         /\ "large" \notin Replies => Outcome(c, e)
  <1> DEFINE z == Before(c)
             d == [c EXCEPT !.dispatched = TRUE, !.seen = Append(@, c.request)]
             v == [d EXCEPT !.saving = TRUE]
  <1>1. /\ Sound(z, s, w) /\ c \in Conns /\ GoesOn(c) /\ ~c.responding /\ ~c.dispatched
        /\ ~c.saving /\ c.request = Len(c.seen) + 1 /\ c.request \in 1 .. MaxRequests
        /\ c.request <= Len(s)
        /\ \/ c.parsed = Parts(s[c.request]) /\ Len(c.rbuf) >= c.parsed /\ c.body = 0
           \/ c.parsed = 0 /\ s[c.request] = "upload" /\ c.body = 2 /\ c.mustClose
    BY DEF Arrived
  <1>2. /\ z.open = c.open /\ z.shut = c.shut /\ z.closeAfter = c.closeAfter
        /\ z.seen = c.seen /\ z.handled = c.handled /\ z.wbuf = c.wbuf /\ z.file = c.file
        /\ z.responding = c.responding /\ z.request = 0
    BY <1>1, BeforeIs
  <1> HIDE DEF z
  <1>3. /\ \A i \in DOMAIN c.seen : c.seen[i] = i
        /\ Len(c.seen) = c.handled /\ c.handled < KeepAliveMax
        /\ c.wbuf = <<>> /\ c.file = <<>> /\ LastAnswered(w) = c.handled
    BY <1>1, <1>2 DEF Sound, Requests, Replying, Answered, GoesOn, Ready, Pending
  <1>4. /\ c.seen \in Seq(1 .. MaxRequests) /\ Len(c.seen) \in Nat /\ c.handled \in Nat
    BY <1>1, LenProperties DEF Conns
  <1>5. Append(c.seen, c.request) \in Seq(1 .. MaxRequests)
    BY <1>1, <1>4, AppendProperties
  <1>6. /\ Len(Append(c.seen, c.request)) = Len(c.seen) + 1
        /\ \A i \in DOMAIN Append(c.seen, c.request) : Append(c.seen, c.request)[i] = i
    <2> DEFINE a == Append(c.seen, c.request)
    <2>1. /\ Len(a) = Len(c.seen) + 1
          /\ \A i \in 1 .. Len(c.seen) : a[i] = c.seen[i]
          /\ a[Len(c.seen) + 1] = c.request
      BY <1>1, <1>4, AppendProperties
    <2>2. DOMAIN a = 1 .. Len(a) /\ DOMAIN c.seen = 1 .. Len(c.seen)
      BY <1>4, <1>5, LenProperties
    <2> HIDE DEF a
    <2>3. ASSUME NEW i \in DOMAIN a PROVE a[i] = i
      <3> DEFINE n == Len(c.seen)
      <3>1. n \in Nat /\ i \in 1 .. n + 1
        BY <2>1, <2>2, <2>3, <1>4
      <3> HIDE DEF n
      <3>2. i \in 1 .. n \/ i = n + 1
        BY <3>1
      <3>3. i \in 1 .. Len(c.seen) \/ i = Len(c.seen) + 1
        BY <3>2 DEF n
      <3> QED
        BY <3>3, <2>1, <2>2, <1>1, <1>3
    <2> QED
      BY <2>1, <2>3 DEF a
  <1>7. /\ d \in Conns /\ d.dispatched /\ d.seen = Append(c.seen, c.request)
        /\ d.open = c.open /\ d.shut = c.shut /\ d.closeAfter = c.closeAfter
        /\ d.handled = c.handled /\ d.wbuf = c.wbuf /\ d.file = c.file
        /\ d.responding = c.responding /\ d.request = c.request /\ d.rbuf = c.rbuf
        /\ d.parsed = c.parsed /\ d.body = c.body /\ d.mustClose = c.mustClose
        /\ d.saving = c.saving
    BY <1>1, <1>5 DEF Conns
  <1>8. e \in Handled(d) \/ (e = v /\ c.body > 0)
    BY <1>1 DEF Dispatch
  <1>9. /\ v \in Conns /\ v.dispatched /\ v.seen = Append(c.seen, c.request)
        /\ v.open = c.open /\ v.shut = c.shut /\ v.closeAfter = c.closeAfter
        /\ v.handled = c.handled /\ v.wbuf = c.wbuf /\ v.file = c.file
        /\ v.responding = c.responding /\ v.request = c.request /\ v.rbuf = c.rbuf
        /\ v.parsed = c.parsed /\ v.body = c.body /\ v.mustClose = c.mustClose
        /\ v.saving
    BY <1>7, ZenonT(40) DEF Conns
  <1> HIDE DEF d, v
  <1>10. /\ Serving(d, s, w) /\ ~d.saving
         /\ FirstUnit(d) = IF c.parsed = 0 THEN Unit(c.request, 3) ELSE Unit(c.request, 1)
    <2>1. Requests(d, s)
      <3>1. /\ d.request # 0 /\ d.request = Len(d.seen) /\ d.request <= Len(s)
            /\ Len(d.seen) = d.handled + 1 /\ d.handled < KeepAliveMax
            /\ Len(d.seen) <= KeepAliveMax
        BY <1>1, <1>3, <1>4, <1>6, <1>7, SMTT(30)
      <3>2. \A i \in DOMAIN d.seen : d.seen[i] = i
        BY <1>6, <1>7
      <3>3. \/ d.parsed = Parts(s[d.request]) /\ Len(d.rbuf) >= d.parsed /\ d.body = 0
            \/ d.parsed = 0 /\ s[d.request] = "upload" /\ d.mustClose
        BY <1>1, <1>7
      <3> QED
        BY <3>1, <3>2, <3>3, <1>7 DEF Requests, Ready
    <2>2. Replying(d)
      BY <1>1, <1>3, <1>7 DEF Replying, Ready, GoesOn, Pending
    <2>3. Answered(d, w)
      BY <1>1, <1>3, <1>7 DEF Answered
    <2>4. FirstUnit(d) = IF c.parsed = 0 THEN Unit(c.request, 3) ELSE Unit(c.request, 1)
      BY <1>1, <1>4, <1>6, <1>7, PartsIs, SMTT(30) DEF FirstUnit, Ready
    <2> QED
      BY <2>1, <2>2, <2>3, <2>4, <1>1, <1>7 DEF Serving, Sound, GoesOn, Ready
  <1>11. CASE e \in Handled(d)
    <2>1. Sound(e, s, w) /\ Settled(e) /\ SameRequest(d, e) /\ FirstUnit(e) = FirstUnit(d)
      BY <1>10, <1>11, HandlerSound
    <2>2. ASSUME "large" \notin Replies PROVE Outcome(c, e)
      <3>1. Outcome(d, e)
        BY <1>10, <1>11, <2>2, HandlerSound
      <3> QED
        BY <1>7, <3>1 DEF Outcome, SameOutput, Begins, GoesOn
    <2> QED
      BY <2>1, <2>2, <1>1, <1>7, <1>10 DEF SameRequest, GoesOn
  <1>12. CASE e = v /\ c.body > 0
    <2>1. Requests(v, s)
      BY <1>7, <1>9, <1>10, SMTT(30) DEF Serving, Sound, Requests, Ready
    <2>2. Replying(v) /\ Settled(v)
      BY <1>12, <1>1, <1>3, <1>9, PartsIs DEF Replying, Ready, GoesOn, Pending, Settled
    <2>3. Answered(v, w)
      BY <1>1, <1>3, <1>9 DEF Answered
    <2>4. FirstUnit(v) = IF c.parsed = 0 THEN Unit(c.request, 3) ELSE Unit(c.request, 1)
      BY <1>7, <1>9, <1>10 DEF FirstUnit, Ready
    <2> QED
      BY <1>12, <2>1, <2>2, <2>3, <2>4, <1>1, <1>9 DEF Sound, GoesOn, Outcome, SameOutput
  <1> QED
    BY <1>8, <1>11, <1>12

\* A request is taken in hand: the parser's changes to the connection.
LEMMA StreamedIs ==
  ASSUME NEW d \in Conns, d.rbuf[1].req \in 1 .. MaxRequests,
         SubSeq(d.rbuf, 3, Len(d.rbuf)) \in Seq(InUnit)
  PROVE  /\ Streamed(d) \in Conns
         /\ Streamed(d).request = d.rbuf[1].req
         /\ Streamed(d).parsed = 0
         /\ Streamed(d).mustClose
         /\ Streamed(d).body = 2
         /\ Streamed(d).rbuf = SubSeq(d.rbuf, 3, Len(d.rbuf))
         /\ Streamed(d).open = d.open
         /\ Streamed(d).shut = d.shut
         /\ Streamed(d).closeAfter = d.closeAfter
         /\ Streamed(d).responding = d.responding
         /\ Streamed(d).dispatched = d.dispatched
         /\ Streamed(d).saving = d.saving
         /\ Streamed(d).seen = d.seen
         /\ Streamed(d).handled = d.handled
         /\ Streamed(d).wbuf = d.wbuf
         /\ Streamed(d).file = d.file
  <1> DEFINE b == SubSeq(d.rbuf, 3, Len(d.rbuf))
             r == d.rbuf[1].req
  <1>1. Streamed(d) = [d EXCEPT !.request = r, !.parsed = 0, !.mustClose = TRUE,
                                !.body = 2, !.rbuf = b]
    BY DEF Streamed, Parts
  <1>2. b \in Seq(InUnit) /\ r \in 0 .. MaxRequests /\ 0 \in 0 .. 4 /\ 2 \in 0 .. 2
    OBVIOUS
  <1> HIDE DEF b, r
  <1>21. Streamed(d) \in Conns
    BY <1>1, <1>2, ZenonT(40) DEF Conns
  <1>3. /\ Streamed(d) \in Conns /\ Streamed(d).request = r /\ Streamed(d).parsed = 0
        /\ Streamed(d).mustClose /\ Streamed(d).body = 2 /\ Streamed(d).rbuf = b
        /\ Streamed(d).open = d.open /\ Streamed(d).shut = d.shut
        /\ Streamed(d).closeAfter = d.closeAfter /\ Streamed(d).responding = d.responding
        /\ Streamed(d).dispatched = d.dispatched /\ Streamed(d).saving = d.saving
        /\ Streamed(d).seen = d.seen /\ Streamed(d).handled = d.handled
        /\ Streamed(d).wbuf = d.wbuf /\ Streamed(d).file = d.file
    BY <1>1, <1>2, <1>21 DEF Conns
  <1> QED
    BY <1>3 DEF b, r

\* A request that is all in the buffer is taken in hand.
LEMMA InMemoryIs ==
  ASSUME NEW d \in Conns, d.rbuf[1].req \in 1 .. MaxRequests
  PROVE  /\ InMemory(d) \in Conns
         /\ InMemory(d).request = d.rbuf[1].req
         /\ InMemory(d).parsed = Parts(stream[d.rbuf[1].req])
         /\ InMemory(d).mustClose = d.mustClose
         /\ InMemory(d).body = d.body
         /\ InMemory(d).rbuf = d.rbuf
         /\ InMemory(d).open = d.open
         /\ InMemory(d).shut = d.shut
         /\ InMemory(d).closeAfter = d.closeAfter
         /\ InMemory(d).responding = d.responding
         /\ InMemory(d).dispatched = d.dispatched
         /\ InMemory(d).saving = d.saving
         /\ InMemory(d).seen = d.seen
         /\ InMemory(d).handled = d.handled
         /\ InMemory(d).wbuf = d.wbuf
         /\ InMemory(d).file = d.file
  <1> DEFINE r == d.rbuf[1].req
             p == Parts(stream[r])
  <1>1. InMemory(d) = [d EXCEPT !.request = r, !.parsed = p]
    BY DEF InMemory
  <1>2. p \in 0 .. 4 /\ r \in 0 .. MaxRequests
    <2>1. p \in 2 .. 4
      BY PartsIs
    <2> QED
      BY <2>1
  <1> HIDE DEF p, r
  <1>3. /\ InMemory(d) \in Conns /\ InMemory(d).request = r /\ InMemory(d).parsed = p
        /\ InMemory(d).mustClose = d.mustClose /\ InMemory(d).body = d.body
        /\ InMemory(d).rbuf = d.rbuf
        /\ InMemory(d).open = d.open /\ InMemory(d).shut = d.shut
        /\ InMemory(d).closeAfter = d.closeAfter /\ InMemory(d).responding = d.responding
        /\ InMemory(d).dispatched = d.dispatched /\ InMemory(d).saving = d.saving
        /\ InMemory(d).seen = d.seen /\ InMemory(d).handled = d.handled
        /\ InMemory(d).wbuf = d.wbuf /\ InMemory(d).file = d.file
    BY <1>1, <1>2, ZenonT(40) DEF Conns
  <1> QED
    BY <1>3 DEF p, r

\* A head in the buffer is the head of the next request.
LEMMA HeadIs ==
  ASSUME NEW s \in Seq(Kinds), NEW k \in 0 .. 4, NEW r \in Nat,
         NEW b \in Seq(InUnit), NEW q \in Seq(InUnit),
         Chain(s, k, Unit(r, 1), b \o q), HeadEnd(b) # {}
  PROVE  /\ Len(b) \in Nat /\ Len(b) >= 2
         /\ b[1] = Unit(r, 1) /\ b[2] = Unit(r, 2)
         /\ r \in 1 .. Len(s)
  <1> DEFINE p == b \o q
  <1>1. PICK i \in DOMAIN b : b[i].part = 2
    BY DEF HeadEnd
  <1>2. Len(b) \in Nat /\ Len(q) \in Nat /\ DOMAIN b = 1 .. Len(b)
    BY LenProperties
  <1>3. /\ p \in Seq(InUnit) /\ Len(p) = Len(b) + Len(q)
        /\ \A j \in 1 .. Len(b) : p[j] = b[j]
    BY <1>2, ConcatProperties
  <1>4. Chain(s, k, Unit(r, 1), p)
    OBVIOUS
  <1> HIDE DEF p
  <1>5. p # <<>> /\ p[1] = b[1]
    BY <1>1, <1>2, <1>3, EmptySeq
  <1>6. b[1] = Unit(r, 1)
    BY <1>4, <1>5 DEF Chain
  <1>7. i >= 2
    BY <1>1, <1>2, <1>6 DEF Unit
  <1>8. p[2] = b[2] /\ p[2] = Follows(s, p[1])
    <2>1. 1 \in 1 .. Len(p) - 1 /\ 2 \in 1 .. Len(b)
      BY <1>1, <1>2, <1>3, <1>7
    <2>2. p[1 + 1] = Follows(s, p[1])
      BY <2>1, <1>4 DEF Chain
    <2> QED
      BY <2>1, <2>2, <1>3
  <1>9. Follows(s, Unit(r, 1)) = Unit(r, 2)
    <2>1. Parts(s[r]) >= 2 /\ Parts(s[r]) \in Nat
      BY PartsIs, SMTT(30)
    <2> QED
      BY <2>1 DEF Follows, Unit
  <1>10. InStream(s, p[1])
    BY <1>1, <1>2, <1>3, <1>4, <1>7 DEF Chain
  <1> QED
    BY <1>1, <1>2, <1>5, <1>6, <1>7, <1>8, <1>9, <1>10 DEF InStream, Unit

\* Processing the input keeps the connection sound, keeps its place in the stream, and
\* dispatches nothing once the connection is to be closed.
LEMMA ProcessSound ==
  ASSUME stream \in Seq(Kinds), Len(stream) <= MaxRequests, sent \in 0 .. 4,
         NEW w, NEW q \in Seq(InUnit),
         NEW c, Sound(c, stream, w), Settled(c), c.open, ~c.shut, ~c.saving,
         GoesOn(c) => Chain(stream, sent, FirstUnit(c), c.rbuf \o q),
         NEW e \in ProcessInput(c)
  PROVE  /\ Sound(e, stream, w) /\ Settled(e)
         /\ e.open /\ ~e.shut
         /\ GoesOn(e) => Chain(stream, sent, FirstUnit(e), e.rbuf \o q)
         /\ c.closeAfter => e.seen = c.seen
         /\ Len(e.rbuf) <= Len(c.rbuf)
         /\ Pending(e) \/ Ready(e) \/ e = c \/ e.headers
         /\ "large" \notin Replies => Outcome(c, e)
  <1>1. c \in Conns /\ c.rbuf \in Seq(InUnit) /\ Len(c.rbuf) \in Nat
    BY LenProperties DEF Sound, Conns
  <1>2. CASE e = c
    <2>1. Outcome(c, e)
      BY <1>2 DEF Outcome, SameOutput
    <2> QED
      BY <1>1, <1>2, <2>1
  <1>3. CASE Pending(c)
    BY <1>2, <1>3 DEF ProcessInput
  <1>4. CASE ~Pending(c) /\ Ready(c)
    BY <1>2, <1>4 DEF ProcessInput, Dispatch, Sound, Requests
  <1>5. CASE ~Pending(c) /\ ~Ready(c)
    <2> DEFINE d == HeadFound(c)
               r == Len(c.seen) + 1
    <2>1. GoesOn(c) /\ ~c.responding
      BY <1>5 DEF Settled, GoesOn
    <2>2. CASE HeadEnd(c.rbuf) = {}
      BY <1>2, <1>5, <2>2 DEF ProcessInput
    <2>3. CASE HeadEnd(c.rbuf) # {}
      <3>1. /\ d \in Conns /\ d.wbuf = c.wbuf /\ d.file = c.file /\ d.responding = c.responding
            /\ d.closeAfter = c.closeAfter /\ d.mustClose = c.mustClose
            /\ d.open = c.open /\ d.rbuf = c.rbuf /\ d.request = c.request
            /\ d.dispatched = c.dispatched /\ d.shut = c.shut /\ d.parsed = c.parsed
            /\ d.body = c.body /\ d.saving = c.saving /\ d.handled = c.handled
            /\ d.seen = c.seen
        <4>1. 0 \in 0 .. Longest
          BY LongestIs
        <4>2. d = c \/ d = [c EXCEPT !.headers = TRUE, !.phaseAge = 0]
          BY DEF HeadFound
        <4> HIDE DEF d
        <4>3. CASE d = c
          BY <1>1, <4>3
        <4>4. CASE d = [c EXCEPT !.headers = TRUE, !.phaseAge = 0]
          <5>1. d \in Conns
            BY <1>1, <4>1, <4>4 DEF Conns
          <5>2. /\ d.wbuf = c.wbuf /\ d.file = c.file /\ d.responding = c.responding
                /\ d.closeAfter = c.closeAfter /\ d.mustClose = c.mustClose
                /\ d.open = c.open /\ d.rbuf = c.rbuf /\ d.request = c.request
            BY <1>1, <4>4 DEF Conns
          <5>3. /\ d.dispatched = c.dispatched /\ d.shut = c.shut /\ d.parsed = c.parsed
                /\ d.body = c.body /\ d.saving = c.saving /\ d.handled = c.handled
                /\ d.seen = c.seen
            BY <1>1, <4>4 DEF Conns
          <5> QED
            BY <5>1, <5>2, <5>3
        <4> QED
          BY <4>2, <4>3, <4>4
      <3>2. /\ e \in CASE Malformed(d.rbuf) -> {ReplyError(d)}
                       [] ~Malformed(d.rbuf) /\ stream[d.rbuf[1].req] = "upload" -> Dispatch(Streamed(d))
                       [] OTHER -> IF Complete(d.rbuf) THEN Dispatch(InMemory(d)) ELSE {d}
        BY <1>5, <2>3 DEF ProcessInput
      <3>12. d.headers
        BY <1>1 DEF HeadFound, Conns
      <3> HIDE DEF d
      <3>3. Sound(d, stream, w) /\ Settled(d) /\ GoesOn(d) /\ FirstUnit(d) = FirstUnit(c)
        <4>1. Requests(d, stream)
          BY <3>1 DEF Sound, Requests, Ready
        <4>2. Replying(d) /\ Settled(d)
          BY <3>1 DEF Sound, Replying, Ready, Pending, GoesOn, Settled
        <4>3. Answered(d, w)
          BY <3>1 DEF Sound, Answered, GoesOn
        <4> QED
          BY <4>1, <4>2, <4>3, <3>1, <2>1 DEF Sound, GoesOn, FirstUnit, Ready
      <3>4. r \in Nat /\ FirstUnit(c) = Unit(r, 1)
        BY <1>1, <1>5, LenProperties DEF FirstUnit, Conns
      <3> HIDE DEF r
      <3>5. Chain(stream, sent, Unit(r, 1), d.rbuf \o q)
        BY <3>1, <3>4, <2>1
      <3>6. /\ Len(d.rbuf) >= 2 /\ d.rbuf[1] = Unit(r, 1) /\ d.rbuf[2] = Unit(r, 2)
            /\ r \in 1 .. Len(stream) /\ r \in 1 .. MaxRequests
        <4>1. d.rbuf \in Seq(InUnit) /\ HeadEnd(d.rbuf) # {}
          BY <1>1, <2>3, <3>1
        <4>2. /\ Len(d.rbuf) >= 2 /\ d.rbuf[1] = Unit(r, 1) /\ d.rbuf[2] = Unit(r, 2)
              /\ r \in 1 .. Len(stream)
          BY <3>4, <3>5, <4>1, HeadIs
        <4>3. Len(stream) \in Nat
          BY LenProperties
        <4> QED
          BY <4>2, <4>3
      <3>7. d.rbuf[1].req = r
        BY <3>6 DEF Unit
      <3>71. d \in Conns
        BY <3>1
      <3>72. r \in 1 .. MaxRequests
        BY <3>6
      <3>73. r \in 0 .. MaxRequests
        BY <3>72
      <3>74. d.body \in 0 .. 2 /\ d.mustClose \in BOOLEAN /\ d.rbuf \in Seq(InUnit)
        BY <3>71 DEF Conns
      <3>75. 0 \in 0 .. MaxRequests /\ 0 \in 0 .. 4 /\ 2 \in 0 .. 2 /\ 0 \in 0 .. 2
        OBVIOUS
      <3>8. CASE Malformed(d.rbuf)
        <4>1. e = ReplyError(d)
          BY <3>2, <3>8
        <4>2. /\ e \in Conns /\ SameRequest(d, e) /\ e.wbuf = <<Answer(0, 1, 1)>>
              /\ e.file = d.file /\ e.responding /\ e.closeAfter /\ e.mustClose
          BY <3>1, <4>1, ReplyErrorIs
        <4>3. e.wbuf # <<>>
          BY <4>2
        <4>4. Requests(e, stream)
          BY <4>2, <3>3 DEF Sound, Requests, SameRequest, Ready
        <4>5. Replying(e) /\ Settled(e)
          BY <4>2, <4>3, <3>1, <3>3 DEF Sound, Replying, SameRequest, Ready, Pending, GoesOn, Settled
        <4>6. Answered(e, w) /\ ~GoesOn(e)
          BY <4>2 DEF Answered, GoesOn
        <4>7. Outcome(c, e)
          <5> DEFINE u == <<Answer(0, 1, 1)>>
          <5>1. u \in Seq(OutUnit)
            BY DEF Answer, OutUnit
          <5>2. c.wbuf = <<>> /\ c.file = <<>> /\ e.wbuf = u /\ e.file = <<>>
            BY <1>5, <3>1, <4>2 DEF Pending
          <5> HIDE DEF u
          <5>3. Output(e) = u
            BY <5>1, <5>2, ConcatEmptySeq DEF Output
          <5> QED
            BY <4>2, <5>2, <5>3, <2>1 DEF Outcome, Begins, u
        <4> QED
          BY <4>2, <4>3, <4>4, <4>5, <4>6, <4>7, <3>1, <1>1, <2>1
             DEF Sound, SameRequest, GoesOn, Pending
      <3>9. CASE ~Malformed(d.rbuf) /\ stream[r] = "upload"
        <4> DEFINE m == Streamed(d)
                   b == SubSeq(d.rbuf, 3, Len(d.rbuf))
                   z == Before(m)
        <4>1. e \in Dispatch(m)
          BY <3>2, <3>7, <3>9
        <4>2. b \in Seq(InUnit) /\ Len(b) <= Len(d.rbuf)
          BY <1>1, <3>1, <3>6, SubSeqProperties, ElementOfSeq
        <4>3. d.rbuf[1].req \in 1 .. MaxRequests
          BY <3>7, <3>72
        <4>4. /\ m \in Conns /\ m.request = r /\ m.parsed = 0 /\ m.mustClose /\ m.body = 2
              /\ m.rbuf = b
              /\ m.open = d.open /\ m.shut = d.shut /\ m.closeAfter = d.closeAfter
              /\ m.responding = d.responding /\ m.dispatched = d.dispatched
              /\ m.saving = d.saving /\ m.seen = d.seen /\ m.handled = d.handled
              /\ m.wbuf = d.wbuf /\ m.file = d.file
          BY <3>7, <3>71, <4>2, <4>3, StreamedIs
        <4> HIDE DEF m, b
        <4>5. Sound(z, stream, w)
          <5>1. /\ z \in Conns /\ z.request = 0 /\ z.parsed = 0 /\ z.body = 0
                /\ z.open = d.open /\ z.shut = d.shut /\ z.closeAfter = d.closeAfter
                /\ z.responding = d.responding /\ z.dispatched = d.dispatched
                /\ z.saving = d.saving /\ z.seen = d.seen /\ z.handled = d.handled
                /\ z.wbuf = d.wbuf /\ z.file = d.file
            BY <4>4, BeforeIs
          <5> HIDE DEF z
          <5>2. d.request = 0
            BY <1>5, <3>1 DEF Ready
          <5>3. Requests(z, stream)
            BY <5>1, <5>2, <3>3 DEF Sound, Requests, Ready
          <5>4. Replying(z)
            BY <5>1, <5>2, <3>3, <3>1, <2>1 DEF Sound, Replying, Ready, Pending, GoesOn
          <5>5. Answered(z, w)
            BY <5>1, <3>3, <3>1, <2>1 DEF Sound, Answered, GoesOn
          <5> QED
            BY <5>1, <5>3, <5>4, <5>5 DEF Sound
        <4>6. Arrived(m, stream, w)
          <5>1. ~d.dispatched /\ ~d.saving
            BY <1>5, <3>1, <3>3 DEF Sound, Requests, Ready
          <5> QED
            BY <4>4, <4>5, <5>1, <3>1, <3>3, <3>6, <3>9, <2>1 DEF Arrived, GoesOn, r
        <4>7. /\ Sound(e, stream, w) /\ Settled(e) /\ e.open /\ ~e.shut
              /\ e.rbuf = m.rbuf /\ e.request = m.request /\ FirstUnit(e) = Unit(r, 3)
          BY <4>1, <4>4, <4>6, DispatchSound
        <4>8. Chain(stream, sent, Unit(r, 3), e.rbuf \o q)
          <5>1. Parts(stream[r]) = 4
            BY <3>9 DEF Parts
          <5>2. Chain(stream, sent, IF 2 = Parts(stream[r]) THEN Unit(r + 1, 1) ELSE Unit(r, 2 + 1),
                      SubSeq(d.rbuf, 2 + 1, Len(d.rbuf)) \o q)
            <6>1. d.rbuf \in Seq(InUnit) /\ 2 \in 0 .. Parts(stream[r]) /\ 2 <= Len(d.rbuf)
              BY <5>1, <1>1, <3>1, <3>6
            <6> QED
              BY <6>1, <3>4, <3>5, ChainConsume
          <5> QED
            BY <5>1, <5>2, <4>4, <4>7 DEF b
        <4>9. ASSUME "large" \notin Replies PROVE Outcome(c, e)
          <5>1. Outcome(m, e)
            BY <4>1, <4>6, <4>9, DispatchSound
          <5> QED
            BY <4>4, <3>1, <2>1, <5>1 DEF Outcome, SameOutput, Begins, GoesOn
        <4>10. Ready(e)
          BY <4>4, <4>7, <3>72 DEF Ready
        <4> QED
          BY <4>2, <4>4, <4>7, <4>8, <4>9, <4>10, <3>1, <2>1 DEF GoesOn
      <3>10. CASE ~Malformed(d.rbuf) /\ stream[r] # "upload" /\ Complete(d.rbuf)
        <4> DEFINE m == InMemory(d)
                   z == Before(m)
        <4>1. e \in Dispatch(m)
          BY <3>2, <3>7, <3>10
        <4>2. d.rbuf[1].req \in 1 .. MaxRequests
          BY <3>7, <3>72
        <4>3. Parts(stream[r]) \in 2 .. 4 /\ Len(d.rbuf) >= Parts(stream[r])
          BY <3>7, <3>10, PartsIs DEF Complete
        <4>4. /\ m \in Conns /\ m.request = r /\ m.parsed = Parts(stream[r])
              /\ m.rbuf = d.rbuf /\ m.body = d.body
              /\ m.open = d.open /\ m.shut = d.shut /\ m.closeAfter = d.closeAfter
              /\ m.responding = d.responding /\ m.dispatched = d.dispatched
              /\ m.saving = d.saving /\ m.seen = d.seen /\ m.handled = d.handled
              /\ m.wbuf = d.wbuf /\ m.file = d.file
          BY <3>7, <3>71, <4>2, InMemoryIs
        <4> HIDE DEF m
        <4>5. d.request = 0 /\ d.body = 0 /\ ~d.dispatched /\ d.parsed = 0
          BY <1>5, <3>1, <3>3 DEF Sound, Requests, Ready
        <4>6. Sound(z, stream, w)
          <5>1. /\ z \in Conns /\ z.request = 0 /\ z.parsed = 0 /\ z.body = 0
                /\ z.open = d.open /\ z.shut = d.shut /\ z.closeAfter = d.closeAfter
                /\ z.responding = d.responding /\ z.dispatched = d.dispatched
                /\ z.saving = d.saving /\ z.seen = d.seen /\ z.handled = d.handled
                /\ z.wbuf = d.wbuf /\ z.file = d.file
            BY <4>4, BeforeIs
          <5> HIDE DEF z
          <5>2. Requests(z, stream)
            BY <5>1, <4>5, <3>3 DEF Sound, Requests, Ready
          <5>3. Replying(z)
            BY <5>1, <4>5, <3>3, <3>1, <2>1 DEF Sound, Replying, Ready, Pending, GoesOn
          <5>4. Answered(z, w)
            BY <5>1, <3>3, <3>1, <2>1 DEF Sound, Answered, GoesOn
          <5> QED
            BY <5>1, <5>2, <5>3, <5>4 DEF Sound
        <4>7. Arrived(m, stream, w)
          BY <4>3, <4>4, <4>5, <4>6, <3>1, <3>3, <3>6, <2>1 DEF Arrived, GoesOn, r
        <4>8. /\ Sound(e, stream, w) /\ Settled(e) /\ e.open /\ ~e.shut
              /\ e.rbuf = m.rbuf /\ e.request = m.request /\ FirstUnit(e) = Unit(r, 1)
          BY <4>1, <4>3, <4>4, <4>7, DispatchSound
        <4>9. ASSUME "large" \notin Replies PROVE Outcome(c, e)
          <5>1. Outcome(m, e)
            BY <4>1, <4>7, <4>9, DispatchSound
          <5> QED
            BY <4>4, <3>1, <2>1, <5>1 DEF Outcome, SameOutput, Begins, GoesOn
        <4>10. Ready(e)
          BY <4>4, <4>8, <3>72 DEF Ready
        <4> QED
          BY <4>4, <4>8, <4>9, <4>10, <3>1, <3>5, <1>1, <2>1 DEF GoesOn
      <3>11. CASE ~Malformed(d.rbuf) /\ stream[r] # "upload" /\ ~Complete(d.rbuf)
        <4>1. e = d
          BY <3>2, <3>7, <3>11
        <4>2. Outcome(c, e)
          BY <4>1, <3>1, <2>1 DEF Outcome, SameOutput
        <4> QED
          BY <4>1, <4>2, <3>1, <3>3, <3>4, <3>5, <3>12, <1>1, <2>1 DEF GoesOn
      <3> QED
        BY <3>8, <3>9, <3>10, <3>11
    <2> QED
      BY <2>2, <2>3
  <1> QED
    BY <1>3, <1>4, <1>5

(***************************************************************************)
(* The steps.                                                              *)
(***************************************************************************)

\* No request is dispatched once the connection is to be closed.
SeenKept == conn.closeAfter \/ conn.shut => conn'.seen = conn.seen

\* A closed connection keeps only its history.
LEMMA CloseIs ==
  ASSUME NEW c \in Conns
  PROVE  /\ Close(c) \in Conns
         /\ ~Close(c).open /\ Close(c).seen = c.seen /\ Close(c).handled = c.handled
         /\ Close(c).rbuf = <<>> /\ Close(c).wbuf = <<>> /\ Close(c).file = <<>>
         /\ Close(c).request = 0 /\ ~Close(c).dispatched /\ ~Close(c).responding
         /\ ~Close(c).closeAfter /\ ~Close(c).shut /\ ~Close(c).saving
         /\ Close(c).parsed = 0 /\ Close(c).body = 0
  <1>1. /\ 0 \in 0 .. MaxRequests /\ 0 \in 0 .. 4 /\ 0 \in 0 .. 2 /\ 0 \in 0 .. KeepAliveMax
        /\ 0 \in 0 .. Longest
    BY LongestIs
  <1>2. <<>> \in Seq(InUnit) /\ <<>> \in Seq(OutUnit) /\ <<>> \in Seq(1 .. MaxRequests)
    BY EmptySeq
  <1>3. Fresh \in Conns
    BY <1>1, <1>2 DEF Fresh, Conns
  <1>4. /\ ~Fresh.shut /\ Fresh.rbuf = <<>> /\ Fresh.wbuf = <<>> /\ Fresh.file = <<>>
        /\ Fresh.request = 0 /\ ~Fresh.dispatched /\ ~Fresh.responding
        /\ ~Fresh.closeAfter /\ ~Fresh.saving /\ Fresh.parsed = 0 /\ Fresh.body = 0
    BY DEF Fresh
  <1> QED
    BY <1>3, <1>4 DEF Close, Conns

\* An entry made for the connection as it is now, and the events it needs.
LEMMA TimersSynced ==
  ASSUME conn' \in Conns, timer' = Due(conn'), armed' = Pending(conn'), pc' # "wait",
         pc' = "write" => Settled(conn') /\ ~conn'.shut
  PROVE  Timers' /\ timer' \in (- Longest) .. NoTimer /\ armed' \in BOOLEAN
  <1>1. Due(conn') \in (- Longest) .. Longest /\ Longest \in Nat
    BY DueIs, LongestIs
  <1>2. timer' \in (- Longest) .. NoTimer /\ timer' # NoTimer
    BY <1>1 DEF NoTimer
  <1>3. Pending(conn') \in BOOLEAN
    BY DEF Pending
  <1>4. Timers'
    BY <1>2 DEF Timers, TimerValid, Settled
  <1> QED
    BY <1>2, <1>3, <1>4

\* The connection is closed, for whatever reason, be it after some output.
LEMMA ClosedAfter ==
  ASSUME IInv, NEW c \in Conns, c.seen = conn.seen, conn' = Close(c),
         Sync, pc' = "expire", out' \in BOOLEAN, inq' \in Seq(InUnit),
         wire' \in Seq(OutUnit), unread' \in 0 .. SendBuffer,
         UNCHANGED clientVars
  PROVE  IInv' /\ SeenKept
  <1>1. /\ conn' \in Conns /\ ~conn'.open /\ conn'.seen = conn.seen
        /\ conn'.rbuf = <<>> /\ conn'.wbuf = <<>> /\ conn'.file = <<>>
        /\ conn'.request = 0 /\ ~conn'.dispatched /\ ~conn'.responding
        /\ ~conn'.closeAfter /\ ~conn'.shut /\ ~conn'.saving
        /\ conn'.parsed = 0 /\ conn'.body = 0
    BY CloseIs
  <1>2. timer' = NoTimer /\ ~armed'
    BY <1>1 DEF Sync, Schedule, Pending
  <1>21. armed' \in BOOLEAN
    BY DEF Sync, Pending
  <1>3. Shape'
    <2>1. NoTimer \in (- Longest) .. NoTimer
      BY LongestIs DEF NoTimer
    <2>2. Len(conn'.rbuf) <= MaxRead
      BY <1>1, EmptySeq
    <2>3. /\ stream' = stream /\ sent' = sent /\ client' = client
          /\ wire' \in Seq(OutUnit) /\ unread' \in 0 .. SendBuffer
      BY DEF clientVars
    <2>4. timer' \in (- Longest) .. NoTimer /\ armed' \in BOOLEAN /\ pc' = "expire"
      BY <1>2, <1>21, <2>1
    <2>5. /\ stream \in Seq(Kinds) /\ Len(stream) <= MaxRequests
          /\ sent \in 0 .. 4 /\ SentOf(stream, sent)
          /\ client \in {"active", "silent", "gone"}
      BY DEF IInv, Shape
    <2> QED
      BY <2>2, <2>3, <2>4, <2>5 DEF Shape
  <1>4. Requests(conn', stream')
    <2>1. (\A i \in DOMAIN conn.seen : conn.seen[i] = i) /\ Len(conn.seen) <= KeepAliveMax
      BY DEF IInv, Sound, Requests
    <2> QED
      BY <1>1, <2>1 DEF Requests, Ready
  <1>5. Replying(conn') /\ Settled(conn')
    BY <1>1 DEF Replying, Settled, Pending, Ready, GoesOn
  <1>6. Answered(conn', wire') /\ ~GoesOn(conn')
    BY <1>1 DEF Answered, GoesOn
  <1>7. Worker' /\ Timers' /\ Aligned'
    BY <1>1, <1>2, <1>5, <1>6 DEF Worker, Timers, Aligned
  <1> QED
    BY <1>1, <1>3, <1>4, <1>5, <1>6, <1>7 DEF IInv, Sound, SeenKept

\* The connection is closed with nothing said.
LEMMA ClosedStep ==
  ASSUME IInv, NEW c \in Conns, c.seen = conn.seen, conn' = Close(c),
         Sync, pc' = "expire", out' \in BOOLEAN, inq' \in Seq(InUnit),
         UNCHANGED <<clientVars, wire, unread>>
  PROVE  IInv' /\ SeenKept
  <1>1. wire' \in Seq(OutUnit) /\ unread' \in 0 .. SendBuffer /\ UNCHANGED clientVars
    BY DEF IInv, Shape
  <1> QED
    BY <1>1, ClosedAfter

\* Requests taken in hand stay what they were when the client sends another.
LEMMA RequestsGrow ==
  ASSUME NEW s \in Seq(Kinds), NEW s2 \in Seq(Kinds),
         s2 = s \/ \E kind \in Kinds : s2 = Append(s, kind),
         NEW c \in Conns, Requests(c, s)
  PROVE  Requests(c, s2)
  <1>1. Len(s) \in Nat /\ Len(s2) \in Nat /\ Len(s) <= Len(s2)
    BY LenProperties, AppendProperties
  <1>2. \A r \in 1 .. Len(s) : s2[r] = s[r]
    BY AppendProperties, <1>1
  <1>3. Ready(c) => c.request \in 1 .. Len(s)
    BY <1>1 DEF Requests, Ready, Conns
  <1>4. Ready(c) => s2[c.request] = s[c.request] /\ c.request <= Len(s2)
    BY <1>1, <1>2, <1>3
  <1> QED
    BY <1>4 DEF Requests

\* The client sends: the input grows at its end.
LEMMA SendsStep ==
  ASSUME IInv, NEW kind \in Kinds, ClientSends(kind)
  PROVE  IInv' /\ SeenKept
  <1> DEFINE x == Unit(Len(stream'), sent')
  <1>1. /\ stream \in Seq(Kinds) /\ Len(stream) <= MaxRequests /\ Len(stream) \in Nat
        /\ sent \in 0 .. 4 /\ SentOf(stream, sent) /\ inq \in Seq(InUnit)
        /\ conn \in Conns
    BY LenProperties DEF IInv, Shape, Sound
  <1>2. /\ inq' = Append(inq, x)
        /\ UNCHANGED <<client, wire, unread, conn, timer, armed, pc, out>>
    BY DEF ClientSends, server
  <1>3. stream # <<>> => Len(stream) \in 1 .. MaxRequests /\ Last(stream) = stream[Len(stream)]
    BY <1>1, EmptySeq DEF Last
  <1>4. /\ stream' \in Seq(Kinds) /\ Len(stream') \in 1 .. MaxRequests
        /\ sent' \in 1 .. 4 /\ SentOf(stream', sent')
        /\ \/ /\ stream # <<>> => sent = Parts(stream[Len(stream)])
              /\ stream' = Append(stream, kind) /\ sent' = 1
           \/ /\ stream # <<>> /\ sent # Parts(stream[Len(stream)])
              /\ stream' = stream /\ sent' = sent + 1
    <2>1. CASE BetweenRequests
      <3>1. /\ stream' = Append(stream, kind) /\ sent' = 1 /\ Len(stream) < MaxRequests
            /\ stream # <<>> => sent = Parts(stream[Len(stream)])
        BY <2>1, <1>3 DEF ClientSends, BetweenRequests
      <3>2. /\ stream' \in Seq(Kinds) /\ Len(stream') = Len(stream) + 1 /\ stream' # <<>>
        BY <3>1, <1>1, AppendProperties
      <3>3. Parts(stream'[Len(stream')]) \in 2 .. 4
        BY PartsIs
      <3> QED
        BY <3>1, <3>2, <3>3, <1>1 DEF SentOf
    <2>2. CASE ~BetweenRequests
      <3>1. /\ stream' = stream /\ sent' = sent + 1 /\ stream # <<>>
            /\ sent # Parts(stream[Len(stream)])
        BY <2>2, <1>3 DEF ClientSends, BetweenRequests
      <3>2. Parts(stream[Len(stream)]) \in 2 .. 4 /\ sent \in 1 .. Parts(stream[Len(stream)])
        BY <3>1, <1>1, PartsIs DEF SentOf
      <3>3. sent + 1 \in 1 .. Parts(stream[Len(stream)]) /\ sent + 1 \in 1 .. 4
        BY <3>1, <3>2
      <3> QED
        BY <3>1, <3>3, <1>1, <1>3 DEF SentOf
    <2> QED
      BY <2>1, <2>2
  <1>5. x \in InUnit
    BY <1>4 DEF Unit, InUnit
  <1>6. inq' \in Seq(InUnit)
    BY <1>1, <1>2, <1>5, AppendProperties
  <1>7. Shape'
    BY <1>1, <1>2, <1>4, <1>6 DEF IInv, Shape
  <1>8. Sound(conn', stream', wire')
    <2>1. Requests(conn, stream')
      BY <1>1, <1>4, RequestsGrow DEF IInv, Sound
    <2> QED
      BY <1>2, <2>1 DEF IInv, Sound
  <1>9. Aligned'
    <2> SUFFICES ASSUME GoesOn(conn)
                 PROVE  Chain(stream', sent', FirstUnit(conn), conn.rbuf \o inq')
      BY <1>2 DEF Aligned
    <2>1. Chain(stream, sent, FirstUnit(conn), conn.rbuf \o inq)
      BY DEF IInv, Aligned
    <2>2. conn.rbuf \in Seq(InUnit) /\ conn.rbuf \o inq \in Seq(InUnit)
      BY <1>1, ConcatProperties DEF Conns
    <2>3. conn.rbuf \o Append(inq, x) = Append(conn.rbuf \o inq, x)
      <3> DEFINE y == <<x>>
                 b == conn.rbuf
      <3>1. y \in Seq(InUnit)
        BY <1>5
      <3>2. Append(inq, x) = inq \o y /\ Append(b \o inq, x) = (b \o inq) \o y
        BY <1>1, <1>5, <2>2, AppendIsConcat
      <3>3. inq \in Seq(InUnit) /\ b \in Seq(InUnit)
        BY <1>1, <2>2
      <3> HIDE DEF x, y, b
      <3>4. (b \o inq) \o y = b \o (inq \o y)
        BY <3>1, <3>3, ConcatAssociative, SMTT(30)
      <3>5. b \o Append(inq, x) = Append(b \o inq, x)
        BY <3>2, <3>4
      <3> QED
        BY <3>5 DEF b
    <2>4. sent' \in 0 .. 4
      BY <1>4
    <2>5. Chain(stream', sent', FirstUnit(conn), Append(conn.rbuf \o inq, x))
      BY <1>1, <1>4, <1>5, <2>1, <2>2, <2>4, ChainSent
    <2> QED
      BY <1>2, <2>3, <2>5
  <1>10. Worker' /\ Timers'
    BY <1>2 DEF IInv, Worker, Timers, TimerValid, TimerLost
  <1> QED
    BY <1>2, <1>7, <1>8, <1>9, <1>10 DEF IInv, SeenKept

\* The client reads, closes or falls silent.
LEMMA ClientStepInv ==
  ASSUME IInv, ClientReads \/ ClientStops
  PROVE  IInv' /\ SeenKept
  <1>1. /\ UNCHANGED <<stream, sent, inq, wire, server>>
        /\ client' \in {"active", "silent", "gone"}
        /\ unread' \in 0 .. SendBuffer
    BY DEF ClientReads, ClientStops, clientVars, IInv, Shape
  <1>2. UNCHANGED <<conn, timer, armed, pc, out>>
    BY <1>1 DEF server
  <1>3. Shape'
    BY <1>1, <1>2 DEF IInv, Shape
  <1>4. Aligned' /\ Worker' /\ Timers' /\ Sound(conn', stream', wire')
    BY <1>1, <1>2 DEF IInv, Aligned, Worker, Timers, TimerValid, TimerLost
  <1> QED
    BY <1>2, <1>3, <1>4 DEF IInv, SeenKept

\* The server's own error leaves a connection sound that ends.
LEMMA ErrorSound ==
  ASSUME NEW s, NEW w, NEW c, Sound(c, s, w), c.open, ~c.shut, ~c.saving
  PROVE  /\ Sound(ReplyError(c), s, w) /\ Settled(ReplyError(c))
         /\ SameRequest(c, ReplyError(c)) /\ ~GoesOn(ReplyError(c))
         /\ Pending(ReplyError(c))
  <1> DEFINE e == ReplyError(c)
  <1>1. /\ e \in Conns /\ SameRequest(c, e) /\ e.wbuf = <<Answer(0, 1, 1)>>
        /\ e.file = c.file /\ e.responding /\ e.closeAfter /\ e.mustClose
    BY ReplyErrorIs DEF Sound
  <1> HIDE DEF e
  <1>2. e.wbuf # <<>>
    BY <1>1
  <1>3. Requests(e, s)
    BY <1>1 DEF Sound, Requests, SameRequest, Ready
  <1>4. Replying(e) /\ Settled(e) /\ Pending(e)
    BY <1>1, <1>2 DEF Sound, Replying, SameRequest, Ready, Pending, GoesOn, Settled
  <1>5. Answered(e, w) /\ ~GoesOn(e)
    BY <1>1 DEF Answered, GoesOn
  <1> QED
    BY <1>1, <1>3, <1>4, <1>5 DEF Sound, e

\* A step after which the timer and the events are up to date.
LEMMA SyncedStep ==
  ASSUME IInv, UNCHANGED <<clientVars, wire, unread>>, inq' \in Seq(InUnit),
         Sound(conn', stream, wire), Settled(conn'), conn'.open, Len(conn'.rbuf) <= MaxRead,
         GoesOn(conn') => Chain(stream, sent, FirstUnit(conn'), conn'.rbuf \o inq'),
         timer' = Due(conn'), armed' = Pending(conn'),
         pc' \in {"expire", "read", "write", "save"}, out' \in BOOLEAN,
         pc' = "save" <=> conn'.saving,
         conn'.shut => pc' \in {"expire", "read"} /\ ~out'
  PROVE  IInv'
  <1>1. /\ stream' = stream /\ sent' = sent /\ client' = client /\ wire' = wire
        /\ unread' = unread
    BY DEF clientVars
  <1>2. conn' \in Conns
    BY DEF Sound
  <1>3. /\ stream \in Seq(Kinds) /\ Len(stream) <= MaxRequests
        /\ sent \in 0 .. 4 /\ SentOf(stream, sent)
        /\ client \in {"active", "silent", "gone"}
        /\ wire \in Seq(OutUnit)
        /\ unread \in 0 .. SendBuffer
    BY DEF IInv, Shape
  <1>4. Timers' /\ timer' \in (- Longest) .. NoTimer /\ armed' \in BOOLEAN
    <2>1. pc' # "wait" /\ (pc' = "write" => Settled(conn') /\ ~conn'.shut)
      OBVIOUS
    <2> QED
      BY <1>2, <2>1, TimersSynced
  <1>5. Shape'
    BY <1>1, <1>3, <1>4 DEF Shape
  <1>6. Worker'
    <2>1. conn'.shut => ~armed'
      BY DEF Sound, Replying
    <2> QED
      BY <2>1 DEF Worker
  <1>7. Aligned' /\ Sound(conn', stream', wire')
    BY <1>1 DEF Aligned
  <1> QED
    BY <1>4, <1>5, <1>6, <1>7 DEF IInv

\* A timeout ends the connection, or begins the 408 that does.
LEMMA ExpireStep ==
  ASSUME IInv, Expire
  PROVE  IInv' /\ SeenKept
  <1>1. /\ conn \in Conns /\ Sound(conn, stream, wire) /\ conn.open /\ ~conn.saving
        /\ inq \in Seq(InUnit) /\ out \in BOOLEAN /\ Len(conn.rbuf) <= MaxRead
    BY DEF IInv, Sound, Expire, Worker, Shape
  <1>2. CASE conn' = Close(conn) /\ UNCHANGED <<inq, pc>>
    <2>1. pc' = "expire" /\ Sync /\ out' \in BOOLEAN /\ inq' \in Seq(InUnit)
          /\ UNCHANGED <<clientVars, wire, unread>>
      BY <1>1, <1>2 DEF Expire
    <2> QED
      BY <1>1, <1>2, <2>1, ClosedStep
  <1>3. CASE ~Abandon(conn) /\ conn' = ReplyError(conn) /\ inq' = <<>> /\ pc' = "write"
    <2>1. ~conn.shut
      BY <1>3 DEF Abandon
    <2>2. /\ Sound(conn', stream, wire) /\ Settled(conn') /\ SameRequest(conn, conn')
          /\ ~GoesOn(conn')
      BY <1>1, <1>3, <2>1, ErrorSound
    <2>3. timer' = Due(conn') /\ armed' = Pending(conn') /\ out' \in BOOLEAN
          /\ UNCHANGED <<clientVars, wire, unread>>
      BY <1>1, <2>2 DEF Expire, Sync, Schedule, SameRequest
    <2>4. /\ inq' \in Seq(InUnit) /\ conn'.open /\ ~conn'.shut /\ ~conn'.saving
          /\ conn'.seen = conn.seen /\ Len(conn'.rbuf) <= MaxRead
      BY <1>1, <1>3, <2>1, <2>2 DEF SameRequest
    <2>5. IInv'
      BY <1>3, <2>2, <2>3, <2>4, SyncedStep
    <2> QED
      BY <2>4, <2>5 DEF SeenKept
  <1> QED
    BY <1>2, <1>3 DEF Expire

\* The worker waits with an entry that is valid, or with none.
LEMMA StartWaitStep ==
  ASSUME IInv, StartWait
  PROVE  IInv' /\ SeenKept
  <1>1. /\ stream' = stream /\ sent' = sent /\ client' = client /\ inq' = inq
        /\ wire' = wire /\ unread' = unread /\ conn' = conn /\ armed' = armed /\ out' = out
        /\ pc' = "wait" /\ pc = "expire" /\ conn.open
        /\ timer' = IF TimerValid THEN timer ELSE NoTimer
    BY DEF StartWait, clientVars
  <1>2. Longest \in Nat /\ NoTimer \in (- Longest) .. NoTimer /\ timer \in (- Longest) .. NoTimer
    BY LongestIs DEF NoTimer, IInv, Shape
  <1>3. Shape'
    BY <1>1, <1>2 DEF IInv, Shape
  <1>4. Worker' /\ Aligned' /\ Sound(conn', stream', wire')
    BY <1>1 DEF IInv, Worker, Aligned
  <1>5. Timers'
    <2>1. TimerValid => timer >= 1
      BY <1>2 DEF StartWait, TimedOut
    <2>2. TimerValid \/ TimerLost
      BY <1>1 DEF IInv, Timers
    <2>3. (TimerValid => TimerValid') /\ (TimerLost => TimerLost')
      BY <1>1 DEF TimerValid, TimerLost
    <2>4. timer' # NoTimer => timer' >= 1
      BY <1>1, <2>1
    <2> QED
      BY <1>1, <2>2, <2>3, <2>4 DEF IInv, Timers
  <1> QED
    BY <1>1, <1>3, <1>4, <1>5 DEF IInv, SeenKept

\* The client closed its end.
LEMMA HangupStep ==
  ASSUME IInv, Hangup
  PROVE  IInv' /\ SeenKept
  <1>1. /\ conn \in Conns /\ inq' \in Seq(InUnit) /\ out' \in BOOLEAN
        /\ conn' = Close(conn) /\ Sync /\ pc' = "expire"
        /\ UNCHANGED <<clientVars, wire, unread>>
    BY DEF IInv, Sound, Shape, Hangup
  <1> QED
    BY <1>1, ClosedStep

\* An event is reported.
LEMMA EventStep ==
  ASSUME IInv, Event
  PROVE  IInv' /\ SeenKept
  <1>1. /\ stream' = stream /\ sent' = sent /\ client' = client /\ inq' = inq
        /\ wire' = wire /\ unread' = unread /\ conn' = conn /\ armed' = armed
        /\ timer' = timer /\ pc = "wait"
        /\ pc' = IF Readable THEN "read" ELSE "write"
        /\ out' = (Readable /\ Writable)
        /\ Readable \/ Writable
    BY DEF Event, clientVars
  <1>2. conn.open /\ ~conn.saving /\ Settled(conn)
    BY <1>1 DEF IInv, Worker
  <1>3. Shape'
    <2>1. out' \in BOOLEAN
      BY <1>1 DEF Readable, Writable
    <2> QED
      BY <1>1, <2>1 DEF IInv, Shape
  <1>4. Worker'
    <2>1. conn.shut => ~Writable
      BY DEF IInv, Worker, Writable
    <2> QED
      BY <1>1, <1>2, <2>1 DEF IInv, Worker
  <1>5. Timers'
    <2>1. (TimerValid' <=> TimerValid) /\ (TimerLost' <=> TimerLost)
      BY <1>1 DEF TimerValid, TimerLost
    <2>2. pc' = "write" => armed
      BY <1>1 DEF Writable
    <2> QED
      BY <1>1, <1>2, <2>1, <2>2 DEF IInv, Timers
  <1>6. Aligned' /\ Sound(conn', stream', wire')
    BY <1>1 DEF IInv, Aligned
  <1> QED
    BY <1>1, <1>3, <1>4, <1>5, <1>6 DEF IInv, SeenKept

\* The two ages of a connection that nothing else happens to.
Aged(c) == [c EXCEPT !.idleAge = Older(@), !.phaseAge = Older(@)]

\* A tick changes nothing but the ages.
LEMMA AgedIs ==
  ASSUME NEW c \in Conns
  PROVE  /\ Aged(c) \in Conns
         /\ Aged(c).wbuf = c.wbuf /\ Aged(c).file = c.file
         /\ Aged(c).responding = c.responding /\ Aged(c).closeAfter = c.closeAfter
         /\ Aged(c).mustClose = c.mustClose
         /\ Aged(c).idleAge = Older(c.idleAge) /\ Aged(c).phaseAge = Older(c.phaseAge)
         /\ Aged(c).open = c.open /\ Aged(c).rbuf = c.rbuf /\ Aged(c).request = c.request
         /\ Aged(c).dispatched = c.dispatched /\ Aged(c).started = c.started
         /\ Aged(c).headers = c.headers /\ Aged(c).shut = c.shut
         /\ Aged(c).parsed = c.parsed /\ Aged(c).body = c.body
         /\ Aged(c).saving = c.saving /\ Aged(c).handled = c.handled
         /\ Aged(c).seen = c.seen
  <1>1. Older(c.idleAge) \in 0 .. Longest /\ Older(c.phaseAge) \in 0 .. Longest
    BY OlderIs DEF Conns
  <1>2. Aged(c) \in Conns
    BY <1>1 DEF Aged, Conns
  <1> QED
    BY <1>2 DEF Aged, Conns

\* Time passes: an entry that counted goes on counting.
LEMMA TickStep ==
  ASSUME IInv, Tick
  PROVE  IInv' /\ SeenKept
  <1>1. /\ stream' = stream /\ sent' = sent /\ client' = client /\ inq' = inq
        /\ wire' = wire /\ unread' = unread /\ conn' = Aged(conn) /\ armed' = armed
        /\ out' = out /\ pc = "wait" /\ pc' = "expire"
        /\ timer' = IF timer = NoTimer THEN NoTimer ELSE timer - 1
    BY DEF Tick, clientVars, Aged
  <1>2. conn \in Conns /\ Sound(conn, stream, wire) /\ conn.open /\ ~conn.saving /\ Settled(conn)
    BY <1>1 DEF IInv, Sound, Worker
  <1> DEFINE c == conn
             d == Aged(c)
  <1>3. /\ d \in Conns /\ d.wbuf = c.wbuf /\ d.file = c.file
        /\ d.responding = c.responding /\ d.closeAfter = c.closeAfter
        /\ d.mustClose = c.mustClose
        /\ d.idleAge = Older(c.idleAge) /\ d.phaseAge = Older(c.phaseAge)
        /\ d.open = c.open /\ d.rbuf = c.rbuf /\ d.request = c.request
        /\ d.dispatched = c.dispatched /\ d.started = c.started
        /\ d.headers = c.headers /\ d.shut = c.shut
        /\ d.parsed = c.parsed /\ d.body = c.body
        /\ d.saving = c.saving /\ d.handled = c.handled /\ d.seen = c.seen
    BY <1>2, AgedIs
  <1>4. conn' = d
    BY <1>1
  <1> HIDE DEF d
  <1>5. Sound(d, stream, wire) /\ Settled(d) /\ FirstUnit(d) = FirstUnit(c)
        /\ (GoesOn(d) <=> GoesOn(c))
    <2>1. Requests(d, stream)
      BY <1>2, <1>3 DEF Sound, Requests, Ready
    <2>2. Replying(d) /\ Settled(d)
      BY <1>2, <1>3 DEF Sound, Replying, Settled, Ready, Pending, GoesOn
    <2>3. Answered(d, wire)
      BY <1>2, <1>3 DEF Sound, Answered, GoesOn
    <2> QED
      BY <1>3, <2>1, <2>2, <2>3 DEF Sound, FirstUnit, Ready, GoesOn
  <1>6. timer # NoTimer => timer >= 1
    BY <1>1, <1>2 DEF IInv, Timers
  <1>7. Longest \in Nat /\ NoTimer = Longest + 1 /\ timer \in (- Longest) .. NoTimer
    BY LongestIs DEF IInv, Shape, NoTimer
  <1>8. timer' \in (- Longest) .. NoTimer
    BY <1>1, <1>6, <1>7
  <1>9. Shape'
    BY <1>1, <1>3, <1>4, <1>8 DEF IInv, Shape
  <1>10. Worker'
    BY <1>1, <1>2, <1>3, <1>4, <1>5 DEF IInv, Worker
  <1>11. Timers'
    <2>1. Pending(d) <=> Pending(c)
      BY <1>3 DEF Pending
    <2>2. TimerValid => TimerValid'
      <3> SUFFICES ASSUME TimerValid PROVE TimerValid'
        OBVIOUS
      <3>1. timer = Due(c) /\ timer # NoTimer /\ Due(c) >= 1 /\ timer' = timer - 1
        BY <1>1, <1>6 DEF TimerValid
      <3>2. (Phase(d) <=> Phase(c)) /\ PhaseTimeout(d) = PhaseTimeout(c)
        BY <1>3 DEF Phase, PhaseTimeout, Ready
      <3>3. Due(d) = Due(c) - 1
        BY <1>2, <1>3, <2>1, <3>1, <3>2, DueTicks
      <3>4. timer' # NoTimer
        BY <1>7, <3>1
      <3> QED
        BY <1>4, <3>1, <3>3, <3>4 DEF TimerValid
    <2>3. TimerLost => TimerLost'
      BY <1>1, <1>3, <1>4, <2>1 DEF TimerLost, Ready
    <2> QED
      BY <1>1, <1>2, <1>3, <1>4, <2>1, <2>2, <2>3 DEF IInv, Timers
  <1>12. Aligned' /\ Sound(conn', stream', wire')
    BY <1>1, <1>3, <1>4, <1>5 DEF IInv, Aligned
  <1> QED
    BY <1>3, <1>4, <1>9, <1>10, <1>11, <1>12 DEF IInv, SeenKept

\* A connection that has begun to receive its next request.
Begun(c) == IF c.started THEN c ELSE [c EXCEPT !.started = TRUE, !.phaseAge = 0]

\* The first input of a request begins its phase, and no more.
LEMMA BegunIs ==
  ASSUME NEW c \in Conns
  PROVE  /\ Begun(c) \in Conns
         /\ Begun(c).open = c.open /\ Begun(c).rbuf = c.rbuf /\ Begun(c).request = c.request
         /\ Begun(c).dispatched = c.dispatched /\ Begun(c).shut = c.shut
         /\ Begun(c).parsed = c.parsed /\ Begun(c).body = c.body
         /\ Begun(c).saving = c.saving /\ Begun(c).handled = c.handled
         /\ Begun(c).seen = c.seen /\ Begun(c).wbuf = c.wbuf /\ Begun(c).file = c.file
         /\ Begun(c).responding = c.responding /\ Begun(c).closeAfter = c.closeAfter
         /\ Begun(c).mustClose = c.mustClose
  <1>1. 0 \in 0 .. Longest
    BY LongestIs
  <1>2. Begun(c) \in Conns
    BY <1>1 DEF Begun, Conns
  <1> QED
    BY <1>2 DEF Begun, Conns

\* A connection with b in its read buffer, some of which just came.
Filled(c, b) == [c EXCEPT !.rbuf = b, !.idleAge = 0]

\* Input that came changes the read buffer, and no more.
LEMMA FilledIs ==
  ASSUME NEW c \in Conns, NEW b \in Seq(InUnit)
  PROVE  /\ Filled(c, b) \in Conns /\ Filled(c, b).rbuf = b
         /\ Filled(c, b).open = c.open /\ Filled(c, b).request = c.request
         /\ Filled(c, b).dispatched = c.dispatched /\ Filled(c, b).shut = c.shut
         /\ Filled(c, b).parsed = c.parsed /\ Filled(c, b).body = c.body
         /\ Filled(c, b).saving = c.saving /\ Filled(c, b).handled = c.handled
         /\ Filled(c, b).seen = c.seen /\ Filled(c, b).wbuf = c.wbuf
         /\ Filled(c, b).file = c.file
         /\ Filled(c, b).responding = c.responding
         /\ Filled(c, b).closeAfter = c.closeAfter /\ Filled(c, b).mustClose = c.mustClose
  <1>1. 0 \in 0 .. Longest
    BY LongestIs
  <1>2. Filled(c, b) \in Conns
    BY <1>1 DEF Filled, Conns
  <1> QED
    BY <1>2 DEF Filled, Conns

\* More input leaves the connection sound.
LEMMA InputSound ==
  ASSUME NEW s, NEW w, NEW c, NEW d, Sound(c, s, w), Settled(c), d \in Conns,
         Len(c.rbuf) \in Nat, Len(d.rbuf) \in Nat, Len(c.rbuf) <= Len(d.rbuf),
         d.open = c.open, d.request = c.request, d.dispatched = c.dispatched,
         d.shut = c.shut, d.parsed = c.parsed, d.body = c.body, d.saving = c.saving,
         d.handled = c.handled, d.seen = c.seen, d.wbuf = c.wbuf, d.file = c.file,
         d.responding = c.responding, d.closeAfter = c.closeAfter,
         d.mustClose = c.mustClose
  PROVE  /\ Sound(d, s, w) /\ Settled(d) /\ FirstUnit(d) = FirstUnit(c)
         /\ (GoesOn(d) <=> GoesOn(c))
  <1>1. c \in Conns /\ Requests(c, s) /\ Replying(c) /\ Answered(c, w)
    BY DEF Sound
  <1>2. Requests(d, s)
    <2>1. c.parsed \in Nat
      BY <1>1, SMTT(30) DEF Conns
    <2>2. Len(c.rbuf) >= c.parsed => Len(d.rbuf) >= c.parsed
      BY <2>1
    <2> QED
      BY <1>1, <2>2 DEF Requests, Ready
  <1>3. Replying(d) /\ Settled(d)
    BY <1>1 DEF Replying, Settled, Ready, Pending, GoesOn
  <1>4. Answered(d, w)
    BY <1>1 DEF Answered, GoesOn
  <1> QED
    BY <1>1, <1>2, <1>3, <1>4 DEF Sound, FirstUnit, Ready, GoesOn

\* What becomes of the worker after an EPOLLIN event.
LEMMA AfterReadIs ==
  ASSUME NEW c, AfterRead(c), out \in BOOLEAN
  PROVE  /\ pc' = IF c.saving THEN "save" ELSE IF out /\ c.open THEN "write" ELSE "expire"
         /\ out' = IF c.saving THEN out ELSE FALSE
         /\ out' \in BOOLEAN
  <1>1. \/ c.saving /\ pc' = "save" /\ out' = out
        \/ ~c.saving /\ out /\ c.open /\ pc' = "write" /\ out' = FALSE
        \/ ~c.saving /\ ~(out /\ c.open) /\ pc' = "expire" /\ out' = FALSE
    BY DEF AfterRead
  <1> QED
    BY <1>1

\* Input is joined in any order.
LEMMA JoinAssociates ==
  \A x, y, z \in Seq(InUnit) : (x \o y) \o z = x \o (y \o z)
  BY ConcatAssociative, SMTT(30)

\* Input is received and processed, or is more than the buffer holds.
LEMMA ReceiveStep ==
  ASSUME IInv, NEW n \in 1 .. Len(inq), Receive(n)
  PROVE  /\ IInv' /\ SeenKept /\ Len(conn'.rbuf) + Len(inq') <= Len(conn.rbuf) + Len(inq)
         /\ \/ /\ Overflows(conn, n) /\ conn'.closeAfter
               /\ conn'.wbuf = <<Answer(0, 1, 1)>> /\ conn'.file = conn.file
            \/ "large" \notin Replies => Outcome(conn, conn')
  <1> DEFINE a == SubSeq(inq, 1, n)
             q == SubSeq(inq, n + 1, Len(inq))
             c == Begun(conn)
             b == conn.rbuf \o a
             d == Filled(c, b)
  <1>1. /\ pc = "read" /\ ~conn.shut /\ inq' = q
        /\ IF Overflows(c, n) THEN conn' = ReplyTooLarge(c)
           ELSE \E x \in {[c EXCEPT !.rbuf = @ \o a, !.idleAge = 0]} :
                  conn' \in ProcessInput(x)
        /\ Schedule
        /\ IF Answering
           THEN armed' = Pending(conn') /\ AfterRead(conn')
           ELSE UNCHANGED <<armed, pc, out>>
        /\ UNCHANGED <<clientVars, wire, unread>>
    BY DEF Receive, Reads, Begun
  <1>2. /\ conn \in Conns /\ Sound(conn, stream, wire) /\ conn.open /\ ~conn.saving
        /\ Settled(conn) /\ inq \in Seq(InUnit) /\ out \in BOOLEAN
        /\ Len(conn.rbuf) <= MaxRead /\ armed \in BOOLEAN
    BY <1>1 DEF IInv, Sound, Worker, Shape
  <1>3. Len(inq) \in Nat /\ n \in Nat /\ conn.rbuf \in Seq(InUnit) /\ Len(conn.rbuf) \in Nat
    BY <1>2, LenProperties DEF Conns
  <1>4. \A i \in 1 .. Len(inq) : inq[i] \in InUnit
    BY <1>2, ElementOfSeq
  <1>5. a \in Seq(InUnit) /\ Len(a) = n /\ q \in Seq(InUnit) /\ Len(q) = Len(inq) - n
    BY <1>3, <1>4, SubSeqProperties
  <1>6. a \o q = inq
    <2>1. a \o q = SubSeq(inq, 1, Len(inq))
      BY <1>2, <1>3, ConcatAdjacentSubSeq
    <2> QED
      BY <2>1, <1>2, SubSeqFull
  <1> HIDE DEF a, q
  <1>7. b \in Seq(InUnit) /\ Len(b) = Len(conn.rbuf) + n /\ b \o q = conn.rbuf \o inq
    <2> DEFINE e == conn.rbuf
    <2>1. e \in Seq(InUnit)
      BY <1>3
    <2> HIDE DEF e
    <2>2. e \o a \in Seq(InUnit) /\ Len(e \o a) = Len(e) + Len(a)
      BY <2>1, <1>5, ConcatProperties
    <2>3. a \in Seq(InUnit) /\ q \in Seq(InUnit)
      BY <1>5
    <2>4. (e \o a) \o q = e \o (a \o q)
      BY <2>1, <2>3, JoinAssociates
    <2> QED
      BY <1>5, <1>6, <2>2, <2>4 DEF e
  <1>8. /\ c \in Conns /\ c.rbuf = conn.rbuf /\ c.open = conn.open
        /\ c.request = conn.request
        /\ c.dispatched = conn.dispatched /\ c.shut = conn.shut
        /\ c.parsed = conn.parsed /\ c.body = conn.body /\ c.saving = conn.saving
        /\ c.handled = conn.handled /\ c.seen = conn.seen /\ c.wbuf = conn.wbuf
        /\ c.file = conn.file /\ c.responding = conn.responding
        /\ c.closeAfter = conn.closeAfter /\ c.mustClose = conn.mustClose
    BY <1>2, BegunIs
  <1>9. [c EXCEPT !.rbuf = @ \o a, !.idleAge = 0] = d
    BY <1>8 DEF Filled
  <1> HIDE DEF c
  <1>10. Sound(c, stream, wire)
    <2>1. Len(c.rbuf) \in Nat /\ Len(conn.rbuf) <= Len(c.rbuf)
      BY <1>3, <1>8
    <2> QED
      BY <1>2, <1>3, <1>8, <2>1, InputSound
  <1> HIDE DEF b
  <1>11. /\ d \in Conns /\ d.rbuf = b /\ d.open = c.open /\ d.request = c.request
         /\ d.dispatched = c.dispatched /\ d.shut = c.shut
         /\ d.parsed = c.parsed /\ d.body = c.body /\ d.saving = c.saving
         /\ d.handled = c.handled /\ d.seen = c.seen /\ d.wbuf = c.wbuf
         /\ d.file = c.file /\ d.responding = c.responding
         /\ d.closeAfter = c.closeAfter /\ d.mustClose = c.mustClose
    BY <1>7, <1>8, FilledIs
  <1> HIDE DEF d
  <1>12. /\ Sound(d, stream, wire) /\ Settled(d) /\ FirstUnit(d) = FirstUnit(conn)
         /\ (GoesOn(d) <=> GoesOn(conn))
    <2>1. Len(d.rbuf) \in Nat /\ Len(conn.rbuf) <= Len(d.rbuf)
      BY <1>3, <1>7, <1>11
    <2> QED
      BY <1>2, <1>3, <1>8, <1>11, <2>1, InputSound, ZenonT(40)
  <1>13. GoesOn(d) => Chain(stream, sent, FirstUnit(d), d.rbuf \o q)
    BY <1>7, <1>11, <1>12 DEF IInv, Aligned
  <1>14. /\ Sound(conn', stream, wire) /\ Settled(conn') /\ conn'.open /\ ~conn'.shut
         /\ Len(conn'.rbuf) <= MaxRead /\ Len(conn'.rbuf) <= Len(conn.rbuf) + n
         /\ GoesOn(conn') => Chain(stream, sent, FirstUnit(conn'), conn'.rbuf \o q)
         /\ conn.closeAfter => conn'.seen = conn.seen
         /\ \/ /\ Overflows(conn, n) /\ conn'.closeAfter
               /\ conn'.wbuf = <<Answer(0, 1, 1)>> /\ conn'.file = conn.file
            \/ "large" \notin Replies => Outcome(conn, conn')
    <2>1. CASE Overflows(c, n)
      <3>1. conn' = ReplyError(c)
        BY <1>1, <2>1 DEF ReplyTooLarge
      <3>2. c.open /\ ~c.shut /\ ~c.saving
        BY <1>1, <1>2, <1>8
      <3>3. /\ Sound(conn', stream, wire) /\ Settled(conn')
            /\ SameRequest(c, conn') /\ ~GoesOn(conn')
        BY <1>10, <3>1, <3>2, ErrorSound
      <3>4. /\ conn'.open = c.open /\ conn'.shut = c.shut /\ conn'.rbuf = c.rbuf
            /\ conn'.seen = c.seen
        BY <3>3 DEF SameRequest
      <3>5. /\ conn'.closeAfter /\ conn'.wbuf = <<Answer(0, 1, 1)>> /\ conn'.file = c.file
        BY <1>8, <3>1, ReplyErrorIs
      <3>6. Overflows(conn, n)
        BY <1>8, <2>1 DEF Overflows
      <3> QED
        BY <1>2, <1>3, <1>8, <3>2, <3>3, <3>4, <3>5, <3>6
    <2>2. CASE ~Overflows(c, n)
      <3>1. conn' \in ProcessInput(d)
        BY <1>1, <1>9, <2>2
      <3>2. d.open /\ ~d.shut /\ ~d.saving
        BY <1>1, <1>2, <1>8, <1>11
      <3>3. Len(d.rbuf) <= MaxRead /\ Len(d.rbuf) \in Nat
        BY <1>3, <1>7, <1>8, <1>11, <2>2 DEF Overflows
      <3>4. stream \in Seq(Kinds) /\ Len(stream) <= MaxRequests /\ sent \in 0 .. 4
        BY DEF IInv, Shape
      <3>5. /\ Sound(conn', stream, wire) /\ Settled(conn')
            /\ conn'.open /\ ~conn'.shut
            /\ GoesOn(conn') => Chain(stream, sent, FirstUnit(conn'), conn'.rbuf \o q)
            /\ d.closeAfter => conn'.seen = d.seen
            /\ Len(conn'.rbuf) <= Len(d.rbuf)
        BY <1>5, <1>12, <1>13, <3>1, <3>2, <3>4, ProcessSound
      <3>6. Len(conn'.rbuf) \in Nat
        BY <3>5, LenProperties DEF Sound, Conns
      <3>7. ASSUME "large" \notin Replies PROVE Outcome(conn, conn')
        <4>1. Outcome(d, conn')
          BY <1>5, <1>12, <1>13, <3>1, <3>2, <3>4, <3>7, ProcessSound
        <4> QED
          BY <1>8, <1>11, <4>1 DEF Outcome, SameOutput, Begins, GoesOn
      <3>8. Len(conn'.rbuf) <= Len(conn.rbuf) + n
        BY <1>7, <1>11, <3>5
      <3> QED
        BY <1>8, <1>11, <3>3, <3>5, <3>6, <3>7, <3>8
    <2> QED
      BY <2>1, <2>2
  <1>15. timer' = Due(conn')
    BY <1>1, <1>14 DEF Schedule
  <1>16. SeenKept
    BY <1>1, <1>14 DEF SeenKept
  <1>17. inq' \in Seq(InUnit) /\ (GoesOn(conn') => Chain(stream, sent, FirstUnit(conn'), conn'.rbuf \o inq'))
    BY <1>1, <1>5, <1>14
  <1>20. Len(conn'.rbuf) + Len(inq') <= Len(conn.rbuf) + Len(inq)
    <2>1. Len(conn'.rbuf) \in Nat
      BY <1>14, LenProperties DEF Sound, Conns
    <2>2. Len(conn'.rbuf) <= Len(conn.rbuf) + n
      BY <1>14
    <2>3. Len(inq') = Len(inq) - n
      BY <1>1, <1>5
    <2> QED
      BY <1>3, <2>1, <2>2, <2>3
  <1>18. CASE Answering
    <2>1. armed' = Pending(conn') /\ AfterRead(conn') /\ UNCHANGED <<clientVars, wire, unread>>
      BY <1>1, <1>18
    <2>2. /\ pc' \in {"expire", "read", "write", "save"} /\ (pc' = "save" <=> conn'.saving)
          /\ out' \in BOOLEAN
      BY <1>2, <2>1, AfterReadIs
    <2>3. IInv'
      BY <1>14, <1>15, <1>17, <2>1, <2>2, SyncedStep
    <2> QED
      BY <1>14, <1>16, <1>20, <2>3
  <1>19. CASE ~Answering
    <2>1. /\ armed' = armed /\ pc' = "read" /\ out' = out
          /\ stream' = stream /\ sent' = sent /\ client' = client /\ wire' = wire
          /\ unread' = unread
      BY <1>1, <1>19 DEF clientVars
    <2>2. ~Pending(conn') /\ ~Ready(conn') /\ ~conn'.saving
      BY <1>14, <1>19 DEF Answering, Sound, Replying
    <2>3. timer' \in (- Longest) .. Longest /\ Longest \in Nat
      BY <1>14, <1>15, DueIs, LongestIs DEF Sound
    <2>4. timer' \in (- Longest) .. NoTimer /\ timer' # NoTimer
      BY <2>3 DEF NoTimer
    <2>5. Shape'
      BY <1>14, <1>17, <2>1, <2>4 DEF IInv, Shape
    <2>6. Worker'
      BY <1>14, <2>1, <2>2 DEF Worker
    <2>7. Timers'
      BY <1>15, <2>1, <2>2, <2>4 DEF Timers, TimerValid
    <2>8. Sound(conn', stream', wire') /\ Aligned'
      BY <1>14, <1>17, <2>1 DEF Aligned
    <2> QED
      BY <1>14, <1>16, <1>20, <2>5, <2>6, <2>7, <2>8 DEF IInv
  <1> QED
    BY <1>18, <1>19

\* Receiving ends, with no input left or none wanted.
LEMMA ReadingEndsStep ==
  ASSUME IInv, pc = "read", inq' = <<>>, inq = <<>> \/ conn.shut,
         IF client = "gone" THEN conn' = Close(conn) /\ Sync
         ELSE UNCHANGED <<conn, timer, armed>>,
         AfterRead(conn'), UNCHANGED <<clientVars, wire, unread>>
  PROVE  IInv' /\ SeenKept
  <1>1. /\ conn \in Conns /\ Sound(conn, stream, wire) /\ conn.open /\ ~conn.saving
        /\ Settled(conn) /\ out \in BOOLEAN
    BY DEF IInv, Sound, Worker, Shape
  <1>2. <<>> \in Seq(InUnit)
    BY EmptySeq
  <1>3. CASE client = "gone"
    <2>1. conn' = Close(conn) /\ Sync
      BY <1>3
    <2>2. ~conn'.open /\ ~conn'.saving
      BY <1>1, <2>1, CloseIs
    <2>3. pc' = "expire" /\ out' \in BOOLEAN
      BY <1>1, <2>2, AfterReadIs
    <2> QED
      BY <1>1, <1>2, <2>1, <2>3, ClosedStep
  <1>4. CASE client # "gone"
    <2>1. /\ stream' = stream /\ sent' = sent /\ client' = client /\ wire' = wire
          /\ unread' = unread /\ conn' = conn /\ timer' = timer /\ armed' = armed
      BY <1>4 DEF clientVars
    <2>2. pc' = (IF out THEN "write" ELSE "expire") /\ out' = FALSE
      <3>1. ~conn'.saving /\ conn'.open
        BY <1>1, <2>1
      <3> QED
        BY <1>1, <3>1, AfterReadIs
    <2>3. Shape'
      BY <1>2, <2>1, <2>2 DEF IInv, Shape
    <2>4. Worker'
      BY <1>1, <2>1, <2>2 DEF IInv, Worker
    <2>5. Timers'
      <3>1. (TimerValid' <=> TimerValid) /\ (TimerLost' <=> TimerLost)
        BY <2>1 DEF TimerValid, TimerLost
      <3>2. pc' = "write" => ~conn.shut
        BY <2>2 DEF IInv, Worker
      <3> QED
        BY <1>1, <2>1, <2>2, <3>1, <3>2 DEF IInv, Timers, Settled
    <2>6. Sound(conn', stream', wire') /\ Aligned'
      BY <1>1, <2>1 DEF IInv, Aligned, GoesOn
    <2> QED
      BY <2>1, <2>3, <2>4, <2>5, <2>6 DEF IInv, SeenKept
  <1> QED
    BY <1>3, <1>4

\* recv() finds nothing more.
LEMMA ReceiveEndsStep ==
  ASSUME IInv, ReceiveEnds
  PROVE  IInv' /\ SeenKept
  BY ReadingEndsStep DEF ReceiveEnds

\* Input after the half-close is dropped.
LEMMA DiscardStep ==
  ASSUME IInv, Discard
  PROVE  IInv' /\ SeenKept
  BY ReadingEndsStep DEF Discard

\* A unit of a streamed body is read.
BodyUnit(c, b, age) == [c EXCEPT !.body = @ - 1, !.rbuf = b, !.idleAge = age]

\* Reading a unit of a body changes the buffer and the count, and no more.
LEMMA BodyUnitIs ==
  ASSUME NEW c \in Conns, c.body > 0, NEW b \in Seq(InUnit), NEW age \in 0 .. Longest
  PROVE  /\ BodyUnit(c, b, age) \in Conns /\ BodyUnit(c, b, age).rbuf = b
         /\ BodyUnit(c, b, age).body = c.body - 1
         /\ BodyUnit(c, b, age).idleAge = age
         /\ BodyUnit(c, b, age).open = c.open /\ BodyUnit(c, b, age).request = c.request
         /\ BodyUnit(c, b, age).dispatched = c.dispatched
         /\ BodyUnit(c, b, age).shut = c.shut /\ BodyUnit(c, b, age).parsed = c.parsed
         /\ BodyUnit(c, b, age).started = c.started
         /\ BodyUnit(c, b, age).headers = c.headers
         /\ BodyUnit(c, b, age).saving = c.saving
         /\ BodyUnit(c, b, age).handled = c.handled
         /\ BodyUnit(c, b, age).seen = c.seen /\ BodyUnit(c, b, age).wbuf = c.wbuf
         /\ BodyUnit(c, b, age).file = c.file
         /\ BodyUnit(c, b, age).responding = c.responding
         /\ BodyUnit(c, b, age).closeAfter = c.closeAfter
         /\ BodyUnit(c, b, age).mustClose = c.mustClose
         /\ BodyUnit(c, b, age).phaseAge = c.phaseAge
  <1>1. c.body \in 0 .. 2
    BY DEF Conns
  <1>2. c.body - 1 \in 0 .. 2
    BY <1>1
  <1>3. BodyUnit(c, b, age) \in Conns
    BY <1>2 DEF BodyUnit, Conns
  <1> QED
    BY <1>3 DEF BodyUnit, Conns

\* While the handler reads a body, the request's next unit is the first of the input.
LEMMA BodySound ==
  ASSUME stream \in Seq(Kinds), NEW c, NEW d, Sound(c, stream, wire), c.saving, c.body > 0,
         d \in Conns, d.body = c.body - 1,
         d.open = c.open, d.request = c.request, d.dispatched = c.dispatched,
         d.shut = c.shut, d.parsed = c.parsed, d.saving = c.saving,
         d.handled = c.handled, d.seen = c.seen, d.wbuf = c.wbuf, d.file = c.file,
         d.responding = c.responding, d.closeAfter = c.closeAfter,
         d.mustClose = c.mustClose
  PROVE  /\ Sound(d, stream, wire) /\ GoesOn(c) /\ GoesOn(d)
         /\ (Settled(c) => Settled(d))
         /\ FirstUnit(d) = Follows(stream, FirstUnit(c))
  <1>1. c \in Conns /\ Requests(c, stream) /\ Replying(c) /\ Answered(c, wire)
    BY DEF Sound
  <1>2. Ready(c) /\ c.parsed = 0 /\ GoesOn(c)
    BY <1>1 DEF Replying
  <1>3. c.body \in 1 .. 2 /\ d.body \in 0 .. 1
    BY <1>1 DEF Conns
  <1>4. Requests(d, stream)
    <2>1. Parts(stream[c.request]) # 0
      BY PartsIs
    <2> QED
      BY <1>1, <1>2, <1>3, <2>1 DEF Requests, Ready
  <1>5. Replying(d) /\ (Settled(c) => Settled(d))
    BY <1>1 DEF Replying, Ready, Pending, GoesOn, Settled
  <1>6. Answered(d, wire)
    BY <1>1 DEF Answered, GoesOn
  <1>7. FirstUnit(d) = Follows(stream, FirstUnit(c))
    <2>1. stream[Len(c.seen)] = "upload"
      <3>1. Parts(stream[c.request]) # 0
        BY PartsIs
      <3> QED
        BY <1>1, <1>2, <3>1 DEF Requests
    <2>2. FirstUnit(c) = Unit(Len(c.seen), 5 - c.body)
      BY <1>2, <1>3 DEF FirstUnit
    <2>3. Parts(stream[Len(c.seen)]) = 4
      BY <2>1 DEF Parts
    <2>4. Ready(d) /\ d.parsed = 0 /\ Len(d.seen) = Len(c.seen)
      BY <1>2 DEF Ready
    <2>5. CASE c.body = 2
      <3>1. d.body = 1 /\ 5 - c.body = 3 /\ 5 - d.body = 4
        BY <2>5
      <3>2. FirstUnit(d) = Unit(Len(c.seen), 4)
        BY <3>1, <2>4 DEF FirstUnit
      <3>3. Follows(stream, Unit(Len(c.seen), 3)) = Unit(Len(c.seen), 4)
        BY <2>3 DEF Follows, Unit
      <3> QED
        BY <2>2, <3>1, <3>2, <3>3
    <2>6. CASE c.body = 1
      <3>1. d.body = 0 /\ 5 - c.body = 4
        BY <2>6
      <3>2. FirstUnit(d) = Unit(Len(c.seen) + 1, 1)
        BY <3>1, <2>4 DEF FirstUnit
      <3>3. Follows(stream, Unit(Len(c.seen), 4)) = Unit(Len(c.seen) + 1, 1)
        BY <2>3 DEF Follows, Unit
      <3> QED
        BY <2>2, <3>1, <3>2, <3>3
    <2> QED
      BY <2>5, <2>6, <1>3
  <1> QED
    BY <1>2, <1>4, <1>5, <1>6, <1>7 DEF Sound, GoesOn

\* The entry a connection needs depends on these fields only.
LEMMA DueSame ==
  ASSUME NEW c, NEW d, d.idleAge = c.idleAge, d.phaseAge = c.phaseAge, d.wbuf = c.wbuf,
         d.file = c.file, d.started = c.started, d.request = c.request,
         d.headers = c.headers, d.shut = c.shut
  PROVE  Due(d) = Due(c)
  BY DEF Due, Pending, Ready

\* The handler reads the next unit of the body, from the buffer first.
LEMMA SaveUnitStep ==
  ASSUME IInv, SaveUnit
  PROVE  IInv' /\ SeenKept
  <1>1. /\ stream' = stream /\ sent' = sent /\ client' = client /\ wire' = wire
        /\ unread' = unread /\ armed' = armed /\ pc' = pc /\ out' = out
        /\ pc = "save" /\ conn.body > 0
    BY DEF SaveUnit, clientVars
  <1>2. /\ conn \in Conns /\ Sound(conn, stream, wire) /\ conn.open /\ conn.saving
        /\ Settled(conn) /\ inq \in Seq(InUnit) /\ stream \in Seq(Kinds) /\ sent \in 0 .. 4
        /\ Len(conn.rbuf) <= MaxRead /\ conn.rbuf \in Seq(InUnit)
    BY <1>1 DEF IInv, Sound, Worker, Shape, Conns
  <1>3. conn.idleAge \in 0 .. Longest /\ 0 \in 0 .. Longest /\ Len(conn.rbuf) \in Nat
    BY <1>2, LongestIs, LenProperties DEF Conns
  <1>4. GoesOn(conn) /\ Chain(stream, sent, FirstUnit(conn), conn.rbuf \o inq)
    BY <1>2 DEF IInv, Aligned, Sound, Replying
  <1>5. ASSUME NEW b \in Seq(InUnit), NEW age \in 0 .. Longest, conn' = BodyUnit(conn, b, age),
               Len(b) <= MaxRead, inq' \in Seq(InUnit),
               timer' \in (- Longest) .. NoTimer,
               TimerValid => TimerValid', TimerValid' \/ timer' = timer,
               Chain(stream, sent, Follows(stream, FirstUnit(conn)), b \o inq')
        PROVE  IInv' /\ SeenKept
    <2> DEFINE d == BodyUnit(conn, b, age)
    <2>1. /\ d \in Conns /\ d.rbuf = b /\ d.body = conn.body - 1
          /\ d.open = conn.open /\ d.request = conn.request
          /\ d.dispatched = conn.dispatched /\ d.shut = conn.shut
          /\ d.parsed = conn.parsed /\ d.saving = conn.saving
          /\ d.handled = conn.handled /\ d.seen = conn.seen /\ d.wbuf = conn.wbuf
          /\ d.file = conn.file /\ d.responding = conn.responding
          /\ d.closeAfter = conn.closeAfter /\ d.mustClose = conn.mustClose
      <3>1. conn \in Conns /\ conn.body > 0
        BY <1>1, <1>2
      <3>2. b \in Seq(InUnit) /\ age \in 0 .. Longest
        BY <1>5
      <3> QED
        BY <3>1, <3>2, BodyUnitIs
    <2>2. conn' = d
      BY <1>5
    <2> HIDE DEF d
    <2>3. /\ Sound(d, stream, wire) /\ GoesOn(d) /\ Settled(d)
          /\ FirstUnit(d) = Follows(stream, FirstUnit(conn))
      BY <1>1, <1>2, <2>1, BodySound
    <2>4. Shape'
      BY <1>1, <1>5, <2>1, <2>2 DEF IInv, Shape
    <2>5. Worker'
      BY <1>1, <1>2, <2>1, <2>2, <2>3 DEF IInv, Worker, GoesOn
    <2>6. Timers'
      <3>1. Pending(d) <=> Pending(conn)
        BY <2>1 DEF Pending
      <3>2. TimerValid /\ TimerValid'
        <4>1. Ready(conn)
          BY <1>2 DEF Sound, Replying
        <4> QED
          BY <4>1, <1>1, <1>2, <1>5 DEF IInv, Timers, TimerLost
      <3> QED
        BY <1>1, <1>2, <1>5, <2>1, <2>2, <3>1, <3>2 DEF IInv, Timers
    <2>7. Aligned' /\ Sound(conn', stream', wire')
      BY <1>1, <1>5, <2>1, <2>2, <2>3 DEF Aligned
    <2> QED
      BY <2>1, <2>2, <2>4, <2>5, <2>6, <2>7 DEF IInv, SeenKept
  <1>6. CASE /\ conn.rbuf # <<>>
             /\ conn' = [conn EXCEPT !.body = @ - 1, !.rbuf = Tail(@)]
             /\ UNCHANGED <<inq, timer>>
    <2> DEFINE b == Tail(conn.rbuf)
               age == conn.idleAge
               d == BodyUnit(conn, b, age)
    <2>1. b \in Seq(InUnit) /\ Len(b) = Len(conn.rbuf) - 1
      BY <1>2, <1>6, HeadTailProperties
    <2>2. /\ Tail(conn.rbuf \o inq) = b \o inq /\ conn.rbuf \o inq # <<>>
          /\ conn.rbuf \o inq \in Seq(InUnit)
      BY <1>2, <1>6, TailConcat
    <2>3. Chain(stream, sent, Follows(stream, FirstUnit(conn)), b \o inq)
      BY <1>2, <1>4, <2>2, ChainTail, ZenonT(40)
    <2>4. conn' = d
      BY <1>2, <1>6 DEF BodyUnit, Conns
    <2>5. age \in 0 .. Longest
      BY <1>3
    <2> HIDE DEF b
    <2>6. Due(d) = Due(conn)
      BY <1>1, <1>2, <2>1, <2>5, BodyUnitIs, DueSame, SMTT(30)
    <2> HIDE DEF d
    <2>7. (TimerValid => TimerValid') /\ timer' = timer /\ inq' = inq
      BY <1>6, <2>4, <2>6 DEF TimerValid
    <2>8. Len(b) <= MaxRead /\ inq' \in Seq(InUnit) /\ timer' \in (- Longest) .. NoTimer
      BY <1>2, <1>3, <2>1, <2>7 DEF IInv, Shape
    <2> QED
      BY <1>5, <2>1, <2>3, <2>4, <2>5, <2>7, <2>8 DEF d
  <1>7. CASE /\ conn.rbuf = <<>> /\ inq # <<>>
             /\ conn' = [conn EXCEPT !.body = @ - 1, !.idleAge = 0]
             /\ inq' = Tail(inq)
             /\ Schedule
    <2> DEFINE b == conn.rbuf
               d == BodyUnit(conn, b, 0)
    <2>1. inq' \in Seq(InUnit)
      BY <1>2, <1>7, HeadTailProperties
    <2>2. b \o inq = inq /\ b \o inq' = inq'
      BY <1>2, <1>7, <2>1, ConcatEmptySeq
    <2>3. Chain(stream, sent, Follows(stream, FirstUnit(conn)), b \o inq')
      BY <1>2, <1>4, <1>7, <2>2, ChainTail
    <2>4. conn' = d
      BY <1>2, <1>7 DEF BodyUnit, Conns
    <2> HIDE DEF b
    <2>5. d \in Conns /\ d.open
      BY <1>1, <1>2, <1>3, BodyUnitIs DEF b
    <2> HIDE DEF d
    <2>6. timer' = Due(d)
      BY <1>7, <2>4, <2>5 DEF Schedule
    <2>7. timer' \in (- Longest) .. Longest /\ Longest \in Nat
      BY <2>5, <2>6, DueIs, LongestIs
    <2>8. timer' \in (- Longest) .. NoTimer /\ timer' # NoTimer
      BY <2>7 DEF NoTimer
    <2>9. TimerValid'
      BY <2>4, <2>6, <2>8 DEF TimerValid
    <2>10. b \in Seq(InUnit) /\ Len(b) <= MaxRead
      BY <1>2 DEF b
    <2> QED
      BY <1>3, <1>5, <2>1, <2>3, <2>4, <2>8, <2>9, <2>10 DEF d
  <1> QED
    BY <1>6, <1>7 DEF SaveUnit

\* The handler that read a body replies.
LEMMA SaveEndsStep ==
  ASSUME IInv, SaveEnds
  PROVE  /\ IInv' /\ SeenKept /\ conn'.rbuf = conn.rbuf
         /\ "large" \notin Replies => Outcome(conn, conn')
  <1>1. /\ pc = "save" /\ Sync /\ AfterRead(conn')
        /\ UNCHANGED <<clientVars, inq, wire, unread>>
    BY DEF SaveEnds
  <1>2. /\ conn \in Conns /\ Sound(conn, stream, wire) /\ conn.open /\ conn.saving
        /\ inq \in Seq(InUnit) /\ Len(conn.rbuf) <= MaxRead /\ out \in BOOLEAN
        /\ GoesOn(conn) /\ Ready(conn) /\ ~conn.responding
    BY <1>1 DEF IInv, Sound, Worker, Shape, Replying
  <1>3. PICK saved \in {conn.body = 0, FALSE} :
          \E c \in {[conn EXCEPT !.saving = FALSE, !.mustClose = ~saved]} : conn' \in Handled(c)
    BY DEF SaveEnds
  <1> DEFINE c == [conn EXCEPT !.saving = FALSE, !.mustClose = ~saved]
  <1>4. conn' \in Handled(c)
    BY <1>3
  <1>5. conn.body # 0 => ~saved
    BY <1>3
  <1>6. /\ c \in Conns /\ ~c.saving /\ c.mustClose = ~saved
        /\ c.rbuf = conn.rbuf /\ c.open = conn.open /\ c.request = conn.request
        /\ c.dispatched = conn.dispatched /\ c.shut = conn.shut
        /\ c.parsed = conn.parsed /\ c.body = conn.body
        /\ c.handled = conn.handled /\ c.seen = conn.seen /\ c.wbuf = conn.wbuf
        /\ c.file = conn.file /\ c.responding = conn.responding
        /\ c.closeAfter = conn.closeAfter
    BY <1>2, ZenonT(40) DEF Conns
  <1> HIDE DEF c
  <1>7. Serving(c, stream, wire) /\ FirstUnit(c) = FirstUnit(conn)
    <2>1. Requests(c, stream)
      <3>1. c.body \in Nat /\ (c.body > 0 => c.mustClose)
        BY <1>5, <1>6 DEF Conns
      <3> QED
        BY <1>2, <1>6, <3>1 DEF Sound, Requests, Ready
    <2>2. Replying(c)
      BY <1>2, <1>6 DEF Sound, Replying, Ready, Pending, GoesOn
    <2>3. Answered(c, wire)
      BY <1>2, <1>6 DEF Sound, Answered, GoesOn
    <2> QED
      BY <1>2, <1>6, <2>1, <2>2, <2>3 DEF Serving, Sound, GoesOn, Ready, FirstUnit
  <1>8. /\ Sound(conn', stream, wire) /\ Settled(conn')
        /\ SameRequest(c, conn') /\ FirstUnit(conn') = FirstUnit(conn)
    BY <1>4, <1>6, <1>7, HandlerSound
  <1>9. /\ conn'.open /\ ~conn'.shut /\ ~conn'.saving /\ conn'.seen = conn.seen
        /\ conn'.rbuf = conn.rbuf
    BY <1>2, <1>6, <1>8 DEF SameRequest, GoesOn
  <1>10. GoesOn(conn') => Chain(stream, sent, FirstUnit(conn'), conn'.rbuf \o inq')
    BY <1>1, <1>2, <1>8, <1>9 DEF IInv, Aligned
  <1>11. timer' = Due(conn') /\ armed' = Pending(conn')
    BY <1>1, <1>9 DEF Sync, Schedule
  <1>12. /\ pc' \in {"expire", "read", "write", "save"} /\ (pc' = "save" <=> conn'.saving)
         /\ out' \in BOOLEAN
    BY <1>1, <1>2, <1>9, AfterReadIs
  <1>13. IInv'
    <2>1. inq' \in Seq(InUnit) /\ UNCHANGED <<clientVars, wire, unread>> /\ Len(conn'.rbuf) <= MaxRead
      BY <1>1, <1>2, <1>9
    <2> QED
      BY <1>8, <1>9, <1>10, <1>11, <1>12, <2>1, SyncedStep
  <1>14. ASSUME "large" \notin Replies PROVE Outcome(conn, conn')
    <2>1. Outcome(c, conn')
      BY <1>4, <1>6, <1>7, <1>14, HandlerSound
    <2> QED
      BY <1>6, <2>1 DEF Outcome, SameOutput, Begins, GoesOn
  <1> QED
    BY <1>9, <1>13, <1>14 DEF SeenKept

\* Output is kept for later, or the connection is closed.
LEMMA SendBlocksStep ==
  ASSUME IInv, SendBlocks
  PROVE  IInv' /\ SeenKept
  <1>1. /\ pc = "write" /\ conn.wbuf # <<>> /\ Sync /\ AfterWrite(conn')
        /\ UNCHANGED <<clientVars, inq, wire, unread>>
        /\ conn' = conn \/ conn' = Close(conn)
    BY DEF SendBlocks
  <1>2. /\ conn \in Conns /\ Sound(conn, stream, wire) /\ conn.open /\ ~conn.saving
        /\ inq \in Seq(InUnit) /\ Len(conn.rbuf) <= MaxRead /\ ~conn.shut
        /\ Pending(conn) /\ Settled(conn)
    BY <1>1 DEF IInv, Sound, Worker, Shape, Pending, Settled
  <1>3. ~conn'.saving
    BY <1>1, <1>2, CloseIs
  <1>4. pc' = "expire" /\ out' = FALSE
    BY <1>1, <1>3 DEF AfterWrite
  <1>5. CASE conn' = conn
    <2>1. timer' = Due(conn') /\ armed' = Pending(conn')
      BY <1>1, <1>2, <1>5 DEF Sync, Schedule
    <2>2. GoesOn(conn') => Chain(stream, sent, FirstUnit(conn'), conn'.rbuf \o inq')
      BY <1>1, <1>5 DEF IInv, Aligned
    <2>3. /\ inq' \in Seq(InUnit) /\ Sound(conn', stream, wire) /\ Settled(conn') /\ conn'.open
          /\ Len(conn'.rbuf) <= MaxRead /\ ~conn'.shut
      BY <1>1, <1>2, <1>5
    <2>4. /\ pc' \in {"expire", "read", "write", "save"} /\ (pc' = "save" <=> conn'.saving)
          /\ out' \in BOOLEAN
      BY <1>3, <1>4
    <2>5. IInv'
      BY <1>1, <2>1, <2>2, <2>3, <2>4, SyncedStep
    <2> QED
      BY <1>5, <2>5 DEF SeenKept
  <1>6. CASE conn' = Close(conn)
    <2>1. inq' \in Seq(InUnit) /\ UNCHANGED <<clientVars, wire, unread>>
      BY <1>1, <1>2
    <2> QED
      BY <1>1, <1>2, <1>4, <1>6, <2>1, ClosedStep
  <1> QED
    BY <1>1, <1>5, <1>6

\* A unit of the buffer is written.
Written(c) == [c EXCEPT !.wbuf = Tail(@), !.idleAge = 0]

\* What FillFile makes of the buffer and of the file, if the chunk fits.
LEMMA FillFileIs ==
  ASSUME NEW c \in Conns, NEW d \in FillFile(c), d.open \/ "large" \notin Replies
  PROVE  /\ d \in Conns
         /\ d.open = c.open /\ d.rbuf = c.rbuf /\ d.request = c.request
         /\ d.dispatched = c.dispatched /\ d.shut = c.shut
         /\ d.parsed = c.parsed /\ d.body = c.body /\ d.saving = c.saving
         /\ d.handled = c.handled /\ d.seen = c.seen
         /\ d.responding = c.responding /\ d.closeAfter = c.closeAfter
         /\ d.mustClose = c.mustClose
         /\ \/ d.wbuf = c.wbuf /\ d.file = c.file /\ (c.wbuf # <<>> \/ c.file = <<>>)
            \/ c.wbuf = <<>> /\ c.file # <<>> /\ d.wbuf = <<Head(c.file)>> /\ d.file = Tail(c.file)
            \/ c.wbuf = <<>> /\ c.file # <<>> /\ d.wbuf = <<>> /\ d.file = <<>> /\ FileShrinks
  <1>1. CASE c.wbuf # <<>> \/ c.file = <<>>
    BY <1>1 DEF FillFile
  <1>2. CASE ~(c.wbuf # <<>> \/ c.file = <<>>)
    <2> DEFINE h == <<Head(c.file)>>
               t == Tail(c.file)
    <2>1. \/ d = [c EXCEPT !.wbuf = h, !.file = t]
          \/ d = [c EXCEPT !.file = <<>>] /\ FileShrinks
      <3>1. "large" \in Replies => d # Close(c)
        BY CloseIs
      <3> QED
        BY <1>2, <3>1 DEF FillFile
    <2>2. h \in Seq(OutUnit) /\ t \in Seq(OutUnit)
      <3>1. c.file \in Seq(OutUnit) /\ c.file # <<>>
        BY <1>2 DEF Conns
      <3>2. Head(c.file) \in OutUnit /\ Tail(c.file) \in Seq(OutUnit)
        BY <3>1, HeadTailProperties
      <3> QED
        BY <3>2
    <2>3. <<>> \in Seq(OutUnit)
      BY EmptySeq
    <2> HIDE DEF h, t
    <2>4. CASE d = [c EXCEPT !.wbuf = h, !.file = t]
      <3>1. d \in Conns
        BY <2>2, <2>4 DEF Conns
      <3>2. /\ d.open = c.open /\ d.rbuf = c.rbuf /\ d.request = c.request
            /\ d.dispatched = c.dispatched /\ d.shut = c.shut
            /\ d.parsed = c.parsed /\ d.body = c.body /\ d.saving = c.saving
            /\ d.handled = c.handled /\ d.seen = c.seen
            /\ d.responding = c.responding /\ d.closeAfter = c.closeAfter
            /\ d.mustClose = c.mustClose /\ d.wbuf = h /\ d.file = t
        BY <2>4 DEF Conns
      <3> QED
        BY <1>2, <3>1, <3>2 DEF h, t
    <2>5. CASE d = [c EXCEPT !.file = <<>>] /\ FileShrinks
      <3>1. d \in Conns
        BY <2>3, <2>5 DEF Conns
      <3>2. /\ d.open = c.open /\ d.rbuf = c.rbuf /\ d.request = c.request
            /\ d.dispatched = c.dispatched /\ d.shut = c.shut
            /\ d.parsed = c.parsed /\ d.body = c.body /\ d.saving = c.saving
            /\ d.handled = c.handled /\ d.seen = c.seen
            /\ d.responding = c.responding /\ d.closeAfter = c.closeAfter
            /\ d.mustClose = c.mustClose /\ d.wbuf = c.wbuf /\ d.file = <<>>
        BY <2>5 DEF Conns
      <3> QED
        BY <1>2, <2>5, <3>1, <3>2
    <2> QED
      BY <2>1, <2>4, <2>5
  <1> QED
    BY <1>1, <1>2

\* Otherwise the connection is closed.
LEMMA FillFileCloses ==
  ASSUME NEW c \in Conns, c.open, NEW d \in FillFile(c), ~d.open
  PROVE  d = Close(c)
  <1> DEFINE h == <<Head(c.file)>>
             t == Tail(c.file)
             k == Close(c)
  <1>1. d \in {c, [c EXCEPT !.wbuf = h, !.file = t], [c EXCEPT !.file = <<>>], k}
    BY DEF FillFile
  <1> HIDE DEF h, t, k
  <1>2. [c EXCEPT !.wbuf = h, !.file = t].open = c.open /\ [c EXCEPT !.file = <<>>].open = c.open
    BY DEF Conns
  <1> QED
    BY <1>1, <1>2 DEF k

\* Writing a unit changes the buffer, and no more.
LEMMA WrittenIs ==
  ASSUME NEW c \in Conns, c.wbuf # <<>>
  PROVE  /\ Written(c) \in Conns
         /\ Written(c).open = c.open /\ Written(c).rbuf = c.rbuf
         /\ Written(c).request = c.request
         /\ Written(c).dispatched = c.dispatched /\ Written(c).shut = c.shut
         /\ Written(c).parsed = c.parsed /\ Written(c).body = c.body
         /\ Written(c).saving = c.saving
         /\ Written(c).handled = c.handled /\ Written(c).seen = c.seen
         /\ Written(c).responding = c.responding
         /\ Written(c).closeAfter = c.closeAfter
         /\ Written(c).mustClose = c.mustClose
         /\ Written(c).wbuf = Tail(c.wbuf) /\ Written(c).file = c.file
  <1>1. 0 \in 0 .. Longest
    BY LongestIs
  <1>2. Tail(c.wbuf) \in Seq(OutUnit)
    BY HeadTailProperties DEF Conns
  <1>3. Written(c) \in Conns
    BY <1>1, <1>2 DEF Written, Conns
  <1> QED
    BY <1>3 DEF Written, Conns

\* A unit of the response to the request in hand is sent.
LEMMA SentSound ==
  ASSUME NEW c, NEW d, NEW s, NEW w \in Seq(OutUnit), Sound(c, s, w),
         c.wbuf # <<>>, ~c.shut, ~c.saving, c.open, d \in FillFile(Written(c)), d.open
  PROVE  /\ Sound(d, s, Append(w, Head(c.wbuf)))
         /\ d.open /\ ~d.shut /\ ~d.saving /\ d.seen = c.seen /\ d.rbuf = c.rbuf
         /\ FirstUnit(d) = FirstUnit(c) /\ (GoesOn(d) <=> GoesOn(c))
  <1> DEFINE m == Written(c)
             t == Tail(c.wbuf)
             x == Head(c.wbuf)
             v == Append(w, x)
  <1>1. c \in Conns /\ Requests(c, s) /\ Replying(c) /\ Answered(c, w)
    BY DEF Sound
  <1>2. /\ m \in Conns
        /\ m.open = c.open /\ m.rbuf = c.rbuf /\ m.request = c.request
        /\ m.dispatched = c.dispatched /\ m.shut = c.shut
        /\ m.parsed = c.parsed /\ m.body = c.body /\ m.saving = c.saving
        /\ m.handled = c.handled /\ m.seen = c.seen
        /\ m.responding = c.responding /\ m.closeAfter = c.closeAfter
        /\ m.mustClose = c.mustClose
        /\ m.wbuf = t /\ m.file = c.file
    BY <1>1, WrittenIs
  <1>21. d \in FillFile(m)
    OBVIOUS
  <1> HIDE DEF m
  <1>3. /\ d \in Conns
        /\ d.open = m.open /\ d.rbuf = m.rbuf /\ d.request = m.request
        /\ d.dispatched = m.dispatched /\ d.shut = m.shut
        /\ d.parsed = m.parsed /\ d.body = m.body /\ d.saving = m.saving
        /\ d.handled = m.handled /\ d.seen = m.seen
        /\ d.responding = m.responding /\ d.closeAfter = m.closeAfter
        /\ d.mustClose = m.mustClose
        /\ \/ d.wbuf = m.wbuf /\ d.file = m.file /\ (m.wbuf # <<>> \/ m.file = <<>>)
           \/ m.wbuf = <<>> /\ m.file # <<>> /\ d.wbuf = <<Head(m.file)>> /\ d.file = Tail(m.file)
           \/ m.wbuf = <<>> /\ m.file # <<>> /\ d.wbuf = <<>> /\ d.file = <<>> /\ FileShrinks
    <2>1. m \in Conns
      BY <1>2
    <2> QED
      BY <2>1, <1>21, FillFileIs
  <1>4. /\ d.open = c.open /\ d.rbuf = c.rbuf /\ d.request = c.request
        /\ d.dispatched = c.dispatched /\ d.shut = c.shut
        /\ d.parsed = c.parsed /\ d.body = c.body /\ d.saving = c.saving
        /\ d.handled = c.handled /\ d.seen = c.seen
        /\ d.responding = c.responding /\ d.closeAfter = c.closeAfter
        /\ d.mustClose = c.mustClose
    BY <1>2, <1>3
  <1>5. \/ d.wbuf = t /\ d.file = c.file /\ (t # <<>> \/ c.file = <<>>)
        \/ t = <<>> /\ c.file # <<>> /\ d.wbuf = <<Head(c.file)>> /\ d.file = Tail(c.file)
        \/ t = <<>> /\ c.file # <<>> /\ d.wbuf = <<>> /\ d.file = <<>>
    BY <1>2, <1>3
  <1>6. /\ c.wbuf \in Seq(OutUnit) /\ c.file \in Seq(OutUnit) /\ x = c.wbuf[1]
        /\ x \in OutUnit /\ 1 \in DOMAIN c.wbuf
        /\ t \in Seq(OutUnit) /\ \A i \in DOMAIN t : i + 1 \in DOMAIN c.wbuf /\ t[i] = c.wbuf[i + 1]
    <2>1. c.wbuf \in Seq(OutUnit) /\ c.file \in Seq(OutUnit)
      BY <1>1 DEF Conns
    <2>2. Len(c.wbuf) \in Nat \ {0} /\ DOMAIN c.wbuf = 1 .. Len(c.wbuf)
      BY <2>1, LenProperties, EmptySeq
    <2>3. /\ t \in Seq(OutUnit) /\ Len(t) = Len(c.wbuf) - 1 /\ x = c.wbuf[1] /\ x \in OutUnit
          /\ \A i \in 1 .. Len(t) : t[i] = c.wbuf[i + 1]
      BY <2>1, HeadTailProperties
    <2>4. DOMAIN t = 1 .. Len(t)
      BY <2>3, LenProperties
    <2> HIDE DEF t, x
    <2> QED
      BY <2>1, <2>2, <2>3, <2>4
  <1>7. v # <<>> /\ LastAnswered(v) = x.to
    <2>1. v \in Seq(OutUnit) /\ Len(v) = Len(w) + 1 /\ v[Len(w) + 1] = x /\ Len(w) \in Nat
      BY <1>6, AppendProperties, LenProperties
    <2> HIDE DEF v, x
    <2> QED
      BY <2>1, EmptySeq DEF LastAnswered, Last
  <1>8. Requests(d, s)
    BY <1>1, <1>4 DEF Requests, Ready
  <1>9. Replying(d)
    <2>1. d.wbuf = <<>> => d.file = <<>>
      BY <1>5
    <2>2. c.responding \/ c.closeAfter
      BY <1>1 DEF Replying, Pending
    <2> QED
      BY <1>1, <1>4, <2>1, <2>2 DEF Replying, Ready, GoesOn, Pending
  <1>10. Answered(d, v)
    <2> SUFFICES ASSUME GoesOn(d)
                 PROVE  /\ d.responding
                        /\ \A i \in DOMAIN d.wbuf : d.wbuf[i].to = d.request
                        /\ \A i \in DOMAIN d.file : d.file[i].to = d.request
                        /\ d.wbuf = <<>> => LastAnswered(v) = d.request
      BY DEF Answered
    <2>1. c.responding /\ GoesOn(c)
      BY <1>1, <1>4 DEF Replying, Pending, GoesOn
    <2>2. /\ \A i \in DOMAIN c.wbuf : c.wbuf[i].to = c.request
          /\ \A i \in DOMAIN c.file : c.file[i].to = c.request
      BY <1>1, <2>1 DEF Answered
    <2>3. LastAnswered(v) = d.request
      BY <1>4, <1>6, <1>7, <2>2
    <2>4. \A i \in DOMAIN t : t[i].to = d.request
      BY <1>4, <1>6, <2>2
    <2>5. c.file # <<>> =>
            /\ Head(c.file).to = d.request
            /\ \A i \in DOMAIN Tail(c.file) : Tail(c.file)[i].to = d.request
      <3> DEFINE f == c.file
      <3> SUFFICES ASSUME f # <<>>
                   PROVE  /\ Head(f).to = d.request
                          /\ \A i \in DOMAIN Tail(f) : Tail(f)[i].to = d.request
        OBVIOUS
      <3>1. f \in Seq(OutUnit) /\ \A i \in DOMAIN f : f[i].to = d.request
        BY <1>4, <1>6, <2>2
      <3> HIDE DEF f
      <3>2. Len(f) \in Nat \ {0} /\ DOMAIN f = 1 .. Len(f)
        BY <3>1, LenProperties, EmptySeq
      <3>3. /\ Tail(f) \in Seq(OutUnit) /\ Len(Tail(f)) = Len(f) - 1 /\ Head(f) = f[1]
            /\ \A i \in 1 .. Len(Tail(f)) : Tail(f)[i] = f[i + 1]
        BY <3>1, HeadTailProperties
      <3>4. DOMAIN Tail(f) = 1 .. Len(Tail(f))
        BY <3>3, LenProperties
      <3> QED
        BY <3>1, <3>2, <3>3, <3>4
    <2> HIDE DEF t, v, x
    <2>6. \A i \in DOMAIN d.wbuf : d.wbuf[i].to = d.request
      <3>1. CASE d.wbuf = t
        BY <2>4, <3>1
      <3>2. CASE d.wbuf = <<Head(c.file)>> /\ c.file # <<>>
        BY <2>5, <3>2
      <3>3. CASE d.wbuf = <<>>
        BY <3>3
      <3> QED
        BY <1>5, <3>1, <3>2, <3>3
    <2>7. \A i \in DOMAIN d.file : d.file[i].to = d.request
      <3>1. CASE d.file = c.file
        BY <1>4, <2>2, <3>1
      <3>2. CASE d.file = Tail(c.file) /\ c.file # <<>>
        BY <2>5, <3>2
      <3>3. CASE d.file = <<>>
        BY <3>3
      <3> QED
        BY <1>5, <3>1, <3>2, <3>3
    <2> QED
      BY <1>4, <2>1, <2>3, <2>6, <2>7
  <1> HIDE DEF v, x, t
  <1>11. Sound(d, s, v)
    BY <1>3, <1>8, <1>9, <1>10 DEF Sound
  <1> QED
    BY <1>4, <1>11 DEF v, x, FirstUnit, Ready, GoesOn

\* A unit is sent.
LEMMA SendStep ==
  ASSUME IInv, Send
  PROVE  IInv' /\ SeenKept
  <1>1. /\ stream' = stream /\ sent' = sent /\ client' = client /\ inq' = inq
        /\ pc = "write" /\ conn.wbuf # <<>> /\ unread < SendBuffer
        /\ wire' = Append(wire, Head(conn.wbuf)) /\ unread' = unread + 1
        /\ conn' \in FillFile(Written(conn))
    BY DEF Send, clientVars, Written
  <1>2. /\ conn \in Conns /\ Sound(conn, stream, wire) /\ conn.open /\ ~conn.saving
        /\ ~conn.shut /\ wire \in Seq(OutUnit) /\ unread \in 0 .. SendBuffer
        /\ Len(conn.rbuf) <= MaxRead
    BY <1>1 DEF IInv, Sound, Worker, Shape
  <1>8. wire' \in Seq(OutUnit) /\ unread' \in 0 .. SendBuffer
    <2>1. Head(conn.wbuf) \in OutUnit
      BY <1>1, <1>2, HeadTailProperties DEF Conns
    <2> QED
      BY <1>1, <1>2, <2>1, AppendProperties
  <1>9. CASE ~conn'.open
    <2> DEFINE v == Written(conn)
    <2>1. v \in Conns /\ v.open /\ v.seen = conn.seen
      BY <1>1, <1>2, WrittenIs
    <2>2. conn' \in FillFile(v) /\ Sync /\ AfterWrite(conn') /\ UNCHANGED <<clientVars, inq>>
      BY <1>9 DEF Send, Written
    <2> HIDE DEF v
    <2>3. conn' = Close(v)
      BY <1>9, <2>1, <2>2, FillFileCloses
    <2>4. ~conn'.saving
      BY <2>1, <2>3, CloseIs
    <2>5. pc' = "expire" /\ out' \in BOOLEAN
      BY <2>2, <2>4 DEF AfterWrite
    <2>6. inq' \in Seq(InUnit)
      BY <1>1 DEF IInv, Shape
    <2> QED
      BY <1>8, <2>1, <2>2, <2>3, <2>5, <2>6, ClosedAfter
  <1>10. CASE conn'.open
    <2>10. /\ armed' = armed /\ pc' = pc /\ out' = out
           /\ timer' = Due([conn EXCEPT !.idleAge = 0])
      BY <1>10 DEF Send
    <2>3. /\ Sound(conn', stream, wire')
          /\ conn'.open /\ ~conn'.shut /\ ~conn'.saving /\ conn'.seen = conn.seen
          /\ conn'.rbuf = conn.rbuf
          /\ FirstUnit(conn') = FirstUnit(conn) /\ (GoesOn(conn') <=> GoesOn(conn))
      BY <1>1, <1>2, <1>10, SentSound
    <2>4. timer' \in (- Longest) .. NoTimer
      <3>1. 0 \in 0 .. Longest /\ Longest \in Nat
        BY LongestIs
      <3>2. [conn EXCEPT !.idleAge = 0] \in Conns
        BY <1>2, <3>1 DEF Conns
      <3>3. timer' \in (- Longest) .. Longest
        BY <2>10, <3>2, DueIs
      <3> QED
        BY <3>1, <3>3 DEF NoTimer
    <2>5. Shape'
      BY <1>1, <1>8, <2>3, <2>4, <2>10 DEF IInv, Shape
    <2>6. Worker' /\ Aligned'
      BY <1>1, <1>2, <2>3, <2>10 DEF Worker, IInv, Aligned
    <2>7. Timers'
      <3>1. armed
        BY <1>1, <1>2 DEF IInv, Timers, Pending
      <3> QED
        BY <1>1, <2>10, <3>1 DEF Timers
    <2> QED
      BY <1>1, <2>3, <2>5, <2>6, <2>7 DEF IInv, SeenKept
  <1> QED
    BY <1>9, <1>10

\* Nothing was written to the request.
LEMMA FinishNothingStep ==
  ASSUME IInv, SendDone, FinishNothing
  PROVE  IInv' /\ SeenKept
  <1>1. /\ pc = "write" /\ ~Pending(conn) /\ ~conn.responding /\ ~conn.closeAfter
        /\ conn' = conn /\ Sync /\ AfterWrite(conn')
        /\ UNCHANGED <<clientVars, inq, wire, unread>>
    BY DEF SendDone, FinishNothing, Responded
  <1>2. /\ Sound(conn, stream, wire) /\ conn.open /\ ~conn.saving
        /\ inq \in Seq(InUnit) /\ Len(conn.rbuf) <= MaxRead /\ ~conn.shut
    BY <1>1 DEF IInv, Worker, Shape
  <1>3. Settled(conn)
    BY <1>1 DEF Settled
  <1>4. pc' = "expire" /\ out' = FALSE
    BY <1>1, <1>2 DEF AfterWrite
  <1>5. timer' = Due(conn') /\ armed' = Pending(conn')
    BY <1>1, <1>2 DEF Sync, Schedule
  <1>6. GoesOn(conn') => Chain(stream, sent, FirstUnit(conn'), conn'.rbuf \o inq')
    BY <1>1 DEF IInv, Aligned
  <1>7. /\ inq' \in Seq(InUnit) /\ Sound(conn', stream, wire) /\ Settled(conn') /\ conn'.open
        /\ Len(conn'.rbuf) <= MaxRead /\ ~conn'.shut
    BY <1>1, <1>2, <1>3
  <1>8. /\ pc' \in {"expire", "read", "write", "save"} /\ (pc' = "save" <=> conn'.saving)
        /\ out' \in BOOLEAN
    BY <1>1, <1>2, <1>4
  <1>9. IInv'
    BY <1>1, <1>5, <1>6, <1>7, <1>8, SyncedStep
  <1> QED
    BY <1>1, <1>9 DEF SeenKept

\* A connection that has closed its side, n requests answered.
Counted(c, n) == [c EXCEPT !.handled = n]
HalfClosed(c) == [c EXCEPT !.shut = TRUE, !.closeAfter = FALSE, !.idleAge = 0]

\* The count of requests answered is raised, and no more.
LEMMA CountedIs ==
  ASSUME NEW c \in Conns, NEW n \in 0 .. KeepAliveMax
  PROVE  /\ Counted(c, n) \in Conns /\ Counted(c, n).handled = n
         /\ Counted(c, n).open = c.open /\ Counted(c, n).rbuf = c.rbuf
         /\ Counted(c, n).request = c.request
         /\ Counted(c, n).dispatched = c.dispatched /\ Counted(c, n).shut = c.shut
         /\ Counted(c, n).parsed = c.parsed /\ Counted(c, n).body = c.body
         /\ Counted(c, n).saving = c.saving /\ Counted(c, n).seen = c.seen
         /\ Counted(c, n).responding = c.responding
         /\ Counted(c, n).closeAfter = c.closeAfter
         /\ Counted(c, n).mustClose = c.mustClose
         /\ Counted(c, n).wbuf = c.wbuf /\ Counted(c, n).file = c.file
  <1>1. Counted(c, n) \in Conns
    BY DEF Counted, Conns
  <1> QED
    BY <1>1 DEF Counted, Conns

\* sw_connection_shutdown_send changes these fields, and no more.
LEMMA HalfClosedIs ==
  ASSUME NEW c \in Conns
  PROVE  /\ HalfClosed(c) \in Conns /\ HalfClosed(c).handled = c.handled
         /\ HalfClosed(c).open = c.open /\ HalfClosed(c).rbuf = c.rbuf
         /\ HalfClosed(c).request = c.request
         /\ HalfClosed(c).dispatched = c.dispatched /\ HalfClosed(c).shut
         /\ HalfClosed(c).parsed = c.parsed /\ HalfClosed(c).body = c.body
         /\ HalfClosed(c).saving = c.saving /\ HalfClosed(c).seen = c.seen
         /\ HalfClosed(c).responding = c.responding /\ ~HalfClosed(c).closeAfter
         /\ HalfClosed(c).mustClose = c.mustClose
         /\ HalfClosed(c).wbuf = c.wbuf /\ HalfClosed(c).file = c.file
  <1>1. 0 \in 0 .. Longest
    BY LongestIs
  <1>2. HalfClosed(c) \in Conns
    BY <1>1 DEF HalfClosed, Conns
  <1> QED
    BY <1>2 DEF HalfClosed, Conns

\* The last response is written: the server closes its side.
LEMMA FinishCloseStep ==
  ASSUME IInv, SendDone, FinishClose
  PROVE  IInv' /\ SeenKept
  <1> DEFINE n == conn.handled + (IF conn.responding THEN 1 ELSE 0)
             h == Counted(conn, n)
             d == HalfClosed(h)
  <1>1. /\ pc = "write" /\ ~Pending(conn) /\ conn.closeAfter
        /\ conn' \in ShutdownSend([conn EXCEPT !.handled = @ + (IF conn.responding THEN 1 ELSE 0)])
        /\ Sync /\ AfterWrite(conn')
        /\ UNCHANGED <<clientVars, inq, wire, unread>>
    BY DEF SendDone, FinishClose, Responded
  <1>2. /\ conn \in Conns /\ Sound(conn, stream, wire) /\ conn.open /\ ~conn.saving
        /\ inq \in Seq(InUnit) /\ Len(conn.rbuf) <= MaxRead /\ ~conn.shut
    BY <1>1 DEF IInv, Worker, Shape, Sound
  <1>3. n \in 0 .. KeepAliveMax
    <2>1. conn.handled \in 0 .. KeepAliveMax /\ conn.handled < KeepAliveMax
      BY <1>2 DEF Sound, Requests, Conns
    <2> QED
      BY <2>1
  <1>4. [conn EXCEPT !.handled = @ + (IF conn.responding THEN 1 ELSE 0)] = h
    BY <1>2 DEF Counted, Conns
  <1> HIDE DEF n
  <1>5. /\ h \in Conns /\ h.open = conn.open /\ h.rbuf = conn.rbuf
        /\ h.request = conn.request
        /\ h.dispatched = conn.dispatched /\ h.shut = conn.shut
        /\ h.parsed = conn.parsed /\ h.body = conn.body
        /\ h.saving = conn.saving /\ h.seen = conn.seen
        /\ h.responding = conn.responding /\ h.closeAfter = conn.closeAfter
        /\ h.mustClose = conn.mustClose /\ h.wbuf = conn.wbuf /\ h.file = conn.file
    BY <1>2, <1>3, CountedIs, ZenonT(40)
  <1> HIDE DEF h
  <1>6. conn' = d \/ conn' = Close(h)
    BY <1>1, <1>4 DEF ShutdownSend, HalfClosed
  <1>7. CASE conn' = Close(h)
    <2>1. ~conn'.saving
      BY <1>5, <1>7, CloseIs
    <2>2. pc' = "expire" /\ out' \in BOOLEAN
      BY <1>1, <2>1 DEF AfterWrite
    <2>3. inq' \in Seq(InUnit) /\ UNCHANGED <<clientVars, wire, unread>>
      BY <1>1, <1>2
    <2> QED
      BY <1>1, <1>5, <1>7, <2>2, <2>3, ClosedStep
  <1>8. CASE conn' = d
    <2>1. /\ d \in Conns /\ d.open = h.open /\ d.rbuf = h.rbuf /\ d.request = h.request
          /\ d.dispatched = h.dispatched /\ d.shut
          /\ d.parsed = h.parsed /\ d.body = h.body
          /\ d.saving = h.saving /\ d.seen = h.seen
          /\ d.responding = h.responding /\ ~d.closeAfter
          /\ d.mustClose = h.mustClose /\ d.wbuf = h.wbuf /\ d.file = h.file
      BY <1>5, HalfClosedIs
    <2> HIDE DEF d
    <2>2. Requests(d, stream)
      BY <1>2, <1>5, <2>1 DEF Sound, Requests, Ready
    <2>3. Replying(d) /\ Settled(d) /\ ~Pending(d)
      BY <1>1, <1>2, <1>5, <2>1 DEF Sound, Replying, Ready, Pending, GoesOn, Settled
    <2>4. Answered(d, wire) /\ ~GoesOn(d)
      BY <2>1 DEF Answered, GoesOn
    <2>5. /\ Sound(conn', stream, wire) /\ Settled(conn') /\ ~GoesOn(conn') /\ conn'.open
          /\ ~conn'.saving /\ conn'.seen = conn.seen /\ conn'.rbuf = conn.rbuf
      BY <1>2, <1>5, <1>8, <2>1, <2>2, <2>3, <2>4 DEF Sound
    <2>6. timer' = Due(conn') /\ armed' = Pending(conn')
      BY <1>1, <2>5 DEF Sync, Schedule
    <2>7. pc' = "expire" /\ out' = FALSE
      BY <1>1, <2>5 DEF AfterWrite
    <2>8. inq' \in Seq(InUnit) /\ Len(conn'.rbuf) <= MaxRead
      BY <1>1, <1>2, <2>5
    <2>9. IInv'
      BY <1>1, <2>5, <2>6, <2>7, <2>8, SyncedStep
    <2> QED
      BY <2>5, <2>9 DEF SeenKept
  <1> QED
    BY <1>6, <1>7, <1>8

\* The struct as sw_connection_reset_request leaves it, with b in its read buffer and n
\* requests answered.
Reset(c, b, n) == ResetRequest([c EXCEPT !.rbuf = b, !.handled = n])

\* What sw_connection_reset_request leaves.
LEMMA ResetIs ==
  ASSUME NEW c \in Conns, NEW b \in Seq(InUnit), NEW n \in 0 .. KeepAliveMax
  PROVE  /\ Reset(c, b, n) \in Conns /\ Reset(c, b, n).handled = n /\ Reset(c, b, n).rbuf = b
         /\ Reset(c, b, n).request = 0 /\ ~Reset(c, b, n).dispatched
         /\ ~Reset(c, b, n).responding /\ Reset(c, b, n).parsed = 0
         /\ Reset(c, b, n).body = 0
         /\ Reset(c, b, n).open = c.open /\ Reset(c, b, n).shut = c.shut
         /\ Reset(c, b, n).saving = c.saving /\ Reset(c, b, n).seen = c.seen
         /\ Reset(c, b, n).closeAfter = c.closeAfter
         /\ Reset(c, b, n).wbuf = c.wbuf /\ Reset(c, b, n).file = c.file
  <1> DEFINE m == [c EXCEPT !.rbuf = b, !.handled = n]
  <1>1. /\ m \in Conns /\ m.handled = n /\ m.rbuf = b
        /\ m.open = c.open /\ m.shut = c.shut /\ m.saving = c.saving /\ m.seen = c.seen
        /\ m.closeAfter = c.closeAfter /\ m.wbuf = c.wbuf /\ m.file = c.file
    BY DEF Conns
  <1>2. Reset(c, b, n) = ResetRequest(m)
    BY DEF Reset
  <1> HIDE DEF m
  <1>3. 0 \in 0 .. MaxRequests /\ 0 \in 0 .. 4 /\ 0 \in 0 .. 2 /\ 0 \in 0 .. Longest
    BY LongestIs
  <1>4. /\ ResetRequest(m) \in Conns /\ ResetRequest(m).handled = m.handled
        /\ ResetRequest(m).rbuf = m.rbuf
        /\ ResetRequest(m).request = 0 /\ ~ResetRequest(m).dispatched
        /\ ~ResetRequest(m).responding /\ ResetRequest(m).parsed = 0
        /\ ResetRequest(m).body = 0
        /\ ResetRequest(m).open = m.open /\ ResetRequest(m).shut = m.shut
        /\ ResetRequest(m).saving = m.saving /\ ResetRequest(m).seen = m.seen
        /\ ResetRequest(m).closeAfter = m.closeAfter
        /\ ResetRequest(m).wbuf = m.wbuf /\ ResetRequest(m).file = m.file
    <2>1. ResetRequest(m) \in Conns
      BY <1>1, <1>3, ZenonT(40) DEF ResetRequest, Conns
    <2> QED
      BY <1>1, <2>1 DEF ResetRequest, Conns
  <1> QED
    BY <1>1, <1>2, <1>4

\* The request answered leaves the buffer, and the connection goes on to the next.
LEMMA NextSound ==
  ASSUME stream \in Seq(Kinds), sent \in 0 .. 4,
         NEW w, NEW q \in Seq(InUnit), NEW c, Sound(c, stream, w), GoesOn(c),
         c.responding, ~Pending(c), ~c.saving,
         Chain(stream, sent, FirstUnit(c), c.rbuf \o q)
  PROVE  /\ Sound(NextRequest(c), stream, w) /\ Settled(NextRequest(c))
         /\ GoesOn(NextRequest(c)) /\ ~NextRequest(c).saving
         /\ Chain(stream, sent, FirstUnit(NextRequest(c)), NextRequest(c).rbuf \o q)
         /\ Len(NextRequest(c).rbuf) <= Len(c.rbuf)
         /\ ~NextRequest(c).responding
         /\ NextRequest(c).handled = c.handled + 1 /\ c.request = c.handled + 1
         /\ NextRequest(c).wbuf = <<>> /\ NextRequest(c).file = <<>>
  <1> DEFINE b == Consume(c)
             n == c.handled + 1
             d == Reset(c, b, n)
             r == c.request
  <1>1. /\ c \in Conns /\ Requests(c, stream) /\ Replying(c) /\ Answered(c, w)
        /\ c.open /\ ~c.closeAfter /\ ~c.shut
    BY DEF Sound, GoesOn
  <1>2. Ready(c) /\ ~c.mustClose /\ n < KeepAliveMax
    BY <1>1 DEF Replying
  <1>3. r = Len(c.seen) /\ r \in 1 .. Len(stream) /\ Len(c.seen) = n /\ r \in Nat
    BY <1>1, <1>2 DEF Requests, Ready, Conns
  <1>4. \/ c.parsed = Parts(stream[r]) /\ Len(c.rbuf) >= c.parsed
        \/ c.parsed = 0 /\ c.body = 0
    <2>1. c.body \in 0 .. 2
      BY <1>1 DEF Conns
    <2> QED
      BY <1>1, <1>2, <2>1 DEF Requests
  <1>5. Parts(stream[r]) \in 2 .. 4 /\ c.rbuf \in Seq(InUnit) /\ Len(c.rbuf) \in Nat
    BY <1>1, PartsIs, LenProperties DEF Conns
  <1>6. b = SubSeq(c.rbuf, c.parsed + 1, Len(c.rbuf))
    BY DEF Consume
  <1> HIDE DEF b
  <1>7. /\ Chain(stream, sent, Unit(r + 1, 1), b \o q)
        /\ b \in Seq(InUnit) /\ Len(b) <= Len(c.rbuf)
    <2>1. CASE c.parsed = Parts(stream[r]) /\ Len(c.rbuf) >= c.parsed
      <3> DEFINE k == c.parsed
      <3>1. k \in 0 .. Parts(stream[r]) /\ k <= Len(c.rbuf) /\ k # 0 /\ k \in Nat
            /\ k = Parts(stream[r])
        BY <1>5, <2>1
      <3>2. FirstUnit(c) = Unit(r, 1)
        BY <1>2, <1>3, <3>1 DEF FirstUnit
      <3>3. Chain(stream, sent, Unit(r, 1), c.rbuf \o q)
        BY <3>2
      <3> HIDE DEF k
      <3>4. Chain(stream, sent, IF k = Parts(stream[r]) THEN Unit(r + 1, 1) ELSE Unit(r, k + 1),
                  SubSeq(c.rbuf, k + 1, Len(c.rbuf)) \o q)
        BY <1>3, <1>5, <3>1, <3>3, ChainConsume
      <3>5. /\ SubSeq(c.rbuf, k + 1, Len(c.rbuf)) \in Seq(InUnit)
            /\ Len(SubSeq(c.rbuf, k + 1, Len(c.rbuf))) <= Len(c.rbuf)
        <4>1. \A i \in 1 .. Len(c.rbuf) : c.rbuf[i] \in InUnit
          BY <1>5, ElementOfSeq
        <4>2. k + 1 \in Nat \ {0}
          BY <3>1
        <4> QED
          BY <1>5, <3>1, <4>1, <4>2, SubSeqProperties
      <3> QED
        BY <1>6, <3>1, <3>4, <3>5 DEF k
    <2>2. CASE c.parsed = 0 /\ c.body = 0
      <3>1. b = c.rbuf
        BY <1>5, <1>6, <2>2, SubSeqFull
      <3>2. FirstUnit(c) = Unit(r + 1, 1)
        BY <1>3, <2>2 DEF FirstUnit
      <3> QED
        BY <1>5, <3>1, <3>2
    <2> QED
      BY <1>4, <2>1, <2>2
  <1>8. NextRequest(c) = d
    BY <1>1 DEF NextRequest, Reset, b, Conns
  <1>9. n \in 0 .. KeepAliveMax
    <2>1. c.handled \in 0 .. KeepAliveMax
      BY <1>1 DEF Conns
    <2> QED
      BY <1>2, <2>1
  <1> HIDE DEF n
  <1>10. /\ d \in Conns /\ d.handled = n /\ d.rbuf = b /\ d.request = 0 /\ ~d.dispatched
         /\ ~d.responding /\ d.parsed = 0 /\ d.body = 0
         /\ d.open = c.open /\ d.shut = c.shut /\ d.saving = c.saving /\ d.seen = c.seen
         /\ d.closeAfter = c.closeAfter /\ d.wbuf = c.wbuf /\ d.file = c.file
    <2>1. c \in Conns /\ b \in Seq(InUnit) /\ n \in 0 .. KeepAliveMax
      BY <1>1, <1>7, <1>9
    <2> QED
      BY <2>1, ResetIs
  <1> HIDE DEF d
  <1>11. Requests(d, stream)
    BY <1>1, <1>2, <1>3, <1>10 DEF Requests, Ready
  <1>12. Replying(d) /\ Settled(d) /\ GoesOn(d)
    BY <1>1, <1>10 DEF Replying, Settled, Ready, Pending, GoesOn
  <1>13. Answered(d, w)
    BY <1>1, <1>3, <1>10 DEF Answered, Pending, GoesOn
  <1>14. FirstUnit(d) = Unit(r + 1, 1)
    BY <1>3, <1>10 DEF FirstUnit, Ready
  <1>15. d.wbuf = <<>> /\ d.file = <<>>
    BY <1>10 DEF Pending
  <1> QED
    BY <1>3, <1>7, <1>8, <1>10, <1>11, <1>12, <1>13, <1>14, <1>15 DEF Sound, n

\* A response is written, and the next request, if it came, is processed.
LEMMA FinishNextStep ==
  ASSUME IInv, SendDone, FinishNext
  PROVE  /\ IInv' /\ SeenKept /\ Len(conn'.rbuf) <= Len(conn.rbuf)
         /\ NextRequest(conn).handled = conn.handled + 1 /\ conn.request = conn.handled + 1
         /\ GoesOn(conn) /\ GoesOn(NextRequest(conn)) /\ ~NextRequest(conn).responding
         /\ NextRequest(conn).wbuf = <<>> /\ NextRequest(conn).file = <<>>
         /\ "large" \notin Replies => Outcome(NextRequest(conn), conn')
  <1> DEFINE c == NextRequest(conn)
             d == [c EXCEPT !.started = TRUE]
  <1>1. /\ pc = "write" /\ ~Pending(conn) /\ conn.responding /\ ~conn.closeAfter
        /\ AfterWrite(conn')
        /\ UNCHANGED <<clientVars, inq, wire, unread>>
        /\ IF ~Leftover(c) THEN conn' = c /\ Sync
           ELSE /\ conn' \in ProcessInput(d)
                /\ IF Answering THEN Sync
                   ELSE /\ timer' = Due(IF conn'.headers THEN conn' ELSE c)
                        /\ UNCHANGED armed
    BY DEF SendDone, FinishNext, Responded
  <1>2. /\ conn \in Conns /\ Sound(conn, stream, wire) /\ conn.open /\ ~conn.saving
        /\ inq \in Seq(InUnit) /\ Len(conn.rbuf) <= MaxRead /\ ~conn.shut /\ armed
        /\ stream \in Seq(Kinds) /\ Len(stream) <= MaxRequests /\ sent \in 0 .. 4
    BY <1>1 DEF IInv, Worker, Shape, Sound, Timers
  <1>3. GoesOn(conn) /\ Chain(stream, sent, FirstUnit(conn), conn.rbuf \o inq)
    BY <1>1, <1>2 DEF GoesOn, IInv, Aligned
  <1>4. /\ Sound(c, stream, wire) /\ Settled(c) /\ GoesOn(c) /\ ~c.saving
        /\ Chain(stream, sent, FirstUnit(c), c.rbuf \o inq)
        /\ Len(c.rbuf) <= Len(conn.rbuf)
        /\ ~c.responding /\ c.handled = conn.handled + 1 /\ conn.request = conn.handled + 1
        /\ c.wbuf = <<>> /\ c.file = <<>>
    BY <1>1, <1>2, <1>3, NextSound
  <1> HIDE DEF c
  <1>5. Len(c.rbuf) \in Nat /\ Len(conn.rbuf) \in Nat /\ c \in Conns /\ inq' = inq
    BY <1>1, <1>2, <1>4, LenProperties DEF Sound, Conns
  <1>6. /\ SeenKept
        /\ c.handled = conn.handled + 1 /\ conn.request = conn.handled + 1
        /\ GoesOn(conn) /\ GoesOn(c) /\ ~c.responding /\ c.wbuf = <<>> /\ c.file = <<>>
    BY <1>1, <1>2, <1>3, <1>4 DEF SeenKept
  <1>7. CASE conn' = c /\ Sync
    <2>1. timer' = Due(conn') /\ armed' = Pending(conn')
      BY <1>4, <1>7 DEF Sync, Schedule, GoesOn
    <2>2. pc' = "expire" /\ out' = FALSE
      BY <1>1, <1>4, <1>7 DEF AfterWrite
    <2>3. /\ Sound(conn', stream, wire) /\ Settled(conn') /\ conn'.open /\ ~conn'.shut
          /\ ~conn'.saving /\ inq' \in Seq(InUnit) /\ Len(conn'.rbuf) <= MaxRead
          /\ Chain(stream, sent, FirstUnit(conn'), conn'.rbuf \o inq')
      BY <1>2, <1>4, <1>5, <1>7 DEF GoesOn
    <2>4. IInv'
      BY <1>1, <2>1, <2>2, <2>3, SyncedStep
    <2>5. Outcome(c, conn')
      BY <1>7 DEF Outcome, SameOutput
    <2>6. Len(conn'.rbuf) <= Len(conn.rbuf)
      BY <1>4, <1>7
    <2> QED
      BY <1>6, <2>4, <2>5, <2>6 DEF c
  <1>71. /\ c.phaseAge = 0 /\ ~c.headers /\ ~c.started
    BY <1>2 DEF c, NextRequest, ResetRequest, Conns
  <1>8. CASE Leftover(c) /\ conn' \in ProcessInput(d)
    <2>1. /\ d \in Conns /\ d.open = c.open /\ d.rbuf = c.rbuf /\ d.request = c.request
          /\ d.dispatched = c.dispatched /\ d.shut = c.shut
          /\ d.parsed = c.parsed /\ d.body = c.body /\ d.saving = c.saving
          /\ d.handled = c.handled /\ d.seen = c.seen /\ d.wbuf = c.wbuf /\ d.file = c.file
          /\ d.responding = c.responding /\ d.closeAfter = c.closeAfter
          /\ d.mustClose = c.mustClose
          /\ d.started /\ d.headers = c.headers /\ d.idleAge = c.idleAge
          /\ d.phaseAge = c.phaseAge
      BY <1>5 DEF Conns
    <2> HIDE DEF d
    <2>2. /\ Sound(d, stream, wire) /\ Settled(d) /\ FirstUnit(d) = FirstUnit(c)
          /\ (GoesOn(d) <=> GoesOn(c))
      <3>1. Len(d.rbuf) \in Nat /\ Len(c.rbuf) <= Len(d.rbuf)
        BY <1>5, <2>1
      <3> QED
        BY <1>4, <1>5, <2>1, <3>1, InputSound
    <2>3. /\ Sound(conn', stream, wire) /\ Settled(conn') /\ conn'.open /\ ~conn'.shut
          /\ GoesOn(conn') => Chain(stream, sent, FirstUnit(conn'), conn'.rbuf \o inq)
          /\ Len(conn'.rbuf) <= Len(d.rbuf)
          /\ Pending(conn') \/ Ready(conn') \/ conn' = d \/ conn'.headers
      <3>1. d.open /\ ~d.shut /\ ~d.saving
        BY <1>4, <2>1 DEF GoesOn
      <3>2. GoesOn(d) => Chain(stream, sent, FirstUnit(d), d.rbuf \o inq)
        BY <1>4, <2>1, <2>2
      <3> QED
        BY <1>2, <1>8, <2>2, <3>1, <3>2, ProcessSound
    <2>4. conn' \in Conns /\ Len(conn'.rbuf) <= MaxRead /\ Len(conn'.rbuf) <= Len(conn.rbuf)
      <3>1. conn' \in Conns
        BY <2>3 DEF Sound
      <3>2. Len(conn'.rbuf) \in Nat
        BY <3>1, LenProperties DEF Conns
      <3> QED
        BY <1>2, <1>4, <1>5, <2>1, <2>3, <3>1, <3>2, SMTT(30)
    <2>5. pc' = (IF conn'.saving THEN "save" ELSE "expire") /\ out' = FALSE
      BY <1>1 DEF AfterWrite
    <2>6. pc' = "save" <=> conn'.saving
      BY <2>4, <2>5 DEF Conns
    <2>7. inq' \in Seq(InUnit) /\ (GoesOn(conn') => Chain(stream, sent, FirstUnit(conn'), conn'.rbuf \o inq'))
      BY <1>2, <1>5, <2>3
    <2>71. ASSUME "large" \notin Replies PROVE Outcome(c, conn')
      <3>1. d.open /\ ~d.shut /\ ~d.saving
        BY <1>4, <2>1 DEF GoesOn
      <3>2. GoesOn(d) => Chain(stream, sent, FirstUnit(d), d.rbuf \o inq)
        BY <1>4, <2>1, <2>2
      <3>3. Outcome(d, conn')
        BY <1>2, <1>8, <2>2, <2>71, <3>1, <3>2, ProcessSound
      <3> QED
        BY <2>1, <3>3 DEF Outcome, SameOutput, Begins, GoesOn
    <2>8. CASE Sync
      <3>1. timer' = Due(conn') /\ armed' = Pending(conn')
        BY <2>3, <2>8 DEF Sync, Schedule
      <3>2. pc' \in {"expire", "read", "write", "save"} /\ out' \in BOOLEAN
        BY <2>5
      <3>3. IInv'
        BY <1>1, <2>3, <2>4, <2>6, <2>7, <3>1, <3>2, SyncedStep
      <3> QED
        BY <1>6, <2>4, <2>71, <3>3 DEF c
    <2>9. CASE /\ ~Answering
               /\ timer' = Due(IF conn'.headers THEN conn' ELSE c)
               /\ UNCHANGED armed
      <3>1. ~Pending(conn') /\ ~Ready(conn') /\ ~conn'.saving
        BY <2>3, <2>9 DEF Answering, Sound, Replying
      <3>2. timer' \in (- Longest) .. Longest /\ Longest \in Nat
        <4>1. (IF conn'.headers THEN conn' ELSE c) \in Conns
          BY <1>5, <2>4
        <4> QED
          BY <2>9, <4>1, DueIs, LongestIs
      <3>3. timer' \in (- Longest) .. NoTimer
        BY <3>2 DEF NoTimer
      <3>4. /\ stream' = stream /\ sent' = sent /\ client' = client /\ wire' = wire
            /\ unread' = unread /\ armed' = armed
        BY <1>1, <2>9 DEF clientVars
      <3>5. pc' = "expire"
        BY <2>5, <3>1
      <3>6. Shape'
        BY <2>4, <2>5, <2>7, <3>3, <3>4, <3>5 DEF IInv, Shape
      <3>7. Worker'
        BY <2>3, <3>1, <3>5 DEF Worker
      <3>8. Timers'
        <4>1. timer' # NoTimer
          BY <3>2 DEF NoTimer
        <4>2. CASE conn'.headers
          <5>1. TimerValid'
            BY <2>9, <4>1, <4>2 DEF TimerValid
          <5> QED
            BY <1>2, <3>1, <3>4, <3>5, <5>1 DEF Timers
        <4>3. CASE ~conn'.headers
          <5>1. conn' = d /\ conn'.rbuf # <<>> /\ Phase(conn') /\ ~Phase(c) /\ ~Pending(c)
            BY <1>4, <1>71, <1>8, <2>1, <2>3, <3>1, <4>3 DEF Leftover, Phase, Pending
          <5>2. timer' = IdleTimeout - c.idleAge
            BY <1>5, <2>9, <4>3, <5>1, DueIs
          <5>3. CASE HeaderTimeout < IdleTimeout
            <6>1. TimerLost'
              BY <1>2, <2>1, <3>1, <3>4, <4>3, <5>1, <5>3 DEF TimerLost
            <6> QED
              BY <1>2, <3>1, <3>4, <3>5, <6>1 DEF Timers
          <5>4. CASE HeaderTimeout >= IdleTimeout
            <6>1. Due(conn') = IdleTimeout - c.idleAge
              <7>1. PhaseTimeout(conn') = HeaderTimeout
                BY <4>3 DEF PhaseTimeout
              <7>2. conn'.idleAge = c.idleAge /\ conn'.phaseAge = 0 /\ c.idleAge \in Nat
                BY <1>5, <1>71, <2>1, <5>1, LongestIs DEF Conns
              <7>3. /\ Due(conn') <= IdleTimeout - c.idleAge
                    /\ \/ Due(conn') = IdleTimeout - c.idleAge
                       \/ Due(conn') = HeaderTimeout - 0
                BY <2>4, <3>1, <5>1, <7>1, <7>2, DueIs
              <7> QED
                BY <5>4, <7>2, <7>3, LongestIs
            <6>2. TimerValid'
              BY <4>1, <5>2, <6>1 DEF TimerValid
            <6> QED
              BY <1>2, <3>1, <3>4, <3>5, <6>2 DEF Timers
          <5>5. HeaderTimeout \in Nat /\ IdleTimeout \in Nat
            BY LongestIs
          <5> QED
            BY <5>3, <5>4, <5>5
        <4> QED
          BY <4>2, <4>3
      <3>9. Aligned' /\ Sound(conn', stream', wire')
        BY <2>3, <2>7, <3>4 DEF Aligned
      <3> QED
        BY <1>6, <2>4, <2>71, <3>6, <3>7, <3>8, <3>9 DEF IInv, c
    <2> QED
      BY <1>1, <1>7, <2>8, <2>9
  <1> QED
    BY <1>1, <1>7, <1>8

\* A connection just accepted.
LEMMA InitInv == Init => IInv
  <1> SUFFICES ASSUME Init PROVE IInv
    OBVIOUS
  <1>1. /\ 0 \in 0 .. MaxRequests /\ 0 \in 0 .. 4 /\ 0 \in 0 .. 2 /\ 0 \in 0 .. KeepAliveMax
        /\ 0 \in 0 .. Longest
    BY LongestIs
  <1>2. /\ <<>> \in Seq(InUnit) /\ <<>> \in Seq(OutUnit) /\ <<>> \in Seq(1 .. MaxRequests)
        /\ <<>> \in Seq(Kinds) /\ Len(<<>>) = 0
    BY EmptySeq
  <1>3. conn \in Conns
    BY <1>1, <1>2 DEF Init, Fresh, Conns
  <1>4. /\ conn.open /\ conn.rbuf = <<>> /\ conn.wbuf = <<>> /\ conn.file = <<>>
        /\ conn.request = 0 /\ ~conn.dispatched /\ ~conn.started /\ ~conn.responding
        /\ ~conn.closeAfter /\ ~conn.mustClose /\ ~conn.shut /\ conn.parsed = 0
        /\ conn.body = 0 /\ ~conn.saving /\ conn.handled = 0 /\ conn.seen = <<>>
        /\ conn.idleAge = 0
    BY DEF Init, Fresh
  <1>5. /\ stream = <<>> /\ sent = 0 /\ client = "active" /\ inq = <<>> /\ wire = <<>>
        /\ unread = 0 /\ timer = IdleTimeout /\ armed = FALSE /\ pc = "expire" /\ out = FALSE
    BY DEF Init
  <1>6. Due(conn) = IdleTimeout
    <2>1. ~Pending(conn) /\ ~Phase(conn)
      BY <1>4 DEF Pending, Phase
    <2>2. IdleTimeout \in Nat
      BY LongestIs
    <2> QED
      BY <1>3, <1>4, <2>1, <2>2, DueIs
  <1>7. IdleTimeout \in (- Longest) .. NoTimer /\ IdleTimeout # NoTimer
    BY LongestIs DEF NoTimer
  <1>8. Shape
    <2>1. Len(conn.rbuf) <= MaxRead /\ Len(stream) <= MaxRequests
      BY <1>2, <1>4, <1>5
    <2>2. sent \in 0 .. 4 /\ SentOf(stream, sent) /\ unread \in 0 .. SendBuffer
      BY <1>5 DEF SentOf
    <2>3. stream \in Seq(Kinds) /\ inq \in Seq(InUnit) /\ wire \in Seq(OutUnit)
      BY <1>2, <1>5
    <2>4. timer \in (- Longest) .. NoTimer
      BY <1>5, <1>7
    <2>5. /\ client \in {"active", "silent", "gone"} /\ armed \in BOOLEAN /\ out \in BOOLEAN
          /\ pc \in {"expire", "wait", "read", "write", "save"}
      BY <1>5
    <2> QED
      BY <2>1, <2>2, <2>3, <2>4, <2>5 DEF Shape
  <1>9. Sound(conn, stream, wire)
    <2>1. Requests(conn, stream)
      BY <1>2, <1>4 DEF Requests, Ready
    <2>2. Replying(conn)
      BY <1>4 DEF Replying, Ready, Pending, GoesOn
    <2>3. Answered(conn, wire)
      BY <1>4, <1>5 DEF Answered, LastAnswered
    <2> QED
      BY <1>3, <2>1, <2>2, <2>3 DEF Sound
  <1>10. Aligned
    <2>1. FirstUnit(conn) = Unit(1, 1)
      BY <1>2, <1>4 DEF FirstUnit, Ready
    <2>2. conn.rbuf \o inq = <<>>
      BY <1>2, <1>4, <1>5, ConcatEmptySeq
    <2>3. Upcoming(stream, sent) = Unit(1, 1)
      BY <1>2, <1>5 DEF Upcoming
    <2>4. Chain(stream, sent, Unit(1, 1), <<>>)
      BY <1>2, <2>3 DEF Chain
    <2> QED
      BY <2>1, <2>2, <2>4 DEF Aligned
  <1>11. Worker
    BY <1>4, <1>5 DEF Worker, Settled, Pending
  <1>12. Timers
    BY <1>4, <1>5, <1>6, <1>7 DEF Timers, TimerValid, Pending
  <1> QED
    BY <1>8, <1>9, <1>10, <1>11, <1>12 DEF IInv

\* Every step keeps the invariant, and dispatches nothing once the connection is to close.
LEMMA NextInv == IInv /\ [Next]_vars => IInv' /\ (SeenKept \/ UNCHANGED vars)
  <1> SUFFICES ASSUME IInv, [Next]_vars PROVE IInv' /\ (SeenKept \/ UNCHANGED vars)
    OBVIOUS
  <1>1. CASE \E kind \in Kinds : ClientSends(kind)
    BY <1>1, SendsStep
  <1>2. CASE ClientReads \/ ClientStops
    BY <1>2, ClientStepInv
  <1>3. CASE Expire
    BY <1>3, ExpireStep
  <1>4. CASE StartWait
    BY <1>4, StartWaitStep
  <1>5. CASE Hangup
    BY <1>5, HangupStep
  <1>6. CASE Event
    BY <1>6, EventStep
  <1>7. CASE \E n \in 1 .. Len(inq) : Receive(n)
    BY <1>7, ReceiveStep
  <1>8. CASE ReceiveEnds
    BY <1>8, ReceiveEndsStep
  <1>9. CASE Discard
    BY <1>9, DiscardStep
  <1>10. CASE SaveUnit
    BY <1>10, SaveUnitStep
  <1>11. CASE SaveEnds
    BY <1>11, SaveEndsStep
  <1>12. CASE Send
    BY <1>12, SendStep
  <1>13. CASE SendBlocks
    BY <1>13, SendBlocksStep
  <1>14. CASE SendDone
    BY <1>14, FinishNothingStep, FinishCloseStep, FinishNextStep DEF SendDone
  <1>15. CASE Tick
    BY <1>15, TickStep
  <1>16. CASE UNCHANGED vars
    <2>1. /\ stream' = stream /\ sent' = sent /\ client' = client /\ inq' = inq
          /\ wire' = wire /\ unread' = unread /\ conn' = conn /\ timer' = timer
          /\ armed' = armed /\ pc' = pc /\ out' = out
      BY <1>16 DEF vars, clientVars, server
    <2>2. IInv'
      BY <2>1 DEF IInv, Shape, Aligned, Worker, Timers, TimerValid, TimerLost
    <2> QED
      BY <1>16, <2>2
  <1>17. CASE Ended
    BY <1>16, <1>17 DEF Ended
  <1> QED
    BY <1>1, <1>2, <1>3, <1>4, <1>5, <1>6, <1>7, <1>8, <1>9, <1>10, <1>11, <1>12, <1>13,
       <1>14, <1>15, <1>16, <1>17 DEF Next, ClientStep, WorkerStep

(***************************************************************************)
(* The theorems.                                                           *)
(***************************************************************************)

\* The inductive invariant.
THEOREM Invariant == Spec => []IInv
  <1>1. IInv /\ [Next]_vars => IInv'
    BY NextInv
  <1> QED
    BY InitInv, <1>1, PTL DEF Spec

\* Every variable keeps its type.
THEOREM TypeCorrect == Spec => []TypeOK
  <1>1. IInv => TypeOK
    <2> SUFFICES ASSUME IInv PROVE TypeOK
      OBVIOUS
    <2>1. conn \in Conns /\ Requests(conn, stream) /\ Shape
      BY DEF IInv, Sound
    <2>2. conn.request \in 0 .. Len(stream)
      <3>1. conn.request \in 0 .. MaxRequests /\ Len(stream) \in Nat
        BY <2>1, LenProperties DEF Conns, Shape
      <3> QED
        BY <2>1, <3>1 DEF Requests, Ready
    <2>3. /\ conn.handled \in 0 .. KeepAliveMax
          /\ conn.idleAge \in 0 .. Longest /\ conn.phaseAge \in 0 .. Longest
      BY <2>1 DEF Conns
    <2> QED
      BY <2>1, <2>2, <2>3 DEF Shape, TypeOK, InUnit
  <1> QED
    BY Invariant, <1>1, PTL

\* sw_connection_dispatch_request calls the handler once for each request, in the order
\* of the stream, and for no more of them than keep_alive_max_requests.
THEOREM HandlerOrder == Spec => []DispatchedInOrder
  <1>1. IInv => DispatchedInOrder
    BY DEF IInv, Sound, Requests, DispatchedInOrder
  <1> QED
    BY Invariant, <1>1, PTL

\* Between two requests the read buffer and the kernel hold exactly what the client sent
\* after the last request dispatched.
THEOREM NothingLost == Spec => []InputAligned
  <1>1. IInv => InputAligned
    <2> SUFFICES ASSUME IInv, conn.open, ~Ready(conn), ~conn.mustClose, ~conn.shut
                 PROVE  SentFrom(Unit(Len(conn.seen) + 1, 1), conn.rbuf \o inq)
      BY DEF InputAligned
    <2> DEFINE q == conn.rbuf \o inq
               u == Unit(Len(conn.seen) + 1, 1)
               p == Append(q, Coming)
    <2>1. q \in Seq(InUnit)
      <3>1. conn.rbuf \in Seq(InUnit) /\ inq \in Seq(InUnit)
        BY DEF IInv, Sound, Conns, Shape
      <3> QED
        BY <3>1, ConcatProperties
    <2>2. Chain(stream, sent, u, q)
      <3>1. GoesOn(conn)
        BY DEF IInv, Sound, Replying, GoesOn
      <3>2. FirstUnit(conn) = u
        BY DEF FirstUnit
      <3> QED
        BY <3>1, <3>2 DEF IInv, Aligned
    <2>3. Upcoming(stream, sent) = Coming
      BY DEF Upcoming, Coming, BetweenRequests, Last
    <2>4. \A x : Follows(stream, x) = After(x)
      BY DEF Follows, After
    <2> HIDE DEF q, u
    <2>5. /\ Len(q) \in Nat /\ Len(p) = Len(q) + 1 /\ DOMAIN q = 1 .. Len(q)
          /\ \A i \in 1 .. Len(q) : p[i] = q[i]
          /\ p[Len(q) + 1] = Coming
      BY <2>1, AppendProperties, LenProperties
    <2> HIDE DEF p
    <2>6. p[1] = u
      BY <2>1, <2>2, <2>3, <2>5, EmptySeq DEF Chain
    <2>7. ASSUME NEW i \in DOMAIN q PROVE p[i + 1] = After(p[i])
      <3>1. CASE i = Len(q)
        <4>1. q # <<>>
          BY <2>5, <2>7, <3>1, EmptySeq
        <4> QED
          BY <2>2, <2>3, <2>4, <2>5, <2>7, <3>1, <4>1 DEF Chain
      <3>2. CASE i # Len(q)
        <4>1. i \in 1 .. Len(q) - 1 /\ i + 1 \in 1 .. Len(q)
          BY <2>5, <2>7, <3>2
        <4> QED
          BY <2>2, <2>4, <2>5, <2>7, <4>1 DEF Chain
      <3> QED
        BY <3>1, <3>2
    <2> QED
      BY <2>6, <2>7 DEF SentFrom, p, q, u
  <1> QED
    BY Invariant, <1>1, PTL

\* A connection that goes on to a next request has answered all before it.
THEOREM AnsweredBefore == Spec => []AllAnswered
  <1>1. IInv => AllAnswered
    BY DEF IInv, Sound, Requests, Replying, Answered, AllAnswered, GoesOn
  <1> QED
    BY Invariant, <1>1, PTL

\* A connection the worker leaves to wait has a valid entry in the heap of timers, or
\* has lost it: whatever the timeouts, in no other way than TimerLost says.
THEOREM TimedOrLost == Spec => [](pc = "wait" /\ conn.open => TimerValid \/ TimerLost)
  <1>1. IInv => (pc = "wait" /\ conn.open => TimerValid \/ TimerLost)
    BY DEF IInv, Timers
  <1> QED
    BY Invariant, <1>1, PTL

\* With a header timeout that is not shorter than the idle timeout, it has a valid entry.
THEOREM AlwaysTimed == HeaderTimeout >= IdleTimeout => (Spec => []TimerKept)
  <1>1. HeaderTimeout \in Nat /\ IdleTimeout \in Nat
    BY LongestIs
  <1>2. HeaderTimeout >= IdleTimeout /\ IInv => TimerKept
    BY <1>1 DEF IInv, Timers, TimerLost, TimerKept
  <1> SUFFICES ASSUME HeaderTimeout >= IdleTimeout PROVE Spec => []TimerKept
    OBVIOUS
  <1>3. IInv => TimerKept
    BY <1>2
  <1> QED
    BY Invariant, <1>3, PTL

\* Once the client is told that the connection closes, no request is dispatched.
THEOREM NoneAfterClose == Spec => NoDispatchAfterClose
  <1>1. IInv /\ [Next]_vars => [conn.closeAfter \/ conn.shut => conn'.seen = conn.seen]_vars
    BY NextInv DEF SeenKept
  <1> QED
    BY Invariant, <1>1, PTL DEF Spec, NoDispatchAfterClose

-----------------------------------------------------------------------------
(***************************************************************************)
(* What a client receives: the responses written to the connection are     *)
(* whole and in order, and the server closes its side only after the last  *)
(* byte of a response.                                                     *)
(*                                                                         *)
(* The argument is about the bytes written so far together with those      *)
(* still to be written: a step either leaves that sequence alone, or it    *)
(* adds one whole response when none was left unwritten.                   *)
(***************************************************************************)

\* What the client received, and will receive of the response on its way.
All(c, w) == w \o Output(c)

\* A unit with which the responses may begin, and one that may come next after u.
Starts(v) == v.part = 1 /\ v.to \in {0, 1}

Goes(u, v) ==
  IF v.part = 1 THEN u.part = u.of /\ u.to # 0 /\ v.to \in {0, u.to + 1}
  ELSE v = [u EXCEPT !.part = @ + 1]

Steps(units) == \A i \in 1 .. Len(units) - 1 : Goes(units[i], units[i + 1])

InOrder(units) == (units # <<>> => Starts(units[1])) /\ Steps(units)

Ends(units) == units # <<>> => Last(units).part = Last(units).of

\* A connection that ends, or is answering, has a last response that is whole.
Ending(c, w) ==
  c.closeAfter \/ c.responding \/ c.shut => All(c, w) # <<>> /\ Ends(All(c, w))

\* A reply after which the connection closes is only finished by the writer.
Flushed(p, c) == p # "write" /\ c.closeAfter => Pending(c)

\* The responses are in order, and all that will be answered next follows the last.
Sequenced(c, w) ==
  /\ InOrder(All(c, w))
  /\ GoesOn(c) =>
       /\ Ends(All(c, w))
       /\ All(c, w) # <<>> => Last(All(c, w)).to # 0
       /\ LastAnswered(All(c, w)) = IF c.responding THEN c.request ELSE c.handled

\* No input the client may have sent overflows the read buffer while a response is on
\* its way; what would be dropped of that response is then never sent.
Fits == pc = "read" /\ Pending(conn) => Len(conn.rbuf) + Len(inq) <= MaxRead

(***************************************************************************)
(* Sequences of response units.                                            *)
(***************************************************************************)

\* The last unit of a sequence, and of one that another follows.
LEMMA LastJoined ==
  ASSUME NEW a \in Seq(OutUnit), NEW b \in Seq(OutUnit)
  PROVE  /\ a \o b \in Seq(OutUnit)
         /\ b = <<>> => a \o b = a
         /\ b # <<>> => a \o b # <<>> /\ Last(a \o b) = Last(b)
         /\ a # <<>> => a \o b # <<>>
  <1>1. /\ a \o b \in Seq(OutUnit)
        /\ Len(a \o b) = Len(a) + Len(b)
        /\ \A i \in 1 .. Len(a) + Len(b) : (a \o b)[i] = IF i <= Len(a) THEN a[i] ELSE b[i - Len(a)]
    BY ConcatProperties
  <1>2. Len(a) \in Nat /\ Len(b) \in Nat
    OBVIOUS
  <1>3. b = <<>> => a \o b = a
    BY ConcatEmptySeq
  <1> DEFINE d == a \o b
  <1>4. d \in Seq(OutUnit) /\ Len(d) = Len(a) + Len(b)
        /\ \A i \in 1 .. Len(a) + Len(b) : d[i] = IF i <= Len(a) THEN a[i] ELSE b[i - Len(a)]
    BY <1>1
  <1> HIDE DEF d
  <1>5. ASSUME b # <<>> PROVE d # <<>> /\ Last(d) = Last(b)
    <2>1. Len(b) >= 1
      BY <1>2, <1>5, EmptySeq
    <2>2. d # <<>>
      BY <1>2, <1>4, <2>1
    <2>3. Len(d) \in 1 .. Len(a) + Len(b) /\ ~(Len(d) <= Len(a)) /\ Len(d) - Len(a) = Len(b)
      BY <1>2, <1>4, <2>1
    <2>4. d[Len(d)] = b[Len(b)]
      BY <1>4, <2>3
    <2> QED
      BY <2>2, <2>4 DEF Last
  <1>6. ASSUME a # <<>> PROVE d # <<>>
    <2>1. Len(a) >= 1
      BY <1>2, <1>6, EmptySeq
    <2> QED
      BY <1>2, <1>4, <2>1
  <1> QED
    BY <1>1, <1>3, <1>5, <1>6 DEF d

\* Two sequences in order, the second of which may follow the first, join in order.
LEMMA OrderJoined ==
  ASSUME NEW a \in Seq(OutUnit), NEW b \in Seq(OutUnit), InOrder(a), Steps(b),
         b # <<>> => IF a = <<>> THEN Starts(b[1]) ELSE Goes(Last(a), b[1])
  PROVE  InOrder(a \o b)
  <1> DEFINE d == a \o b
  <1>1. d \in Seq(OutUnit) /\ Len(d) = Len(a) + Len(b)
        /\ \A i \in 1 .. Len(a) + Len(b) : d[i] = IF i <= Len(a) THEN a[i] ELSE b[i - Len(a)]
    BY ConcatProperties
  <1>2. Len(a) \in Nat /\ Len(b) \in Nat /\ (a = <<>> <=> Len(a) = 0) /\ (b = <<>> <=> Len(b) = 0)
    BY EmptySeq
  <1> HIDE DEF d
  <1>3. ASSUME d # <<>> PROVE Starts(d[1])
    <2>1. 1 \in 1 .. Len(a) + Len(b)
      BY <1>1, <1>2, <1>3, EmptySeq
    <2>2. CASE a = <<>>
      <3>1. d[1] = b[1] /\ b # <<>>
        BY <1>1, <1>2, <2>1, <2>2
      <3> QED
        BY <2>2, <3>1
    <2>3. CASE a # <<>>
      <3>1. d[1] = a[1]
        BY <1>1, <1>2, <2>1, <2>3
      <3> QED
        BY <2>3, <3>1 DEF InOrder
    <2> QED
      BY <2>2, <2>3
  <1>4. ASSUME NEW i \in 1 .. Len(d) - 1 PROVE Goes(d[i], d[i + 1])
    <2>1. i \in 1 .. Len(a) + Len(b) /\ i + 1 \in 1 .. Len(a) + Len(b) /\ i \in Nat
      BY <1>1, <1>2
    <2>2. CASE i < Len(a)
      <3>1. d[i] = a[i] /\ d[i + 1] = a[i + 1] /\ i \in 1 .. Len(a) - 1
        BY <1>1, <1>2, <2>1, <2>2
      <3> QED
        BY <3>1 DEF InOrder, Steps
    <2>3. CASE i = Len(a)
      <3>1. d[i] = a[Len(a)] /\ d[i + 1] = b[1] /\ a # <<>> /\ b # <<>>
        BY <1>1, <1>2, <2>1, <2>3, SMTT(30)
      <3> QED
        BY <3>1 DEF Last
    <2>4. CASE i > Len(a)
      <3> DEFINE j == i - Len(a)
      <3>1. d[i] = b[j] /\ d[i + 1] = b[j + 1] /\ j \in 1 .. Len(b) - 1
        BY <1>1, <1>2, <2>1, <2>4
      <3> HIDE DEF j
      <3> QED
        BY <3>1 DEF Steps
    <2> QED
      BY <1>2, <2>1, <2>2, <2>3, <2>4
  <1> QED
    BY <1>3, <1>4 DEF InOrder, Steps, d

\* What comes before in a sequence in order is in order.
LEMMA OrderPrefix ==
  ASSUME NEW a \in Seq(OutUnit), NEW b \in Seq(OutUnit), InOrder(a \o b)
  PROVE  InOrder(a)
  <1> DEFINE d == a \o b
  <1>1. d \in Seq(OutUnit) /\ Len(d) = Len(a) + Len(b)
        /\ \A i \in 1 .. Len(a) + Len(b) : d[i] = IF i <= Len(a) THEN a[i] ELSE b[i - Len(a)]
    BY ConcatProperties
  <1>2. Len(a) \in Nat /\ Len(b) \in Nat /\ (a = <<>> <=> Len(a) = 0) /\ (d = <<>> <=> Len(d) = 0)
    BY <1>1, EmptySeq
  <1>3. InOrder(d)
    OBVIOUS
  <1> HIDE DEF d
  <1>4. a # <<>> => Starts(a[1])
    <2>1. ASSUME a # <<>> PROVE d # <<>> /\ d[1] = a[1]
      BY <1>1, <1>2, <2>1
    <2> QED
      BY <1>3, <2>1 DEF InOrder
  <1>5. ASSUME NEW i \in 1 .. Len(a) - 1 PROVE Goes(a[i], a[i + 1])
    <2>1. i \in 1 .. Len(d) - 1 /\ d[i] = a[i] /\ d[i + 1] = a[i + 1]
      BY <1>1, <1>2
    <2> QED
      BY <1>3, <2>1 DEF InOrder, Steps
  <1> QED
    BY <1>4, <1>5 DEF InOrder, Steps

\* In order is what the client's view of the wire says.
LEMMA OrderContinues ==
  ASSUME NEW w \in Seq(OutUnit), InOrder(w), NEW i \in DOMAIN w
  PROVE  Continues(w[i], SubSeq(w, 1, i - 1))
  <1> DEFINE b == SubSeq(w, 1, i - 1)
  <1>1. Len(w) \in Nat /\ i \in 1 .. Len(w) /\ i \in Nat
    OBVIOUS
  <1>2. b \in Seq(OutUnit) /\ Len(b) = i - 1 /\ \A j \in 1 .. i - 1 : b[j] = w[j]
    <2>1. \A j \in 1 .. i - 1 : w[j] \in OutUnit
      BY <1>1, ElementOfSeq
    <2> QED
      BY <1>1, <2>1, SubSeqProperties
  <1> HIDE DEF b
  <1>3. CASE i = 1
    <2>1. b = <<>> /\ w # <<>>
      BY <1>1, <1>2, <1>3, EmptySeq
    <2>2. Starts(w[i])
      BY <1>3, <2>1 DEF InOrder
    <2> QED
      BY <2>1, <2>2 DEF Starts, Continues, b
  <1>4. CASE i # 1
    <2> DEFINE j == i - 1
    <2>1. j \in 1 .. Len(w) - 1 /\ j + 1 = i
      BY <1>1, <1>4
    <2>2. Goes(w[j], w[i])
      BY <2>1 DEF InOrder, Steps
    <2>3. b # <<>> /\ Last(b) = w[j]
      <3>1. Len(b) = j /\ j \in 1 .. j
        BY <1>2, <2>1
      <3> QED
        BY <1>2, <3>1, EmptySeq DEF Last
    <2>4. w[i].part = 1 \/ w[i].part # 1
      OBVIOUS
    <2> HIDE DEF j
    <2> QED
      BY <2>2, <2>3, <2>4 DEF Goes, Continues, b
  <1> QED
    BY <1>3, <1>4

\* A response is in order by itself, begins with its first unit and ends with its last.
LEMMA ResponseIs ==
  ASSUME NEW r \in 1 .. MaxRequests, NEW u \in Response(r)
  PROVE  /\ u \in Seq(OutUnit) /\ u # <<>> /\ Steps(u) /\ Ends(u)
         /\ u[1].part = 1 /\ u[1].to = r /\ Last(u).to = r
  <1>1. Answer(r, 1, 1) \in OutUnit /\ Answer(r, 1, 2) \in OutUnit /\ Answer(r, 2, 2) \in OutUnit
        /\ Answer(r, 1, 3) \in OutUnit /\ Answer(r, 2, 3) \in OutUnit /\ Answer(r, 3, 3) \in OutUnit
    BY DEF Answer, OutUnit
  <1>2. Goes(Answer(r, 1, 2), Answer(r, 2, 2)) /\ Goes(Answer(r, 1, 3), Answer(r, 2, 3))
        /\ Goes(Answer(r, 2, 3), Answer(r, 3, 3))
    BY DEF Answer, Goes
  <1>3. CASE u = <<Answer(r, 1, 1)>>
    <2>1. u \in Seq(OutUnit) /\ Len(u) = 1 /\ u[1] = Answer(r, 1, 1) /\ u # <<>>
      BY <1>1, <1>3
    <2>2. Last(u) = Answer(r, 1, 1) /\ Steps(u)
      BY <2>1 DEF Last, Steps
    <2> QED
      BY <2>1, <2>2 DEF Answer, Ends
  <1>4. CASE u = <<Answer(r, 1, 2), Answer(r, 2, 2)>>
    <2>1. u \in Seq(OutUnit) /\ Len(u) = 2 /\ u[1] = Answer(r, 1, 2) /\ u[2] = Answer(r, 2, 2)
          /\ u # <<>>
      BY <1>1, <1>4
    <2>2. Last(u) = Answer(r, 2, 2)
      BY <2>1 DEF Last
    <2>3. Steps(u)
      BY <1>2, <2>1 DEF Steps
    <2> QED
      BY <2>1, <2>2, <2>3 DEF Answer, Ends
  <1>5. CASE u = <<Answer(r, 1, 3), Answer(r, 2, 3), Answer(r, 3, 3)>>
    <2>1. u \in Seq(OutUnit) /\ Len(u) = 3 /\ u[1] = Answer(r, 1, 3) /\ u[2] = Answer(r, 2, 3)
          /\ u[3] = Answer(r, 3, 3) /\ u # <<>>
      BY <1>1, <1>5
    <2>2. Last(u) = Answer(r, 3, 3)
      BY <2>1 DEF Last
    <2>3. ASSUME NEW i \in 1 .. Len(u) - 1 PROVE Goes(u[i], u[i + 1])
      <3>1. i = 1 \/ i = 2
        BY <2>1
      <3>2. CASE i = 1
        BY <1>2, <2>1, <3>2
      <3>3. CASE i = 2
        BY <1>2, <2>1, <3>3
      <3> QED
        BY <3>1, <3>2, <3>3
    <2> QED
      BY <2>1, <2>2, <2>3 DEF Answer, Ends, Steps
  <1> QED
    BY <1>3, <1>4, <1>5 DEF Response

\* So is an error of the server's own.
LEMMA ErrorIs ==
  ASSUME NEW u, u = <<Answer(0, 1, 1)>>
  PROVE  /\ u \in Seq(OutUnit) /\ u # <<>> /\ Steps(u) /\ Ends(u)
         /\ u[1].part = 1 /\ u[1].to = 0
  <1>1. Answer(0, 1, 1) \in OutUnit
    BY DEF Answer, OutUnit
  <1>2. u \in Seq(OutUnit) /\ Len(u) = 1 /\ u[1] = Answer(0, 1, 1) /\ u # <<>>
    BY <1>1
  <1>3. Last(u) = Answer(0, 1, 1) /\ Steps(u)
    BY <1>2 DEF Last, Steps
  <1> QED
    BY <1>2, <1>3 DEF Answer, Ends

(***************************************************************************)
(* What a step does to the output.                                         *)
(***************************************************************************)

\* Nothing, or a whole response when nothing is left to be written.
Adds ==
  /\ wire' = wire /\ Outcome(conn, conn')
  /\ pc = "write" /\ conn.closeAfter /\ ~Pending(conn) => pc' = "write"

Closes == wire' = wire /\ ~conn'.open

\* A unit goes from the output to the wire.
Moves ==
  /\ All(conn', wire') = All(conn, wire) /\ pc' = "write"
  /\ conn'.open = conn.open /\ conn'.shut = conn.shut /\ conn'.closeAfter = conn.closeAfter
  /\ conn'.responding = conn.responding /\ conn'.handled = conn.handled
  /\ conn'.request = conn.request

HalfCloses ==
  /\ wire' = wire /\ conn.closeAfter /\ conn'.shut /\ ~conn'.closeAfter
  /\ Output(conn) = <<>> /\ Output(conn') = <<>>

\* The next request is begun by c, and may be answered at once.
Advances(c) ==
  /\ wire' = wire /\ Output(conn) = <<>> /\ conn.responding /\ GoesOn(conn)
  /\ conn.request = c.handled /\ c.wbuf = <<>> /\ c.file = <<>> /\ GoesOn(c) /\ ~c.responding
  /\ Outcome(c, conn')

\* What is left of the response on its way is dropped from the buffer.
Cuts ==
  /\ wire' = wire /\ ~Fits /\ Pending(conn)
  /\ conn'.wbuf = <<Answer(0, 1, 1)>> /\ conn'.file = conn.file /\ conn'.closeAfter

Effect == Adds \/ Closes \/ Moves \/ HalfCloses \/ Advances(NextRequest(conn)) \/ Cuts

\* Nothing is in the output of a connection with nothing pending, and conversely.
LEMMA OutputIs ==
  ASSUME NEW c \in Conns
  PROVE  /\ Output(c) \in Seq(OutUnit)
         /\ Output(c) = <<>> <=> ~Pending(c)
  <1> DEFINE a == c.wbuf
             b == c.file
  <1>1. a \in Seq(OutUnit) /\ b \in Seq(OutUnit)
    BY DEF Conns
  <1> HIDE DEF a, b
  <1>2. /\ a \o b \in Seq(OutUnit)
        /\ b = <<>> => a \o b = a
        /\ b # <<>> => a \o b # <<>>
        /\ a # <<>> => a \o b # <<>>
    BY <1>1, LastJoined
  <1> QED
    BY <1>2 DEF Output, Pending, a, b

\* The server's own error, when nothing was said to the client about the request.
LEMMA ErrorBegins ==
  ASSUME NEW c \in Conns, NEW d, GoesOn(c), ~c.responding, ~Pending(c),
         d.wbuf = <<Answer(0, 1, 1)>>, d.file = c.file, d.closeAfter
  PROVE  Begins(c, d)
  <1> DEFINE u == <<Answer(0, 1, 1)>>
  <1>1. u \in Seq(OutUnit)
    BY ErrorIs
  <1> HIDE DEF u
  <1>2. c.wbuf = <<>> /\ c.file = <<>>
    BY DEF Pending
  <1>3. d.wbuf = u /\ d.file = <<>>
    BY <1>2 DEF u
  <1>4. Output(d) = u
    BY <1>1, <1>3, ConcatEmptySeq DEF Output
  <1> QED
    BY <1>2, <1>4 DEF Begins, u

\* Between two events a connection is not answering unless output is pending.
LEMMA Idle ==
  ASSUME IInv, Flushed(pc, conn), pc # "write", conn.open, ~conn.shut, ~Pending(conn)
  PROVE  conn \in Conns /\ GoesOn(conn) /\ ~conn.responding
  BY DEF IInv, Sound, Flushed, GoesOn, Worker, Settled

\* The connection's reply is left as it is.
LEMMA Unspoken ==
  ASSUME wire' = wire,
         conn'.wbuf = conn.wbuf, conn'.file = conn.file, conn'.open = conn.open,
         conn'.shut = conn.shut, conn'.closeAfter = conn.closeAfter,
         conn'.responding = conn.responding, conn'.handled = conn.handled,
         conn'.request = conn.request,
         pc = "write" /\ conn.closeAfter /\ ~Pending(conn) => pc' = "write"
  PROVE  Effect
  BY DEF Effect, Adds, Outcome, SameOutput

\* sw_mgr_expire_timeouts
LEMMA ExpireEffect ==
  ASSUME IInv, Flushed(pc, conn), Expire
  PROVE  Effect
  <1>1. /\ pc = "expire" /\ conn.open /\ wire' = wire
        /\ IF Abandon(conn) \/ client = "gone" THEN conn' = Close(conn)
           ELSE conn' = ReplyError(conn)
    BY DEF Expire
  <1>2. conn \in Conns
    BY DEF IInv, Sound
  <1>3. CASE conn' = Close(conn)
    <2>1. ~conn'.open
      BY <1>2, <1>3, CloseIs
    <2> QED
      BY <1>1, <2>1 DEF Effect, Closes
  <1>4. CASE ~Abandon(conn) /\ conn' = ReplyError(conn)
    <2>1. ~conn.shut /\ ~Pending(conn)
      BY <1>4 DEF Abandon
    <2>2. GoesOn(conn) /\ ~conn.responding
      BY <1>1, <2>1, Idle
    <2>3. conn'.wbuf = <<Answer(0, 1, 1)>> /\ conn'.file = conn.file /\ conn'.closeAfter
      BY <1>2, <1>4, ReplyErrorIs
    <2>4. Begins(conn, conn')
      BY <1>2, <2>1, <2>2, <2>3, ErrorBegins
    <2> QED
      BY <1>1, <2>4 DEF Effect, Adds, Outcome
  <1> QED
    BY <1>1, <1>3, <1>4

\* sw_mgr_connection_readable, a unit of input or more.
LEMMA ReceiveEffect ==
  ASSUME "large" \notin Replies,
         IInv, Flushed(pc, conn), NEW n \in 1 .. Len(inq), Receive(n)
  PROVE  Effect
  <1>1. pc = "read" /\ ~conn.shut /\ wire' = wire
    BY DEF Receive, Reads
  <1>2. conn \in Conns /\ conn.open /\ inq \in Seq(InUnit)
    BY <1>1 DEF IInv, Sound, Worker, Shape
  <1>3. CASE Outcome(conn, conn')
    BY <1>1, <1>3 DEF Effect, Adds
  <1>4. CASE /\ Overflows(conn, n) /\ conn'.closeAfter
             /\ conn'.wbuf = <<Answer(0, 1, 1)>> /\ conn'.file = conn.file
    <2>1. CASE Pending(conn)
      <3>1. Len(conn.rbuf) \in Nat /\ Len(inq) \in Nat
        BY <1>2 DEF Conns
      <3>2. Len(conn.rbuf) + Len(inq) > MaxRead
        BY <1>4, <3>1 DEF Overflows
      <3>3. ~Fits
        BY <1>1, <2>1, <3>1, <3>2 DEF Fits
      <3> QED
        BY <1>1, <1>4, <2>1, <3>3 DEF Effect, Cuts
    <2>2. CASE ~Pending(conn)
      <3>1. GoesOn(conn) /\ ~conn.responding
        BY <1>1, <1>2, <2>2, Idle
      <3>2. Begins(conn, conn')
        BY <1>2, <1>4, <2>2, <3>1, ErrorBegins
      <3> QED
        BY <1>1, <3>2 DEF Effect, Adds, Outcome
    <2> QED
      BY <2>1, <2>2
  <1> QED
    BY <1>3, <1>4, ReceiveStep

\* The client is found gone, or nothing is done for it.
LEMMA ReadingEndsEffect ==
  ASSUME IInv, ReceiveEnds \/ Discard \/ SendBlocks
  PROVE  Effect
  <1>1. conn \in Conns
    BY DEF IInv, Sound
  <1>2. /\ wire' = wire
        /\ conn' = Close(conn) \/ conn' = conn
        /\ pc = "write" => conn.wbuf # <<>>
    BY DEF ReceiveEnds, Discard, SendBlocks
  <1>3. CASE conn' = Close(conn)
    <2>1. ~conn'.open
      BY <1>1, <1>3, CloseIs
    <2> QED
      BY <1>2, <2>1 DEF Effect, Closes
  <1>4. CASE conn' = conn
    <2>1. pc = "write" => Pending(conn)
      BY <1>2 DEF Pending
    <2> QED
      BY <1>2, <1>4, <2>1, Unspoken
  <1> QED
    BY <1>2, <1>3, <1>4

\* Steps that leave the reply as it is.
LEMMA QuietEffect ==
  ASSUME IInv, ClientStep \/ StartWait \/ Event \/ Tick \/ SaveUnit \/ UNCHANGED vars
  PROVE  Effect
  <1>1. conn \in Conns
    BY DEF IInv, Sound
  <1>2. /\ wire' = wire
        /\ pc = "write" => pc' = "write"
        /\ \/ conn' = conn
           \/ conn' = [conn EXCEPT !.idleAge = Older(@), !.phaseAge = Older(@)]
           \/ conn' = [conn EXCEPT !.body = @ - 1, !.rbuf = Tail(@)]
           \/ conn' = [conn EXCEPT !.body = @ - 1, !.idleAge = 0]
    BY DEF ClientStep, ClientSends, ClientReads, ClientStops, StartWait, Event, Tick, SaveUnit,
           vars, server, clientVars
  <1>3. /\ conn'.wbuf = conn.wbuf /\ conn'.file = conn.file /\ conn'.open = conn.open
        /\ conn'.shut = conn.shut /\ conn'.closeAfter = conn.closeAfter
        /\ conn'.responding = conn.responding /\ conn'.handled = conn.handled
        /\ conn'.request = conn.request
    BY <1>1, <1>2, ZenonT(40) DEF Conns
  <1> QED
    BY <1>2, <1>3, Unspoken

\* The client is found gone by epoll.
LEMMA HangupEffect ==
  ASSUME IInv, Hangup
  PROVE  Effect
  <1>1. conn \in Conns
    BY DEF IInv, Sound
  <1>2. wire' = wire /\ conn' = Close(conn)
    BY DEF Hangup
  <1>3. ~conn'.open
    BY <1>1, <1>2, CloseIs
  <1> QED
    BY <1>2, <1>3 DEF Effect, Closes

\* The handler that read a body replies.
LEMMA SaveEndsEffect ==
  ASSUME "large" \notin Replies, IInv, SaveEnds
  PROVE  Effect
  <1>1. pc = "save" /\ wire' = wire
    BY DEF SaveEnds
  <1>2. Outcome(conn, conn')
    BY SaveEndsStep
  <1> QED
    BY <1>1, <1>2 DEF Effect, Adds

\* Output is joined in any order.
LEMMA OutputAssociates ==
  \A x, y, z \in Seq(OutUnit) : (x \o y) \o z = x \o (y \o z)
  BY ConcatAssociative, SMTT(30)

\* A unit that is written leaves what is written and what is not as one.
LEMMA UnitMoves ==
  ASSUME NEW w \in Seq(OutUnit), NEW a \in Seq(OutUnit), NEW f \in Seq(OutUnit), a # <<>>
  PROVE  Append(w, Head(a)) \o (Tail(a) \o f) = w \o (a \o f)
  <1> DEFINE h == <<Head(a)>>
             t == Tail(a)
             g == t \o f
  <1>1. Head(a) \in OutUnit /\ t \in Seq(OutUnit)
    BY HeadTailProperties
  <1>2. h \in Seq(OutUnit) /\ Append(w, Head(a)) = w \o h
    BY <1>1, AppendIsConcat
  <1>3. h \o t = a
    <2>1. Len(h) = 1 /\ h[1] = a[1] /\ Len(t) = Len(a) - 1 /\ Len(a) \in Nat
          /\ \A i \in 1 .. Len(a) - 1 : t[i] = a[i + 1]
      BY HeadTailProperties
    <2> HIDE DEF h, t
    <2>2. /\ h \o t \in Seq(OutUnit)
          /\ Len(h \o t) = Len(h) + Len(t)
          /\ \A i \in 1 .. Len(h) + Len(t) : (h \o t)[i] = IF i <= Len(h) THEN h[i] ELSE t[i - Len(h)]
      BY <1>1, <1>2, ConcatProperties
    <2> DEFINE d == h \o t
    <2>3. d \in Seq(OutUnit) /\ Len(d) = Len(a)
          /\ \A i \in 1 .. Len(a) : d[i] = IF i <= 1 THEN h[i] ELSE t[i - 1]
      BY <2>1, <2>2
    <2> HIDE DEF d
    <2>4. ASSUME NEW i \in 1 .. Len(d) PROVE d[i] = a[i]
      <3>1. CASE i = 1
        BY <2>1, <2>3, <3>1
      <3>2. CASE i # 1
        <4>1. i - 1 \in 1 .. Len(a) - 1 /\ (i - 1) + 1 = i /\ d[i] = t[i - 1]
          BY <2>1, <2>3, <3>2
        <4> QED
          BY <2>1, <4>1
      <3> QED
        BY <3>1, <3>2
    <2>5. d = a
      BY <2>3, <2>4, SeqEqual
    <2> QED
      BY <2>5 DEF d
  <1> HIDE DEF h, t
  <1>4. g \in Seq(OutUnit)
    BY <1>1, ConcatProperties
  <1>5. (w \o h) \o g = w \o (h \o g)
    <2> HIDE DEF g
    <2> QED
      BY <1>2, <1>4, OutputAssociates, ZenonT(40)
  <1>6. (h \o t) \o f = h \o (t \o f)
    BY <1>1, <1>2, OutputAssociates
  <1> QED
    BY <1>2, <1>3, <1>5, <1>6 DEF t, g

\* One send() of sw_mgr_connection_writable; a file is read to its end.
LEMMA SendEffect ==
  ASSUME "large" \notin Replies, ~FileShrinks, IInv, Send
  PROVE  Effect
  <1> DEFINE v == Written(conn)
             a == conn.wbuf
             f == conn.file
  <1>1. /\ pc = "write" /\ conn.wbuf # <<>>
        /\ wire' = Append(wire, Head(conn.wbuf))
        /\ conn' \in FillFile(v)
    BY DEF Send, Written
  <1>2. conn \in Conns /\ wire \in Seq(OutUnit)
    BY DEF IInv, Sound, Shape
  <1>3. /\ v \in Conns /\ v.open = conn.open /\ v.request = conn.request /\ v.shut = conn.shut
        /\ v.handled = conn.handled /\ v.responding = conn.responding
        /\ v.closeAfter = conn.closeAfter
        /\ v.wbuf = Tail(conn.wbuf) /\ v.file = conn.file
    BY <1>1, <1>2, WrittenIs
  <1> HIDE DEF v
  <1>4. /\ conn'.open = v.open /\ conn'.request = v.request /\ conn'.shut = v.shut
        /\ conn'.handled = v.handled /\ conn'.responding = v.responding
        /\ conn'.closeAfter = v.closeAfter
        /\ \/ conn'.wbuf = v.wbuf /\ conn'.file = v.file
           \/ /\ v.wbuf = <<>> /\ v.file # <<>>
              /\ conn'.wbuf = <<Head(v.file)>> /\ conn'.file = Tail(v.file)
    BY <1>1, <1>3, FillFileIs, ZenonT(40)
  <1>8. pc' = "write"
    <2>1. conn'.open
      BY <1>1, <1>3, <1>4 DEF IInv, Worker
    <2> QED
      BY <1>1, <2>1 DEF Send
  <1>5. a \in Seq(OutUnit) /\ f \in Seq(OutUnit) /\ a # <<>>
    BY <1>1, <1>2 DEF Conns
  <1>6. Output(conn') = Tail(a) \o f
    <2>1. CASE conn'.wbuf = v.wbuf /\ conn'.file = v.file
      BY <1>3, <2>1 DEF Output
    <2>2. CASE /\ v.wbuf = <<>> /\ v.file # <<>>
               /\ conn'.wbuf = <<Head(v.file)>> /\ conn'.file = Tail(v.file)
      <3>1. f # <<>> /\ Tail(a) = <<>> /\ conn'.wbuf = <<Head(f)>> /\ conn'.file = Tail(f)
        BY <1>3, <2>2
      <3> HIDE DEF a, f
      <3> DEFINE e == <<>>
                 t == Tail(f)
                 u == <<Head(f)>>
      <3>2. Head(f) \in OutUnit /\ t \in Seq(OutUnit) /\ e \in Seq(OutUnit) /\ u \in Seq(OutUnit)
        BY <1>5, <3>1, HeadTailProperties
      <3>3. Append(e, Head(f)) = u
        OBVIOUS
      <3>4. Append(e, Head(f)) \o (t \o e) = e \o (f \o e)
        <4> HIDE DEF t
        <4>1. e \in Seq(OutUnit) /\ f \in Seq(OutUnit) /\ f # <<>>
          BY <1>5, <3>1, <3>2
        <4> HIDE DEF e
        <4> QED
          BY <4>1, UnitMoves DEF t
      <3>5. t \o e = t /\ f \o e = f /\ e \o f = f
        <4> HIDE DEF t
        <4> QED
          BY <1>5, <3>2, ConcatEmptySeq
      <3>6. u \o t = f
        BY <3>3, <3>4, <3>5
      <3>7. Tail(a) \o f = f
        BY <1>5, <3>1, ConcatEmptySeq
      <3> QED
        BY <3>1, <3>6, <3>7 DEF Output
    <2> QED
      BY <1>4, <2>1, <2>2
  <1>7. All(conn', wire') = All(conn, wire)
    <2> HIDE DEF a, f
    <2>1. Append(wire, Head(a)) \o (Tail(a) \o f) = wire \o (a \o f)
      BY <1>2, <1>5, UnitMoves
    <2> QED
      BY <1>1, <1>6, <2>1 DEF All, Output, a, f
  <1> QED
    BY <1>1, <1>3, <1>4, <1>7, <1>8 DEF Effect, Moves

\* sw_connection_finish_response
LEMMA SendDoneEffect ==
  ASSUME "large" \notin Replies, IInv, SendDone
  PROVE  Effect
  <1>1. /\ pc = "write" /\ ~Pending(conn) /\ wire' = wire
        /\ FinishNothing \/ FinishClose \/ FinishNext
    BY DEF SendDone
  <1>2. conn \in Conns /\ Output(conn) = <<>>
    BY <1>1, OutputIs DEF IInv, Sound
  <1>3. CASE FinishNothing
    <2>1. conn' = conn /\ ~conn.closeAfter
      BY <1>3 DEF FinishNothing
    <2> QED
      BY <1>1, <2>1, Unspoken
  <1>4. CASE FinishClose
    <2> DEFINE n == conn.handled + (IF conn.responding THEN 1 ELSE 0)
               v == Counted(conn, n)
    <2>1. conn.closeAfter /\ conn' \in ShutdownSend(v)
      BY <1>2, <1>4 DEF FinishClose, Responded, Counted, Conns
    <2>2. n \in 0 .. KeepAliveMax
      <3>1. conn.open /\ ~conn.shut /\ conn.handled < KeepAliveMax
        BY <1>1, <2>1 DEF IInv, Worker, Sound, Replying, Requests
      <3> QED
        BY <1>2, <3>1 DEF Conns
    <2> HIDE DEF n
    <2>3. v \in Conns /\ v.wbuf = conn.wbuf /\ v.file = conn.file
      BY <1>2, <2>2, CountedIs
    <2> HIDE DEF v
    <2>4. CASE conn' = HalfClosed(v)
      <3>1. /\ conn' \in Conns /\ conn'.shut /\ ~conn'.closeAfter
            /\ conn'.wbuf = conn.wbuf /\ conn'.file = conn.file
        BY <2>3, <2>4, HalfClosedIs
      <3>2. Output(conn') = <<>>
        BY <1>2, <3>1 DEF Output
      <3> QED
        BY <1>1, <1>2, <2>1, <3>1, <3>2 DEF Effect, HalfCloses
    <2>5. CASE conn' = Close(v)
      <3>1. ~conn'.open
        BY <2>3, <2>5, CloseIs
      <3> QED
        BY <1>1, <3>1 DEF Effect, Closes
    <2> QED
      BY <2>1, <2>4, <2>5 DEF ShutdownSend, HalfClosed
  <1>5. CASE FinishNext
    <2>1. conn.responding
      BY <1>5 DEF FinishNext, Responded
    <2>2. /\ NextRequest(conn).handled = conn.handled + 1 /\ conn.request = conn.handled + 1
          /\ GoesOn(conn) /\ GoesOn(NextRequest(conn)) /\ ~NextRequest(conn).responding
          /\ NextRequest(conn).wbuf = <<>> /\ NextRequest(conn).file = <<>>
          /\ Outcome(NextRequest(conn), conn')
      BY <1>5, FinishNextStep
    <2>3. Advances(NextRequest(conn))
      BY <1>1, <1>2, <2>1, <2>2 DEF Advances
    <2> QED
      BY <2>3 DEF Effect
  <1> QED
    BY <1>1, <1>3, <1>4, <1>5

\* Every step has one of these effects, if no reply fails half-way and no file shrinks.
LEMMA NextEffect ==
  ASSUME "large" \notin Replies, ~FileShrinks, IInv, Flushed(pc, conn), [Next]_vars
  PROVE  Effect
  <1>1. CASE ClientStep \/ StartWait \/ Event \/ Tick \/ SaveUnit \/ UNCHANGED vars
    BY <1>1, QuietEffect
  <1>2. CASE ReceiveEnds \/ Discard \/ SendBlocks
    BY <1>2, ReadingEndsEffect
  <1>3. ASSUME NEW n \in 1 .. Len(inq), Receive(n) PROVE Effect
    BY <1>3, ReceiveEffect
  <1> QED
    BY <1>1, <1>2, <1>3, ExpireEffect, HangupEffect, SaveEndsEffect, SendEffect, SendDoneEffect
       DEF Next, WorkerStep, Ended

(***************************************************************************)
(* The invariants.                                                         *)
(***************************************************************************)

\* A connection that closed says nothing more.
LEMMA ClosedSilent ==
  ASSUME NEW c, c \in Conns, Replying(c), ~c.open
  PROVE  /\ Output(c) = <<>> /\ ~Pending(c) /\ ~GoesOn(c)
         /\ ~c.closeAfter /\ ~c.responding /\ ~c.shut
  BY OutputIs DEF Replying, GoesOn

\* What begins with Begins is a whole response.
LEMMA BegunIsWhole ==
  ASSUME NEW c, c.handled \in Nat, NEW d \in Conns, Begins(c, d)
  PROVE  /\ Output(d) \in Seq(OutUnit) /\ Output(d) # <<>>
         /\ Steps(Output(d)) /\ Ends(Output(d)) /\ Output(d)[1].part = 1
         /\ \/ /\ Output(d)[1].to = c.handled + 1 /\ Last(Output(d)).to = c.handled + 1
               /\ d.request = c.handled + 1
            \/ Output(d)[1].to = 0 /\ d.closeAfter
  <1>1. CASE Output(d) \in Response(c.handled + 1) /\ d.request = c.handled + 1
    <2>1. c.handled + 1 \in 1 .. MaxRequests
      BY <1>1 DEF Conns
    <2> QED
      BY <1>1, <2>1, ResponseIs
  <1>2. CASE Output(d) = <<Answer(0, 1, 1)>> /\ d.closeAfter
    BY <1>2, ErrorIs
  <1> QED
    BY <1>1, <1>2 DEF Begins

\* A reply the writer has finished is not left waiting.
LEMMA FlushedStep ==
  ASSUME IInv, IInv', Flushed(pc, conn), Effect
  PROVE  Flushed(pc', conn')
  <1>1. conn' \in Conns /\ conn \in Conns
    BY DEF IInv, Sound
  <1>0. conn.request \in Nat
    BY <1>1 DEF Conns
  <1> SUFFICES ASSUME pc' # "write", conn'.closeAfter PROVE Pending(conn')
    BY DEF Flushed
  <1>2. CASE Adds
    <2>1. CASE SameOutput(conn, conn')
      <3>1. Pending(conn)
        BY <1>2, <2>1 DEF Adds, SameOutput, Flushed
      <3> QED
        BY <2>1, <3>1 DEF SameOutput, Pending
    <2>2. CASE Begins(conn, conn')
      <3>1. conn.handled \in Nat
        BY <1>1 DEF Conns
      <3> QED
        BY <1>1, <2>2, <3>1, BegunIsWhole, OutputIs
    <2> QED
      BY <1>2, <2>1, <2>2 DEF Adds, Outcome
  <1>3. CASE Closes
    BY <1>1, <1>3, ClosedSilent DEF Closes, IInv, Sound
  <1>4. CASE Advances(NextRequest(conn))
    <2> DEFINE c == NextRequest(conn)
    <2>1. GoesOn(c) /\ Outcome(c, conn') /\ c.handled \in Nat
      BY <1>0, <1>4 DEF Advances
    <2> HIDE DEF c
    <2>2. ~SameOutput(c, conn')
      BY <2>1 DEF SameOutput, GoesOn
    <2> QED
      BY <1>1, <2>1, <2>2, BegunIsWhole, OutputIs DEF Outcome
  <1>5. CASE Cuts
    BY <1>5 DEF Cuts, Pending
  <1> QED
    BY <1>2, <1>3, <1>4, <1>5 DEF Effect, Moves, HalfCloses

\* What the client is told is whole as soon as something more is said.
LEMMA BegunEnds ==
  ASSUME NEW c, c.handled \in Nat, NEW d \in Conns, Begins(c, d), NEW w \in Seq(OutUnit)
  PROVE  All(d, w) # <<>> /\ Ends(All(d, w))
  <1> DEFINE u == Output(d)
  <1>1. u \in Seq(OutUnit) /\ u # <<>> /\ Ends(u)
    BY BegunIsWhole
  <1> HIDE DEF u
  <1>2. w \o u # <<>> /\ Last(w \o u) = Last(u)
    BY <1>1, LastJoined
  <1> QED
    BY <1>1, <1>2 DEF All, Ends, u

\* The last response of a connection that ends, or answers, is a whole one.
LEMMA EndingStep ==
  ASSUME IInv, IInv', Ending(conn, wire), Effect
  PROVE  Ending(conn', wire')
  <1>1. /\ conn' \in Conns /\ conn \in Conns /\ wire \in Seq(OutUnit) /\ wire' \in Seq(OutUnit)
        /\ conn.handled \in Nat /\ conn.request \in Nat
    BY DEF IInv, Sound, Shape, Conns
  <1>2. CASE Adds
    <2>1. CASE SameOutput(conn, conn')
      <3>1. All(conn', wire') = All(conn, wire)
        BY <1>2, <2>1 DEF Adds, SameOutput, All, Output
      <3> QED
        BY <2>1, <3>1 DEF SameOutput, Ending
    <2>2. CASE Begins(conn, conn')
      <3>1. All(conn', wire') # <<>> /\ Ends(All(conn', wire'))
        BY <1>1, <2>2, BegunEnds
      <3> QED
        BY <3>1 DEF Ending
    <2> QED
      BY <1>2, <2>1, <2>2 DEF Adds, Outcome
  <1>3. CASE Closes
    <2>1. ~conn'.closeAfter /\ ~conn'.responding /\ ~conn'.shut
      BY <1>1, <1>3, ClosedSilent DEF Closes, IInv, Sound
    <2> QED
      BY <2>1 DEF Ending
  <1>4. CASE Moves
    BY <1>4 DEF Moves, Ending
  <1>5. CASE HalfCloses
    <2>1. All(conn', wire') = All(conn, wire) /\ conn.closeAfter
      BY <1>5 DEF HalfCloses, All
    <2> QED
      BY <2>1 DEF Ending
  <1>6. CASE Advances(NextRequest(conn))
    <2> DEFINE c == NextRequest(conn)
    <2>1. GoesOn(c) /\ ~c.responding /\ Outcome(c, conn') /\ c.handled \in Nat
      BY <1>1, <1>6 DEF Advances
    <2> HIDE DEF c
    <2>2. CASE SameOutput(c, conn')
      <3>1. ~conn'.closeAfter /\ ~conn'.responding /\ ~conn'.shut
        BY <2>1, <2>2 DEF SameOutput, GoesOn
      <3> QED
        BY <3>1 DEF Ending
    <2>3. CASE Begins(c, conn')
      <3>1. All(conn', wire') # <<>> /\ Ends(All(conn', wire'))
        BY <1>1, <2>1, <2>3, BegunEnds
      <3> QED
        BY <3>1 DEF Ending
    <2> QED
      BY <2>1, <2>2, <2>3 DEF Outcome
  <1>7. CASE Cuts
    <2> DEFINE u == <<Answer(0, 1, 1)>>
               f == conn.file
               g == u \o f
    <2>1. /\ u \in Seq(OutUnit) /\ u # <<>> /\ Ends(u) /\ f \in Seq(OutUnit)
      BY <1>1, ErrorIs DEF Conns
    <2>2. conn'.wbuf = u /\ conn'.file = f /\ wire' = wire
      BY <1>7 DEF Cuts
    <2> HIDE DEF u
    <2>3. f # <<>> => Ends(f)
      <3>1. SUFFICES ASSUME f # <<>> PROVE Ends(f)
        OBVIOUS
      <3> DEFINE a == conn.wbuf
                 b == a \o f
      <3>2. a \in Seq(OutUnit) /\ (conn.closeAfter \/ conn.responding \/ conn.shut)
        BY <1>1, <1>7 DEF Cuts, IInv, Sound, Replying, Conns
      <3>3. All(conn, wire) # <<>> /\ Ends(All(conn, wire))
        BY <3>2 DEF Ending
      <3> HIDE DEF a, f
      <3>4. b \in Seq(OutUnit) /\ b # <<>> /\ Last(b) = Last(f)
        BY <2>1, <3>1, <3>2, LastJoined
      <3> HIDE DEF b
      <3>5. Last(wire \o b) = Last(b)
        BY <1>1, <3>4, LastJoined
      <3>6. All(conn, wire) = wire \o b
        BY DEF All, Output, a, b, f
      <3> QED
        BY <3>1, <3>3, <3>4, <3>5, <3>6 DEF Ends
    <2> HIDE DEF f
    <2>4. g \in Seq(OutUnit) /\ g # <<>> /\ Ends(g)
      <3>1. /\ g \in Seq(OutUnit)
            /\ f = <<>> => g = u
            /\ f # <<>> => g # <<>> /\ Last(g) = Last(f)
        BY <2>1, LastJoined
      <3> QED
        BY <2>1, <2>3, <3>1 DEF Ends
    <2> HIDE DEF g
    <2>5. wire \o g # <<>> /\ Last(wire \o g) = Last(g)
      BY <1>1, <2>4, LastJoined
    <2>6. All(conn', wire') = wire \o g
      BY <2>2 DEF All, Output, g
    <2> QED
      BY <2>4, <2>5, <2>6 DEF Ending, Ends
  <1> QED
    BY <1>2, <1>3, <1>4, <1>5, <1>6, <1>7 DEF Effect

\* What is said next follows what was said before.
LEMMA OutcomeSequenced ==
  ASSUME NEW c, c.handled \in Nat, NEW d \in Conns, NEW w \in Seq(OutUnit),
         Output(c) = <<>>, GoesOn(c), ~c.responding, Sequenced(c, w), Begins(c, d)
  PROVE  Sequenced(d, w)
  <1> DEFINE u == Output(d)
  <1>1. /\ u \in Seq(OutUnit) /\ u # <<>> /\ Steps(u) /\ Ends(u) /\ u[1].part = 1
        /\ \/ /\ u[1].to = c.handled + 1 /\ Last(u).to = c.handled + 1
              /\ d.request = c.handled + 1
           \/ u[1].to = 0 /\ d.closeAfter
    BY BegunIsWhole
  <1>2. d.responding \/ d.closeAfter
    BY DEF Begins
  <1> HIDE DEF u
  <1>3. All(c, w) = w
    BY ConcatEmptySeq DEF All
  <1>4. /\ InOrder(w) /\ Ends(w) /\ (w # <<>> => Last(w).to # 0)
        /\ LastAnswered(w) = c.handled
    BY <1>3 DEF Sequenced
  <1>5. IF w = <<>> THEN Starts(u[1]) ELSE Goes(Last(w), u[1])
    <2>1. CASE w = <<>>
      BY <1>1, <1>4, <2>1 DEF LastAnswered, Starts
    <2>2. CASE w # <<>>
      BY <1>1, <1>4, <2>2 DEF LastAnswered, Goes, Ends
    <2> QED
      BY <2>1, <2>2
  <1> DEFINE a == w \o u
  <1>6. InOrder(a)
    BY <1>1, <1>4, <1>5, OrderJoined
  <1>7. a # <<>> /\ Last(a) = Last(u)
    BY <1>1, LastJoined
  <1> HIDE DEF a
  <1>8. ASSUME GoesOn(d)
        PROVE  Ends(a) /\ Last(a).to # 0 /\ LastAnswered(a) = d.request /\ d.responding
    <2>1. ~d.closeAfter
      BY <1>8 DEF GoesOn
    <2>2. Last(u).to = c.handled + 1 /\ d.request = c.handled + 1 /\ d.responding
      BY <1>1, <1>2, <2>1
    <2> QED
      BY <1>1, <1>7, <2>2 DEF Ends, LastAnswered
  <1>9. All(d, w) = a
    BY DEF All, a, u
  <1> QED
    BY <1>6, <1>8, <1>9 DEF Sequenced

\* The responses stay in order.
LEMMA SequencedStep ==
  ASSUME IInv, IInv', Fits, Sequenced(conn, wire), Effect
  PROVE  Sequenced(conn', wire')
  <1>1. /\ conn' \in Conns /\ conn \in Conns /\ wire \in Seq(OutUnit) /\ wire' \in Seq(OutUnit)
        /\ conn.handled \in Nat /\ conn.request \in Nat
    BY DEF IInv, Sound, Shape, Conns
  <1>2. InOrder(wire)
    <2>1. InOrder(wire \o Output(conn)) /\ Output(conn) \in Seq(OutUnit)
      BY <1>1, OutputIs DEF Sequenced, All
    <2> QED
      BY <1>1, <2>1, OrderPrefix
  <1>3. ASSUME NEW c, c.handled \in Nat, Sequenced(c, wire), SameOutput(c, conn'), wire' = wire
        PROVE  Sequenced(conn', wire')
    <2>1. All(conn', wire') = All(c, wire)
      BY <1>3 DEF SameOutput, All, Output
    <2> QED
      BY <1>3, <2>1 DEF SameOutput, Sequenced, GoesOn
  <1>4. CASE Adds
    <2>1. CASE SameOutput(conn, conn')
      BY <1>1, <1>3, <1>4, <2>1 DEF Adds
    <2>2. CASE Begins(conn, conn')
      <3>1. Output(conn) = <<>> /\ GoesOn(conn) /\ ~conn.responding /\ wire' = wire
        BY <1>1, <1>4, <2>2, OutputIs DEF Begins, Adds, Pending
      <3> QED
        BY <1>1, <2>2, <3>1, OutcomeSequenced
    <2> QED
      BY <1>4, <2>1, <2>2 DEF Adds, Outcome
  <1>5. CASE Closes
    <2>1. Output(conn') = <<>> /\ ~GoesOn(conn') /\ wire' = wire
      BY <1>1, <1>5, ClosedSilent DEF Closes, IInv, Sound
    <2>2. All(conn', wire') = wire
      BY <1>1, <2>1, ConcatEmptySeq DEF All
    <2> QED
      BY <1>2, <2>1, <2>2 DEF Sequenced
  <1>6. CASE Moves
    <2>1. (GoesOn(conn') <=> GoesOn(conn)) /\ All(conn', wire') = All(conn, wire)
      BY <1>6 DEF Moves, GoesOn
    <2> QED
      BY <1>6, <2>1 DEF Moves, Sequenced
  <1>7. CASE HalfCloses
    <2>1. All(conn', wire') = All(conn, wire) /\ ~GoesOn(conn')
      BY <1>7 DEF HalfCloses, All, GoesOn
    <2> QED
      BY <2>1 DEF Sequenced
  <1>8. CASE Advances(NextRequest(conn))
    <2> DEFINE c == NextRequest(conn)
    <2>1. /\ GoesOn(c) /\ ~c.responding /\ Outcome(c, conn') /\ c.handled \in Nat
          /\ c.wbuf = <<>> /\ c.file = <<>> /\ wire' = wire /\ conn.request = c.handled
          /\ Output(conn) = <<>> /\ GoesOn(conn) /\ conn.responding
      BY <1>1, <1>8 DEF Advances
    <2> HIDE DEF c
    <2>2. Output(c) = <<>>
      <3> DEFINE e == <<>>
      <3>1. e \in Seq(OutUnit) /\ c.wbuf = e /\ c.file = e
        BY <2>1
      <3> HIDE DEF e
      <3>2. e = <<>>
        BY DEF e
      <3>3. e \o e = e
        BY <3>1, <3>2, LastJoined
      <3> QED
        BY <3>1, <3>2, <3>3 DEF Output
    <2>3. Sequenced(c, wire)
      <3>1. All(c, wire) = All(conn, wire)
        BY <2>1, <2>2 DEF All
      <3> QED
        BY <2>1, <3>1 DEF Sequenced
    <2>4. CASE SameOutput(c, conn')
      BY <1>3, <2>1, <2>3, <2>4
    <2>5. CASE Begins(c, conn')
      BY <1>1, <2>1, <2>2, <2>3, <2>5, OutcomeSequenced
    <2> QED
      BY <2>1, <2>4, <2>5 DEF Outcome
  <1> QED
    BY <1>4, <1>5, <1>6, <1>7, <1>8 DEF Effect, Cuts

\* The connection has nothing to say, and nothing to finish, when it is made.
LEMMA InitSaid ==
  ASSUME Init, IInv
  PROVE  Flushed(pc, conn) /\ Ending(conn, wire) /\ Sequenced(conn, wire)
  <1>1. /\ conn.wbuf = <<>> /\ conn.file = <<>> /\ wire = <<>> /\ conn.handled = 0
        /\ ~conn.closeAfter /\ ~conn.responding /\ ~conn.shut
    BY DEF Init, Fresh
  <1> DEFINE a == All(conn, wire)
  <1>2. a = <<>>
    <2>1. Output(conn) = <<>>
      BY <1>1, OutputIs DEF IInv, Sound, Pending
    <2>2. wire \in Seq(OutUnit)
      BY DEF IInv, Shape
    <2> QED
      BY <1>1, <2>1, <2>2, ConcatEmptySeq DEF All
  <1> HIDE DEF a
  <1>3. InOrder(a) /\ Ends(a) /\ LastAnswered(a) = 0
    BY <1>2 DEF InOrder, Steps, Ends, LastAnswered
  <1> QED
    BY <1>1, <1>2, <1>3 DEF Flushed, Ending, Sequenced, a

(***************************************************************************)
(* The theorems.  A handler's reply that fails for its size leaves a part  *)
(* of a response behind, and a file that shrinks ends one early; neither   *)
(* happens here.                                                           *)
(***************************************************************************)

\* The server closes its side only after the last unit of a response.
THEOREM ClosesAfterLast ==
  ASSUME "large" \notin Replies, ~FileShrinks
  PROVE  Spec => []ShutWhole
  <1> DEFINE J == IInv /\ Flushed(pc, conn) /\ Ending(conn, wire)
  <1>1. Init => J
    BY InitInv, InitSaid
  <1>2. J /\ [Next]_vars => J'
    <2> SUFFICES ASSUME J, [Next]_vars PROVE J'
      OBVIOUS
    <2>1. IInv'
      BY NextInv
    <2>2. Effect
      BY NextEffect
    <2> QED
      BY <2>1, <2>2, FlushedStep, EndingStep
  <1>3. J => ShutWhole
    <2> SUFFICES ASSUME J, conn.shut PROVE wire # <<>> /\ Last(wire).part = Last(wire).of
      BY DEF ShutWhole
    <2>1. conn \in Conns /\ ~Pending(conn) /\ wire \in Seq(OutUnit)
      BY DEF IInv, Sound, Replying, Shape
    <2>2. All(conn, wire) = wire
      BY <2>1, OutputIs, ConcatEmptySeq DEF All
    <2> QED
      BY <2>2 DEF Ending, Ends
  <1> HIDE DEF J
  <1> QED
    BY <1>1, <1>2, <1>3, PTL DEF Spec

\* What the client receives is a sequence of whole responses to its requests in order,
\* as long as no input overflows the read buffer while a response is on its way.
THEOREM WholeWhileItFits ==
  ASSUME "large" \notin Replies, ~FileShrinks
  PROVE  Spec /\ []Fits => []ResponsesWhole
  <1> DEFINE J == IInv /\ Flushed(pc, conn) /\ Sequenced(conn, wire)
  <1>1. Init => J
    BY InitInv, InitSaid
  <1>2. J /\ Fits /\ [Next]_vars => J'
    <2> SUFFICES ASSUME J, Fits, [Next]_vars PROVE J'
      OBVIOUS
    <2>1. IInv'
      BY NextInv
    <2>2. Effect
      BY NextEffect
    <2> QED
      BY <2>1, <2>2, FlushedStep, SequencedStep
  <1>3. J => ResponsesWhole
    <2> SUFFICES ASSUME J PROVE ResponsesWhole
      OBVIOUS
    <2>1. conn \in Conns /\ wire \in Seq(OutUnit)
      BY DEF IInv, Sound, Shape
    <2>2. InOrder(wire \o Output(conn)) /\ Output(conn) \in Seq(OutUnit)
      BY <2>1, OutputIs DEF Sequenced, All
    <2>3. InOrder(wire)
      BY <2>1, <2>2, OrderPrefix
    <2> QED
      BY <2>1, <2>3, OrderContinues DEF ResponsesWhole
  <1> HIDE DEF J
  <1> QED
    BY <1>1, <1>2, <1>3, PTL DEF Spec

\* The server never holds more input than the client can have sent.
Held == Len(conn.rbuf) + Len(inq)
Sent == IF stream = <<>> THEN 0 ELSE 4 * (Len(stream) - 1) + sent

\* Only the client makes the input longer.
LEMMA HeldStep ==
  ASSUME IInv, Held <= Sent, [Next]_vars
  PROVE  Held' <= Sent'
  <1>1. /\ conn \in Conns /\ inq \in Seq(InUnit) /\ stream \in Seq(Kinds) /\ sent \in 0 .. 4
        /\ conn.rbuf \in Seq(InUnit) /\ Len(conn.rbuf) \in Nat /\ Len(inq) \in Nat
        /\ Len(stream) \in Nat /\ (stream = <<>> => sent = 0)
    BY SMTT(30) DEF IInv, Shape, Sound, Conns, SentOf
  <1>2. ASSUME NEW kind \in Kinds, ClientSends(kind) PROVE Held' <= Sent'
    <2>1. /\ conn' = conn /\ inq' = Append(inq, Unit(Len(stream'), sent'))
          /\ IF BetweenRequests THEN stream' = Append(stream, kind) /\ sent' = 1
             ELSE stream' = stream /\ sent' = sent + 1
      BY <1>2 DEF ClientSends, server
    <2>2. Len(inq') = Len(inq) + 1
      BY <1>1, <2>1
    <2>5. Held' = Held + 1 /\ Held \in Nat
      <3>1. Len(conn'.rbuf) = Len(conn.rbuf)
        BY <2>1
      <3>2. Held' = Len(conn'.rbuf) + Len(inq') /\ Held = Len(conn.rbuf) + Len(inq)
        BY DEF Held
      <3>3. Held' = Len(conn.rbuf) + (Len(inq) + 1)
        BY <2>2, <3>1, <3>2
      <3> DEFINE x == Len(conn.rbuf)
                 y == Len(inq)
      <3>4. x \in Nat /\ y \in Nat
        BY <1>1
      <3>5. Held = x + y /\ Held' = x + (y + 1)
        BY <3>2, <3>3
      <3> HIDE DEF x, y
      <3> QED
        BY <3>4, <3>5
    <2>3. ASSUME BetweenRequests PROVE Sent' >= Sent + 1 /\ Sent' \in Nat /\ Sent \in Nat
      <3>1. stream' # <<>> /\ Len(stream') = Len(stream) + 1 /\ sent' = 1
        BY <1>1, <2>1, <2>3
      <3>2. Sent' = 4 * Len(stream) + 1
        BY <1>1, <3>1 DEF Sent
      <3>3. CASE stream = <<>>
        BY <1>1, <3>2, <3>3 DEF Sent
      <3>4. CASE stream # <<>>
        <4>1. Len(stream) >= 1
          BY <1>1, <3>4, EmptySeq
        <4> QED
          BY <1>1, <3>2, <3>4, <4>1 DEF Sent
      <3> QED
        BY <3>3, <3>4
    <2>4. ASSUME ~BetweenRequests PROVE Sent' >= Sent + 1 /\ Sent' \in Nat /\ Sent \in Nat
      <3>1. stream' = stream /\ sent' = sent + 1 /\ stream # <<>>
        BY <2>1, <2>4 DEF BetweenRequests
      <3>2. Len(stream) >= 1 /\ Len(stream') = Len(stream) /\ stream' # <<>>
        BY <1>1, <3>1, EmptySeq
      <3>3. Sent = 4 * (Len(stream) - 1) + sent
        BY <3>1 DEF Sent
      <3>4. Sent' = 4 * (Len(stream) - 1) + (sent + 1)
        BY <3>1, <3>2 DEF Sent
      <3> QED
        BY <1>1, <3>2, <3>3, <3>4
    <2> QED
      BY <2>3, <2>4, <2>5
  <1>3. ASSUME UNCHANGED <<stream, sent>>, Held' <= Held PROVE Held' <= Sent'
    <2>1. Sent' = Sent /\ Sent \in Int /\ Held \in Int
      BY <1>1, <1>3 DEF Sent, Held
    <2>2. Held' \in Int
      <3>1. conn' \in Conns /\ inq' \in Seq(InUnit)
        BY NextInv DEF IInv, Shape, Sound
      <3> QED
        BY <3>1, LenProperties DEF Held, Conns
    <2> QED
      BY <1>3, <2>1, <2>2
  <1>4. ASSUME UNCHANGED <<stream, sent, inq>>, conn'.rbuf = conn.rbuf PROVE Held' <= Sent'
    <2>1. Held' = Held /\ Held \in Int
      BY <1>1, <1>4 DEF Held
    <2> QED
      BY <1>3, <1>4, <2>1
  <1>5. ASSUME UNCHANGED <<stream, sent>>, inq' \in {inq, <<>>}, conn'.rbuf \in {conn.rbuf, <<>>}
        PROVE  Held' <= Sent'
    <2>1. Held' <= Held
      BY <1>1, <1>5 DEF Held
    <2> QED
      BY <1>3, <1>5, <2>1
  <1>6. Close(conn).rbuf = <<>> /\ ReplyError(conn).rbuf = conn.rbuf
    BY <1>1, CloseIs, ReplyErrorIs DEF SameRequest
  <1>7. CASE ClientReads \/ ClientStops \/ StartWait \/ Event \/ Tick \/ UNCHANGED vars
    <2>1. /\ UNCHANGED <<stream, sent, inq>>
          /\ \/ conn' = conn
             \/ conn' = [conn EXCEPT !.idleAge = Older(@), !.phaseAge = Older(@)]
      BY <1>7 DEF ClientReads, ClientStops, StartWait, Event, Tick, vars, server, clientVars
    <2>2. conn'.rbuf = conn.rbuf
      BY <1>1, <2>1 DEF Conns
    <2> QED
      BY <1>4, <2>1, <2>2
  <1>8. CASE Expire \/ Hangup \/ ReceiveEnds \/ Discard \/ SendBlocks
    <2>1. /\ UNCHANGED <<stream, sent>> /\ inq' \in {inq, <<>>}
          /\ conn' = conn \/ conn' = Close(conn) \/ conn' = ReplyError(conn)
      BY <1>8 DEF Expire, Hangup, ReceiveEnds, Discard, SendBlocks, clientVars
    <2>2. conn'.rbuf \in {conn.rbuf, <<>>}
      BY <1>6, <2>1
    <2> QED
      BY <1>5, <2>1, <2>2
  <1>9. ASSUME NEW n \in 1 .. Len(inq), Receive(n) PROVE Held' <= Sent'
    <2>1. UNCHANGED <<stream, sent>>
      BY <1>9 DEF Receive, clientVars
    <2>2. Held' <= Held
      BY <1>9, ReceiveStep DEF Held
    <2> QED
      BY <1>3, <2>1, <2>2
  <1>10. CASE SaveUnit
    <2>1. UNCHANGED <<stream, sent>>
      BY <1>10 DEF SaveUnit, clientVars
    <2>2. CASE /\ conn.rbuf # <<>> /\ inq' = inq
               /\ conn' = [conn EXCEPT !.body = @ - 1, !.rbuf = Tail(@)]
      <3>1. conn'.rbuf = Tail(conn.rbuf)
        BY <1>1, <2>2 DEF Conns
      <3>2. Len(conn'.rbuf) = Len(conn.rbuf) - 1
        BY <1>1, <2>2, <3>1, HeadTailProperties
      <3>3. Held' <= Held
        BY <1>1, <2>2, <3>2 DEF Held
      <3> QED
        BY <1>3, <2>1, <3>3
    <2>3. CASE /\ inq # <<>> /\ inq' = Tail(inq)
               /\ conn' = [conn EXCEPT !.body = @ - 1, !.idleAge = 0]
      <3>1. conn'.rbuf = conn.rbuf
        BY <1>1, <2>3 DEF Conns
      <3>2. Len(inq') = Len(inq) - 1
        BY <1>1, <2>3, HeadTailProperties
      <3>3. Held' <= Held
        BY <1>1, <3>1, <3>2 DEF Held
      <3> QED
        BY <1>3, <2>1, <3>3
    <2> QED
      BY <1>10, <2>2, <2>3 DEF SaveUnit
  <1>11. CASE SaveEnds
    <2>1. UNCHANGED <<stream, sent, inq>>
      BY <1>11 DEF SaveEnds, clientVars
    <2> QED
      BY <1>4, <1>11, <2>1, SaveEndsStep
  <1>12. CASE Send
    <2>1. UNCHANGED <<stream, sent, inq>> /\ conn' \in FillFile(Written(conn)) /\ conn.wbuf # <<>>
      BY <1>12 DEF Send, clientVars, Written
    <2>2. /\ Written(conn) \in Conns /\ Written(conn).rbuf = conn.rbuf
          /\ Written(conn).open = conn.open
      BY <1>1, <2>1, WrittenIs
    <2>3. CASE conn'.open
      <3>1. conn'.rbuf = conn.rbuf
        BY <2>1, <2>2, <2>3, FillFileIs
      <3> QED
        BY <1>4, <2>1, <3>1
    <2>4. CASE ~conn'.open
      <3>1. conn.open
        BY <1>12 DEF Send, IInv, Worker
      <3>2. conn' = Close(Written(conn))
        BY <2>1, <2>2, <2>4, <3>1, FillFileCloses
      <3>3. conn'.rbuf = <<>>
        BY <2>2, <3>2, CloseIs
      <3> QED
        BY <1>5, <2>1, <3>3
    <2> QED
      BY <2>3, <2>4
  <1>13. CASE SendDone
    <2>1. UNCHANGED <<stream, sent, inq>>
      BY <1>13 DEF SendDone, clientVars
    <2>2. CASE FinishNothing
      BY <1>4, <2>1, <2>2 DEF FinishNothing
    <2>3. CASE FinishClose
      <3> DEFINE n == conn.handled + (IF conn.responding THEN 1 ELSE 0)
                 v == Counted(conn, n)
      <3>1. conn.closeAfter /\ conn' \in ShutdownSend(v)
        BY <1>1, <2>3 DEF FinishClose, Responded, Counted, Conns
      <3>2. n \in 0 .. KeepAliveMax
        <4>1. conn.open /\ ~conn.shut /\ conn.handled < KeepAliveMax
          BY <1>13, <3>1 DEF SendDone, IInv, Worker, Sound, Replying, Requests
        <4> QED
          BY <1>1, <4>1 DEF Conns
      <3> HIDE DEF n
      <3>3. v \in Conns /\ v.rbuf = conn.rbuf
        BY <1>1, <3>2, CountedIs
      <3> HIDE DEF v
      <3>4. HalfClosed(v).rbuf = conn.rbuf /\ Close(v).rbuf = <<>>
        BY <3>3, HalfClosedIs, CloseIs
      <3>5. conn'.rbuf \in {conn.rbuf, <<>>}
        BY <3>1, <3>4 DEF ShutdownSend, HalfClosed
      <3> QED
        BY <1>5, <2>1, <3>5
    <2>4. CASE FinishNext
      <3>1. Len(conn'.rbuf) <= Len(conn.rbuf)
        BY <1>13, <2>4, FinishNextStep
      <3>2. conn' \in Conns
        BY NextInv DEF IInv, Sound
      <3>3. Len(conn'.rbuf) \in Nat
        BY <3>2, LenProperties DEF Conns
      <3>4. Held' <= Held
        BY <1>1, <2>1, <3>1, <3>3 DEF Held
      <3> QED
        BY <1>3, <2>1, <3>4
    <2> QED
      BY <1>13, <2>2, <2>3, <2>4 DEF SendDone
  <1> QED
    BY <1>2, <1>7, <1>8, <1>9, <1>10, <1>11, <1>12, <1>13 DEF Next, ClientStep, WorkerStep, Ended

\* A read buffer that holds all the client may send is never overflowed: what the
\* client receives is whole and in order.
COROLLARY ResponsesAreWhole ==
  ASSUME "large" \notin Replies, ~FileShrinks, MaxRead >= 4 * MaxRequests
  PROVE  Spec => []ResponsesWhole
  <1>1. Init => Held <= Sent
    BY DEF Init, Fresh, Held, Sent
  <1>2. IInv /\ Held <= Sent => Fits
    <2> SUFFICES ASSUME IInv, Held <= Sent PROVE Fits
      OBVIOUS
    <2>3. /\ stream \in Seq(Kinds) /\ Len(stream) <= MaxRequests /\ sent \in 0 .. 4
          /\ conn.rbuf \in Seq(InUnit) /\ inq \in Seq(InUnit)
      BY DEF IInv, Shape, Sound, Conns
    <2>1. Len(stream) \in Nat /\ Len(stream) <= MaxRequests /\ sent \in 0 .. 4
          /\ Len(conn.rbuf) \in Nat /\ Len(inq) \in Nat
          /\ (stream # <<>> => Len(stream) >= 1)
      BY <2>3, EmptySeq
    <2>2. Sent <= 4 * MaxRequests
      BY <2>1 DEF Sent
    <2> QED
      BY <2>1, <2>2, SMTT(30) DEF Held, Fits, Sent
  <1>3. IInv /\ Held <= Sent /\ [Next]_vars => (Held <= Sent)'
    BY HeldStep
  <1>4. Spec => [](Held <= Sent)
    BY <1>1, <1>3, Invariant, PTL DEF Spec
  <1> QED
    BY <1>2, <1>4, Invariant, WholeWhileItFits, PTL
=============================================================================
