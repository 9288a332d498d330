------------------------- MODULE SessionStoreProofs -------------------------
(***************************************************************************)
(* Proofs about SessionStore, for any browsers, connections, workers and   *)
(* limits: type correctness, that what ended stays ended, that a cookie is *)
(* honoured until its time, that no expired entry is returned and that the *)
(* oldest is evicted.                                                      *)
(***************************************************************************)
EXTENDS SessionStore, ListProofs

Entry == [id : Nat, touched : Nat, expires : Nat]

\* A table of the code when m entries had been made: no two entries have one name,
\* and none was touched, or given a deadline, later than now.
Table(s, m) ==
  /\ s \in Seq(Entry)
  /\ Len(s) <= MaxEntries
  /\ \A i \in DOMAIN s :
       s[i].id \in 1 .. m /\ s[i].touched <= now /\ s[i].expires <= now + TTL
  /\ \A i, j \in DOMAIN s : s[i].id = s[j].id => i = j

\* The elements of t are those of s at the positions in I, in whatever order.
From(t, s, I) ==
  /\ \A k \in DOMAIN t : \E i \in I : t[k] = s[i]
  /\ \A i \in I : \E k \in DOMAIN t : t[k] = s[i]

\* A cookie, or reply, with a name and the time it was issued: in the table s an entry
\* of that name is good until ttl_seconds later, and is there until then unless gone.
Honoured(id, issued, s, gone, time) ==
  id >= 1 =>
    /\ \A i \in DOMAIN s : s[i].id = id => s[i].expires >= issued + TTL
    /\ id \in Ids(s) \union gone \/ time >= issued + TTL

\* The entries at the positions in H whose deadline has not come.
Live(H) == {i \in H : entries[i].expires > now}

\* s holds the live entries at H but those evicted: the one touched first, when the
\* live ones are as many as a table may hold.
Spared(s, H) ==
  \A i \in Live(H) :
    \/ entries[i].id \in Ids(s)
    \/ /\ Cardinality(Live(H)) = MaxEntries
       /\ \A j \in Live(H) : entries[i].touched <= entries[j].touched

\* What every outcome of a call promises that works on the entries at H.
Sound(o, H) ==
  /\ Table(o.entries, IF o.reply = NewId THEN NewId ELSE made)
  /\ o.entry = 0 \/ (o.entry \in DOMAIN o.entries /\ o.entries[o.entry].expires > now)
  /\ \/ o.reply \in {Keep, NoId}
     \/ \E k \in DOMAIN o.entries :
          o.entries[k].id = o.reply /\ o.entries[k].expires = now + TTL
  /\ \A k \in DOMAIN o.entries :
       \/ o.entries[k].id = NewId
       \/ \E i \in H : /\ o.entries[k].id = entries[i].id
                       /\ o.entries[k].expires >= entries[i].expires
  /\ Spared(o.entries, H)

\* The entries a call works on: those that have not expired, or all of them for a
\* foreign cookie that is only looked up; and a login's and a logout's those of other
\* names.
Others(id) == {i \in DOMAIN entries : entries[i].id # id}

Scope(name, id) ==
  IF name = "end" THEN Others(id)
  ELSE IF name = "login" THEN Live(Others(id))
  ELSE IF name # "start" /\ id = Foreign THEN DOMAIN entries
  ELSE Live(DOMAIN entries)

Cookies(m, time) == [id : 0 .. m, issued : 0 .. time, until : Nat]

Sent(m) == {Foreign} \union 0 .. m

Requests(m, time) ==
  [at : {"idle", "sent", "handling", "answered"}, sent : Sent(m), calls : 0 .. MaxCalls,
   entry : Nat, given : Nat, reply : Keep .. m, issued : 0 .. time]

Shape ==
  /\ kind \in {"session", "token"} /\ now \in 0 .. MaxTime /\ made \in 0 .. MaxIds
  /\ evicted \subseteq 1 .. made /\ ended \subseteq 1 .. made
  /\ cookie \in [Client -> Cookies(made, now)]
  /\ link \in [Link -> Requests(made, now)]

\* Only a running handler holds a pointer, no more run than there are workers, and a
\* response on its way says something of the cookie.
Served ==
  /\ \A k \in Link : link[k].at # "handling" => link[k].entry = 0
  /\ \A k \in Link : link[k].at = "answered" => link[k].reply # Keep
  /\ IsFiniteSet(Handling) /\ Cardinality(Handling) <= Workers

Deadlines ==
  /\ \A c \in Client :
       Honoured(cookie[c].id, cookie[c].issued, entries, evicted \union ended, now)
  /\ \A k \in Link : Honoured(link[k].reply, link[k].issued, entries, evicted \union ended, now)

IInv == Shape /\ Table(entries, made) /\ Served /\ EndedForGood /\ Deadlines

USE OwnerAssumption, LimitAssumption, BoundAssumption
-----------------------------------------------------------------------------
(* The operations on a table.                                               *)

\* The entries of a table and their fields.
LEMMA EntryIs ==
  ASSUME NEW m, NEW s, Table(s, m)
  PROVE  /\ s \in Seq(Entry) /\ Len(s) \in Nat /\ DOMAIN s = 1 .. Len(s)
         /\ s \in [1 .. Len(s) -> Entry]
         /\ \A i \in DOMAIN s : /\ i \in Nat /\ s[i] \in Entry /\ s[i].id \in Nat
                                /\ s[i].touched \in Nat /\ s[i].expires \in Nat
<1>1. s \in Seq(Entry)
  BY DEF Table
<1>2. Len(s) \in Nat /\ DOMAIN s = 1 .. Len(s) /\ s \in [1 .. Len(s) -> Entry]
  BY <1>1, LenProperties
<1>3. ASSUME NEW i \in DOMAIN s PROVE i \in Nat /\ s[i] \in Entry
  BY <1>2
<1>. QED
  BY <1>1, <1>2, <1>3 DEF Entry

\* Removing entries leaves a table, of the entries at the other positions.
LEMMA KeptTable ==
  ASSUME NEW m, NEW s, Table(s, m), NEW I, I \subseteq DOMAIN s
  PROVE  Table(Kept(s, I), m) /\ From(Kept(s, I), s, I) /\ Len(Kept(s, I)) = Cardinality(I)
<1> DEFINE t == Kept(s, I)
<1>1. s \in Seq(Entry) /\ Len(s) \in Nat /\ DOMAIN s = 1 .. Len(s)
  BY EntryIs
<1>2. I \subseteq 1 .. Len(s)
  BY <1>1
<1>3. t \in Seq(Entry) /\ \E f : Picks(f, t, s, I)
  BY <1>1, <1>2, KeptPicks
<1>4. PICK f : Picks(f, t, s, I)
  BY <1>3
<1>5. Len(t) = Cardinality(I)
  BY <1>1, <1>2, KeptLen
<1> HIDE DEF t
<1>6. Len(t) \in Nat /\ DOMAIN t = 1 .. Len(t)
  BY <1>3, LenProperties
<1>7. /\ f \in [DOMAIN t -> I]
      /\ \A i \in I : \E k \in DOMAIN t : f[k] = i
      /\ \A j, k \in DOMAIN t : j < k => f[j] < f[k]
      /\ \A k \in DOMAIN t : t[k] = s[f[k]]
  BY <1>4, <1>6 DEF Picks
<1>8. From(t, s, I)
  BY <1>7 DEF From
<1>9. Len(t) <= MaxEntries
  <2>1. IsFiniteSet(1 .. Len(s)) /\ Cardinality(1 .. Len(s)) = Len(s)
    BY <1>1, Segment
  <2>2. Cardinality(I) <= Len(s)
    BY <1>2, <2>1, FS_Subset
  <2>3. Len(s) <= MaxEntries
    BY DEF Table
  <2>. QED
    BY <1>1, <1>5, <1>6, <2>2, <2>3
<1>10. ASSUME NEW i \in DOMAIN t
       PROVE  t[i].id \in 1 .. m /\ t[i].touched <= now /\ t[i].expires <= now + TTL
  BY <1>7 DEF Table
<1>11. ASSUME NEW i \in DOMAIN t, NEW j \in DOMAIN t, t[i].id = t[j].id PROVE i = j
  <2>1. f[i] \in DOMAIN s /\ f[j] \in DOMAIN s /\ s[f[i]].id = s[f[j]].id
    BY <1>7, <1>11
  <2>2. f[i] = f[j]
    BY <2>1 DEF Table
  <2>3. ~ (i < j) /\ ~ (j < i)
    BY <1>1, <1>7, <2>1, <2>2
  <2>. QED
    BY <1>6, <2>3
<1>. QED
  BY <1>3, <1>5, <1>8, <1>9, <1>10, <1>11 DEF Table, t

\* The search returns the entry of that name, or 0 when there is none.
LEMMA FindIs ==
  ASSUME NEW m, NEW s, Table(s, m), NEW id
  PROVE  \/ Find(s, id) = 0 /\ id \notin Ids(s)
         \/ Find(s, id) \in DOMAIN s /\ Find(s, id) # 0 /\ s[Find(s, id)].id = id
<1>1. DOMAIN s = 1 .. Len(s) /\ Len(s) \in Nat
  BY EntryIs
<1>2. CASE id \in Ids(s)
  <2>1. \E i \in DOMAIN s : s[i].id = id
    BY <1>2 DEF Ids
  <2>2. Find(s, id) \in DOMAIN s /\ s[Find(s, id)].id = id
    BY <1>2, <2>1 DEF Find
  <2>. QED
    BY <1>1, <2>2
<1>3. CASE id \notin Ids(s)
  BY <1>3 DEF Find
<1>. QED
  BY <1>2, <1>3

\* A table that is not empty has an entry to evict, and none was touched before it.
LEMMA OldestIs ==
  ASSUME NEW m, NEW s, Table(s, m), s # <<>>
  PROVE  /\ Oldest(s) \in DOMAIN s
         /\ \A j \in DOMAIN s : s[Oldest(s)].touched <= s[j].touched
<1>1. s \in Seq(Entry) /\ DOMAIN s = 1 .. Len(s) /\ Len(s) \in Nat
  BY EntryIs
<1>2. \A i \in DOMAIN s : s[i].touched \in Nat /\ i \in Nat
  BY EntryIs
<1> DEFINE T == {s[i].touched : i \in DOMAIN s}
<1>3. Len(s) # 0
  BY <1>1, EmptySeq
<1>4. T \subseteq Nat /\ T # {}
  BY <1>1, <1>2, <1>3
<1>5. PICK a \in T : \A b \in T : a <= b
  BY <1>4, NatMinimum
<1> DEFINE U == {i \in DOMAIN s : s[i].touched = a}
<1>6. U \subseteq Nat /\ U # {}
  BY <1>2
<1>7. PICK i \in U : \A j \in U : i <= j
  BY <1>6, NatMinimum
<1>8. ASSUME NEW j \in DOMAIN s
      PROVE  s[i].touched < s[j].touched \/ (s[i].touched = s[j].touched /\ i <= j)
  <2>1. s[i].touched = a /\ a <= s[j].touched /\ a \in Nat /\ s[j].touched \in Nat
    BY <1>2, <1>5
  <2>. QED
    BY <1>7, <2>1
<1> DEFINE P(x) == \A j \in DOMAIN s :
                     s[x].touched < s[j].touched \/ (s[x].touched = s[j].touched /\ x <= j)
<1>9. \E x \in DOMAIN s : P(x)
  BY <1>8
<1>10. Oldest(s) = CHOOSE x \in DOMAIN s : P(x)
  BY DEF Oldest
<1> HIDE DEF P
<1>11. Oldest(s) \in DOMAIN s /\ P(Oldest(s))
  BY <1>9, <1>10
<1>. QED
  BY <1>2, <1>11 DEF P

\* Using an entry moves its deadline, and nothing else of the table.
LEMMA TouchedIs ==
  ASSUME NEW m, NEW s, Table(s, m), NEW i \in DOMAIN s, now \in Nat
  PROVE  /\ Table(Touched(s, i), m)
         /\ DOMAIN Touched(s, i) = DOMAIN s
         /\ \A j \in DOMAIN s : /\ Touched(s, i)[j].id = s[j].id
                                /\ j # i => Touched(s, i)[j] = s[j]
         /\ Touched(s, i)[i].expires = now + TTL
<1> DEFINE x == s[i]
           e == [x EXCEPT !.touched = now, !.expires = now + TTL]
<1>1. /\ s \in Seq(Entry) /\ DOMAIN s = 1 .. Len(s) /\ Len(s) \in Nat
      /\ s \in [1 .. Len(s) -> Entry]
  BY EntryIs
<1>2. x \in Entry /\ TTL \in Nat
  BY EntryIs
<1> HIDE DEF x
<1>3. e \in Entry /\ e.id = x.id /\ e.touched = now /\ e.expires = now + TTL
  <2>1. e.id = x.id
    BY <1>2 DEF Entry
  <2>2. e.touched = now
    BY <1>2 DEF Entry
  <2>3. e.expires = now + TTL
    BY <1>2 DEF Entry
  <2>4. e \in Entry
    <3> DEFINE d == now + TTL
    <3>1. d \in Nat
      BY <1>2
    <3> HIDE DEF d
    <3>2. [x EXCEPT !.touched = now, !.expires = d] \in Entry
      BY <1>2, <3>1 DEF Entry
    <3>. QED
      BY <3>2 DEF d
  <2>. QED
    BY <2>1, <2>2, <2>3, <2>4
<1> HIDE DEF e
<1>4. Touched(s, i) = [s EXCEPT ![i] = e]
  BY <1>1 DEF Touched, e, x
<1> DEFINE t == [s EXCEPT ![i] = e]
<1>5. t \in Seq(Entry) /\ Len(t) = Len(s) /\ DOMAIN t = DOMAIN s
  BY <1>1, <1>3, ExceptSeq
<1>6. t[i] = e /\ \A j \in DOMAIN s : j # i => t[j] = s[j]
  BY <1>1
<1> HIDE DEF t
<1>7. \A j \in DOMAIN s : t[j].id = s[j].id
  BY <1>3, <1>6 DEF x
<1>8. ASSUME NEW j \in DOMAIN t
      PROVE  t[j].id \in 1 .. m /\ t[j].touched <= now /\ t[j].expires <= now + TTL
  <2>1. s[j].id \in 1 .. m /\ s[j].touched <= now /\ s[j].expires <= now + TTL
    BY <1>5 DEF Table
  <2>2. t[j].id \in 1 .. m
    BY <1>5, <1>7, <2>1
  <2>3. t[j].touched <= now /\ t[j].expires <= now + TTL
    BY <1>2, <1>3, <1>5, <1>6, <2>1
  <2>. QED
    BY <2>2, <2>3
<1>9. Table(t, m)
  BY <1>5, <1>7, <1>8 DEF Table
<1>. QED
  BY <1>3, <1>4, <1>5, <1>6, <1>7, <1>9 DEF t

\* What the cleanup leaves: the entries whose deadline has not come.
LEMMA CleanUpIs ==
  ASSUME NEW m, NEW s, Table(s, m), now \in Nat
  PROVE  /\ Table(CleanUp(s), m)
         /\ From(CleanUp(s), s, {i \in DOMAIN s : s[i].expires > now})
         /\ \A i \in DOMAIN CleanUp(s) : CleanUp(s)[i].expires > now
<1> DEFINE I == {i \in DOMAIN s : ~ Expired(s[i])}
           J == {i \in DOMAIN s : s[i].expires > now}
<1>1. \A i \in DOMAIN s : s[i].expires \in Nat
  BY EntryIs
<1>2. I = J
  BY <1>1 DEF Expired
<1>3. CleanUp(s) = Kept(s, J)
  BY <1>2 DEF CleanUp
<1>4. Table(Kept(s, J), m) /\ From(Kept(s, J), s, J)
  BY KeptTable
<1>5. \A i \in DOMAIN Kept(s, J) : Kept(s, J)[i].expires > now
  BY <1>4 DEF From
<1>. QED
  BY <1>3, <1>4, <1>5

\* Logging out, or replacing a token, leaves the entries of every other name.
LEMMA WithoutIs ==
  ASSUME NEW m, NEW s, Table(s, m), NEW id
  PROVE  /\ Table(Without(s, id), m)
         /\ From(Without(s, id), s, {i \in DOMAIN s : s[i].id # id})
BY KeptTable DEF Without

\* Entries taken from the positions in I are counted by the positions.
LEMMA FromCount ==
  ASSUME NEW m, NEW s, Table(s, m), NEW t, Table(t, m),
         NEW I, I \subseteq DOMAIN s, From(t, s, I)
  PROVE  IsFiniteSet(I) /\ Cardinality(I) = Len(t)
<1>1. /\ Len(s) \in Nat /\ DOMAIN s = 1 .. Len(s)
      /\ Len(t) \in Nat /\ DOMAIN t = 1 .. Len(t)
  BY EntryIs
<1>2. /\ \A k \in DOMAIN t : \E i \in I : t[k] = s[i]
      /\ \A i \in I : \E k \in DOMAIN t : t[k] = s[i]
  BY DEF From
<1> DEFINE f == [i \in I |-> CHOOSE k \in DOMAIN t : t[k] = s[i]]
<1>3. \A i \in I : f[i] \in DOMAIN t /\ t[f[i]] = s[i]
  BY <1>2
<1>4. f \in [I -> DOMAIN t]
  BY <1>3
<1> HIDE DEF f
<1>5. ASSUME NEW i \in I, NEW j \in I, f[i] = f[j] PROVE i = j
  <2>1. s[i] = s[j] /\ i \in DOMAIN s /\ j \in DOMAIN s
    BY <1>3, <1>5
  <2>. QED
    BY <2>1 DEF Table
<1>6. ASSUME NEW k \in DOMAIN t PROVE \E i \in I : f[i] = k
  <2>1. PICK i \in I : t[k] = s[i]
    BY <1>2
  <2>2. f[i] \in DOMAIN t /\ t[f[i]].id = t[k].id
    BY <1>3, <2>1
  <2>. QED
    BY <2>2 DEF Table
<1>7. f \in Bijection(I, DOMAIN t)
  BY <1>4, <1>5, <1>6 DEF Bijection, Injection, Surjection, IsInjective
<1>8. IsFiniteSet(1 .. Len(s)) /\ IsFiniteSet(1 .. Len(t)) /\ Cardinality(1 .. Len(t)) = Len(t)
  BY <1>1, Segment
<1>9. IsFiniteSet(I)
  BY <1>1, <1>8, FS_Subset
<1>. QED
  BY <1>1, <1>7, <1>8, <1>9, FS_Bijection DEF ExistsBijection

\* Room is made in a table of live entries by evicting the oldest, if it is full.
LEMMA MakeRoomIs ==
  ASSUME now \in Nat, Table(entries, made), NEW H, H \subseteq DOMAIN entries, Live(H) = H,
         NEW s, Table(s, made), From(s, entries, H)
  PROVE  /\ Table(MakeRoom(s), made)
         /\ Len(MakeRoom(s)) < MaxEntries
         /\ \A k \in DOMAIN MakeRoom(s) : \E i \in H : MakeRoom(s)[k] = entries[i]
         /\ Spared(MakeRoom(s), H)
<1>1. /\ Len(s) \in Nat /\ DOMAIN s = 1 .. Len(s) /\ Len(s) <= MaxEntries
      /\ MaxEntries \in Nat /\ MaxEntries > 0
  BY EntryIs DEF Table
<1>2. Cardinality(H) = Len(s)
  BY FromCount
<1>3. /\ \A k \in DOMAIN s : \E i \in H : s[k] = entries[i]
      /\ \A i \in H : \E k \in DOMAIN s : s[k] = entries[i]
  BY DEF From
<1>4. CASE ~ (Len(s) >= MaxEntries)
  <2>1. MakeRoom(s) = s
    BY <1>4 DEF MakeRoom
  <2>2. \A i \in H : entries[i].id \in Ids(s)
    BY <1>3 DEF Ids
  <2>. QED
    BY <1>1, <1>3, <1>4, <2>1, <2>2 DEF Spared
<1>5. CASE Len(s) >= MaxEntries
  <2> DEFINE x == Oldest(s)
             r == Kept(s, DOMAIN s \ {x})
  <2>1. MakeRoom(s) = r
    BY <1>5 DEF MakeRoom, Evict
  <2>2. Len(s) = MaxEntries /\ s # <<>>
    <3>1. Len(s) = MaxEntries
      <4>1. \A a, b \in Nat : a <= b /\ a >= b => a = b
        OBVIOUS
      <4>. QED
        BY <1>1, <1>5, <4>1
    <3>2. Len(<<>>) = 0
      BY EmptySeq
    <3>. QED
      BY <1>1, <3>1, <3>2
  <2>3. x \in DOMAIN s /\ \A j \in DOMAIN s : s[x].touched <= s[j].touched
    BY <2>2, OldestIs
  <2>4. Table(r, made) /\ From(r, s, DOMAIN s \ {x}) /\ Len(r) = Cardinality(DOMAIN s \ {x})
    BY KeptTable
  <2> HIDE DEF x, r
  <2>5. Len(r) < MaxEntries
    <3>1. IsFiniteSet(DOMAIN s) /\ Cardinality(DOMAIN s) = Len(s)
      BY <1>1, Segment
    <3>2. Cardinality(DOMAIN s \ {x}) = Len(s) - 1
      BY <2>3, <3>1, FS_RemoveElement, ZenonT(40)
    <3>3. Len(r) = Len(s) - 1
      BY <2>4, <3>2
    <3>. QED
      BY <1>1, <2>2, <3>3
  <2>6. \A k \in DOMAIN r : \E i \in H : r[k] = entries[i]
    BY <1>3, <2>4 DEF From
  <2>7. ASSUME NEW i \in H
        PROVE  \/ entries[i].id \in Ids(r)
               \/ \A j \in H : entries[i].touched <= entries[j].touched
    <3>1. PICK k \in DOMAIN s : s[k] = entries[i]
      BY <1>3
    <3>2. CASE k # x
      <4>1. PICK n \in DOMAIN r : r[n] = s[k]
        BY <2>4, <3>2 DEF From
      <4>. QED
        BY <3>1, <4>1 DEF Ids
    <3>3. CASE k = x
      BY <1>3, <2>3, <3>1, <3>3
    <3>. QED
      BY <3>2, <3>3
  <2>. QED
    BY <1>2, <2>1, <2>2, <2>4, <2>5, <2>6, <2>7 DEF Spared
<1>. QED
  BY <1>4, <1>5

\* A new entry goes at the end, under a name no entry has.
LEMMA AddedIs ==
  ASSUME now \in Nat, made \in Nat, NEW s, Table(s, made), Len(s) < MaxEntries
  PROVE  /\ Table(Added(s), NewId)
         /\ Len(s) + 1 \in DOMAIN Added(s)
         /\ Added(s)[Len(s) + 1].id = NewId
         /\ Added(s)[Len(s) + 1].expires = now + TTL
         /\ DOMAIN Added(s) = DOMAIN s \union {Len(s) + 1}
         /\ \A i \in DOMAIN s : Added(s)[i] = s[i]
<1> DEFINE e == [id |-> NewId, touched |-> now, expires |-> now + TTL]
           n == Len(s)
<1>1. s \in Seq(Entry) /\ n \in Nat /\ DOMAIN s = 1 .. n
  BY EntryIs
<1>2. TTL \in Nat /\ MaxEntries \in Nat /\ NewId = made + 1
  BY DEF NewId
<1>3. e \in Entry /\ e.id = NewId /\ e.touched = now /\ e.expires = now + TTL
  BY <1>2 DEF Entry
<1> HIDE DEF e
<1> DEFINE t == Append(s, e)
<1>4. /\ t \in Seq(Entry) /\ Len(t) = n + 1
      /\ \A i \in 1 .. n : t[i] = s[i]
      /\ t[n + 1] = e
  BY <1>1, <1>3, AppendProperties
<1>5. DOMAIN t = 1 .. n + 1
  BY <1>4, LenProperties
<1>6. Added(s) = t
  BY DEF Added, e
<1> HIDE DEF t, n
<1>7. DOMAIN t = DOMAIN s \union {n + 1} /\ n + 1 \notin DOMAIN s
  BY <1>1, <1>5
<1>8. ASSUME NEW i \in DOMAIN s
      PROVE  s[i].id \in 1 .. made /\ s[i].touched <= now /\ s[i].expires <= now + TTL
  BY DEF Table
<1>9. ASSUME NEW i \in DOMAIN t
      PROVE  t[i].id \in 1 .. NewId /\ t[i].touched <= now /\ t[i].expires <= now + TTL
  <2>1. CASE i = n + 1
    BY <1>2, <1>3, <1>4, <2>1
  <2>2. CASE i \in DOMAIN s
    BY <1>1, <1>2, <1>4, <1>8, <2>2
  <2>. QED
    BY <1>7, <2>1, <2>2
<1>10. ASSUME NEW i \in DOMAIN t, NEW j \in DOMAIN t, t[i].id = t[j].id PROVE i = j
  <2>1. \A k \in DOMAIN s : t[k].id # NewId /\ t[k].id = s[k].id
    BY <1>1, <1>2, <1>4, <1>8
  <2>2. t[n + 1].id = NewId
    BY <1>3, <1>4
  <2>3. \A k, l \in DOMAIN s : s[k].id = s[l].id => k = l
    BY DEF Table
  <2>. QED
    BY <1>7, <1>10, <2>1, <2>2, <2>3
<1>11. Len(t) <= MaxEntries
  BY <1>1, <1>2, <1>4 DEF n
<1>12. Table(t, NewId)
  BY <1>4, <1>9, <1>10, <1>11 DEF Table
<1>. QED
  BY <1>1, <1>3, <1>4, <1>6, <1>7, <1>12 DEF n

-----------------------------------------------------------------------------
(* The calls: every outcome is sound.                                       *)

\* A call that changes no entry.
LEMMA HeldSound ==
  ASSUME now \in Nat, made \in Nat, NEW H, H \subseteq DOMAIN entries,
         NEW s, Table(s, made), From(s, entries, H),
         NEW e, e = 0 \/ (e \in DOMAIN s /\ s[e].expires > now),
         NEW reply \in {Keep, NoId}, Table(entries, made)
  PROVE  Sound(Outcome(s, e, reply), H)
<1> DEFINE o == Outcome(s, e, reply)
<1>1. o.entries = s /\ o.entry = e /\ o.reply = reply
  BY DEF Outcome
<1>2. reply # NewId
  BY DEF Keep, NoId, NewId
<1>3. \A i \in H : entries[i].id \in Ids(s)
  BY DEF From, Ids
<1>4. Spared(s, H)
  BY <1>3 DEF Spared, Live
<1>5. ASSUME NEW k \in DOMAIN s
      PROVE  \E i \in H : s[k].id = entries[i].id /\ s[k].expires >= entries[i].expires
  <2>1. PICK i \in H : s[k] = entries[i]
    BY DEF From
  <2>2. s[k].expires \in Nat
    BY EntryIs
  <2>. QED
    BY <2>1, <2>2
<1> HIDE DEF o
<1>. QED
  BY <1>1, <1>2, <1>4, <1>5 DEF Sound, o

\* A call that uses the entry of the cookie.
LEMMA UsedSound ==
  ASSUME now \in Nat, made \in Nat, NEW H, H \subseteq DOMAIN entries,
         NEW s, Table(s, made), From(s, entries, H),
         NEW i \in DOMAIN s, NEW e \in {0, i}, NEW reply \in {Keep, s[i].id},
         Table(entries, made)
  PROVE  Sound(Outcome(Touched(s, i), e, reply), H)
<1> DEFINE t == Touched(s, i)
           o == Outcome(t, e, reply)
<1>1. /\ Table(t, made) /\ DOMAIN t = DOMAIN s
      /\ \A j \in DOMAIN s : t[j].id = s[j].id /\ (j # i => t[j] = s[j])
      /\ t[i].expires = now + TTL
  BY TouchedIs
<1> HIDE DEF t
<1>2. o.entries = t /\ o.entry = e /\ o.reply = reply
  BY DEF Outcome
<1> HIDE DEF o
<1>3. now + TTL > now
  OBVIOUS
<1>4. s[i].id \in 1 .. made
  BY DEF Table
<1>5. reply # NewId
  BY <1>4 DEF Keep, NewId
<1>6. e = 0 \/ (e \in DOMAIN t /\ t[e].expires > now)
  BY <1>1, <1>3
<1>7. reply = Keep \/ \E k \in DOMAIN t : t[k].id = reply /\ t[k].expires = now + TTL
  BY <1>1
<1>8. ASSUME NEW j \in H PROVE entries[j].id \in Ids(t)
  <2>1. PICK k \in DOMAIN s : s[k] = entries[j]
    BY DEF From
  <2>2. k \in DOMAIN t /\ t[k].id = entries[j].id
    BY <1>1, <2>1
  <2>. QED
    BY <2>2 DEF Ids
<1>9. Spared(t, H)
  BY <1>8 DEF Spared, Live
<1>10. ASSUME NEW k \in DOMAIN t
       PROVE  \E j \in H : t[k].id = entries[j].id /\ t[k].expires >= entries[j].expires
  <2>1. PICK j \in H : s[k] = entries[j]
    BY <1>1 DEF From
  <2>2. t[k].id = entries[j].id
    BY <1>1, <2>1
  <2>3. s[k].expires \in Nat /\ s[k].expires <= now + TTL
    BY <1>1, EntryIs DEF Table
  <2>4. t[k].expires >= s[k].expires
    BY <1>1, <2>3
  <2>. QED
    BY <2>1, <2>2, <2>4
<1>. QED
  BY <1>1, <1>2, <1>5, <1>6, <1>7, <1>9, <1>10 DEF Sound, o, t

\* A call that makes an entry, or fails to.
LEMMA MakeSound ==
  ASSUME now \in Nat, made \in Nat, Table(entries, made),
         NEW H, H \subseteq DOMAIN entries, Live(H) = H,
         NEW s, Table(CleanUp(s), made), From(CleanUp(s), entries, H),
         NEW o \in Make(s)
  PROVE  Sound(o, H)
<1> DEFINE r == MakeRoom(CleanUp(s))
<1>1. /\ Table(r, made) /\ Len(r) < MaxEntries
      /\ \A k \in DOMAIN r : \E i \in H : r[k] = entries[i]
      /\ Spared(r, H)
  BY MakeRoomIs
<1>2. o = Outcome(r, 0, Keep) \/ o = Outcome(Added(r), Len(r) + 1, NewId)
  BY DEF Make
<1> HIDE DEF r
<1>3. ASSUME NEW k \in DOMAIN r
      PROVE  \E i \in H : r[k].id = entries[i].id /\ r[k].expires >= entries[i].expires
  <2>1. PICK i \in H : r[k] = entries[i]
    BY <1>1
  <2>2. r[k].expires \in Nat
    BY <1>1, EntryIs
  <2>. QED
    BY <2>1, <2>2
<1>4. CASE o = Outcome(r, 0, Keep)
  <2>1. o.entries = r /\ o.entry = 0 /\ o.reply = Keep
    BY <1>4 DEF Outcome
  <2>2. Keep # NewId
    BY DEF Keep, NewId
  <2>. QED
    BY <1>1, <1>3, <2>1, <2>2 DEF Sound
<1>5. CASE o = Outcome(Added(r), Len(r) + 1, NewId)
  <2> DEFINE t == Added(r)
             n == Len(r) + 1
  <2>1. /\ Table(t, NewId) /\ n \in DOMAIN t
        /\ t[n].id = NewId /\ t[n].expires = now + TTL
        /\ DOMAIN t = DOMAIN r \union {n}
        /\ \A i \in DOMAIN r : t[i] = r[i]
    BY <1>1, AddedIs
  <2>2. o.entries = t /\ o.entry = n /\ o.reply = NewId
    BY <1>5 DEF Outcome
  <2> HIDE DEF t, n
  <2>3. t[n].expires > now
    BY <2>1
  <2>4. Ids(r) \subseteq Ids(t)
    BY <2>1 DEF Ids
  <2>5. Spared(t, H)
    BY <1>1, <2>4 DEF Spared
  <2>6. ASSUME NEW k \in DOMAIN t
        PROVE  \/ t[k].id = NewId
               \/ \E i \in H : t[k].id = entries[i].id /\ t[k].expires >= entries[i].expires
    BY <1>3, <2>1
  <2>. QED
    BY <2>1, <2>2, <2>3, <2>5, <2>6 DEF Sound
<1>. QED
  BY <1>2, <1>4, <1>5

\* Cleaning up leaves the live ones of the entries at G.
LEMMA CleanFrom ==
  ASSUME now \in Nat, NEW G, G \subseteq DOMAIN entries,
         NEW s, Table(s, made), From(s, entries, G)
  PROVE  /\ Table(CleanUp(s), made) /\ From(CleanUp(s), entries, Live(G))
         /\ \A k \in DOMAIN CleanUp(s) : CleanUp(s)[k].expires > now
         /\ Live(G) \subseteq DOMAIN entries /\ Live(Live(G)) = Live(G)
<1> DEFINE t == CleanUp(s)
           J == {i \in DOMAIN s : s[i].expires > now}
<1>1. Table(t, made) /\ From(t, s, J) /\ \A k \in DOMAIN t : t[k].expires > now
  BY CleanUpIs
<1> HIDE DEF t
<1>2. ASSUME NEW k \in DOMAIN t PROVE \E i \in Live(G) : t[k] = entries[i]
  <2>1. PICK j \in DOMAIN s : t[k] = s[j] /\ s[j].expires > now
    BY <1>1 DEF From
  <2>2. PICK i \in G : s[j] = entries[i]
    BY DEF From
  <2>. QED
    BY <2>1, <2>2 DEF Live
<1>3. ASSUME NEW i \in Live(G) PROVE \E k \in DOMAIN t : t[k] = entries[i]
  <2>1. i \in G /\ entries[i].expires > now
    BY DEF Live
  <2>2. PICK j \in DOMAIN s : s[j] = entries[i]
    BY <2>1 DEF From
  <2>3. j \in J
    BY <2>1, <2>2
  <2>4. PICK k \in DOMAIN t : t[k] = s[j]
    BY <1>1, <2>3 DEF From
  <2>. QED
    BY <2>2, <2>4
<1>4. From(t, entries, Live(G))
  BY <1>2, <1>3 DEF From
<1>5. Live(G) \subseteq DOMAIN entries /\ Live(Live(G)) = Live(G)
  BY DEF Live
<1>. QED
  BY <1>1, <1>4, <1>5 DEF t

\* What is sound of the live entries is sound of all.
LEMMA SoundOfLive ==
  ASSUME NEW o, NEW G, Sound(o, Live(G))
  PROVE  Sound(o, G)
<1>1. Live(G) \subseteq G /\ Live(Live(G)) = Live(G)
  BY DEF Live
<1>2. Spared(o.entries, G)
  BY <1>1 DEF Sound, Spared
<1>. QED
  BY <1>1, <1>2 DEF Sound

\* Whatever a call does to the table, returns and replies is sound.
LEMMA CallSound ==
  ASSUME now \in Nat, made \in Nat, Table(entries, made),
         NEW name \in {"start", "find", "login", "current", "end"},
         NEW id, NEW o \in Outcomes(name, id)
  PROVE  Sound(o, Scope(name, id)) /\ Scope(name, id) \subseteq DOMAIN entries
<1> DEFINE s == CleanUp(entries)
           H == Live(DOMAIN entries)
           i == Find(s, id)
<1>1. /\ Table(s, made) /\ From(s, entries, H) /\ H \subseteq DOMAIN entries /\ Live(H) = H
      /\ \A k \in DOMAIN s : s[k].expires > now
  <2>1. From(entries, entries, DOMAIN entries)
    BY DEF From
  <2>. QED
    BY <2>1, CleanFrom
<1>2. (i = 0 /\ id \notin Ids(s)) \/ (i \in DOMAIN s /\ i # 0 /\ s[i].id = id)
  BY <1>1, FindIs
<1>9. id = Foreign => i = 0 /\ Find(entries, id) = 0
  <2>1. Foreign \notin Ids(s) /\ Foreign \notin Ids(entries)
    BY <1>1 DEF Ids, Table, Foreign
  <2>. QED
    BY <2>1 DEF Find
<1>10. From(entries, entries, DOMAIN entries)
  BY DEF From
<1> DEFINE w == Without(entries, id)
<1>3. Table(w, made) /\ From(w, entries, Others(id)) /\ Others(id) \subseteq DOMAIN entries
  BY WithoutIs DEF Others
<1> HIDE DEF s, H, i, w
<1>4. CASE name = "start"
  <2>1. o \in Start(id) /\ Scope(name, id) = H
    BY <1>4 DEF Outcomes, Scope, H
  <2>2. CASE i = 0
    <3>1. o \in Make(s)
      BY <2>1, <2>2 DEF Start, s, i
    <3>2. Table(CleanUp(s), made) /\ From(CleanUp(s), entries, H)
      BY <1>1, CleanFrom
    <3>. QED
      BY <1>1, <2>1, <3>1, <3>2, MakeSound
  <2>3. CASE i # 0
    <3>1. o = Outcome(Touched(s, i), i, id) \/ o = Outcome(Touched(s, i), 0, Keep)
      BY <2>1, <2>3 DEF Start, s, i
    <3>2. i \in DOMAIN s /\ s[i].id = id
      BY <1>2, <2>3
    <3>3. Sound(Outcome(Touched(s, i), i, id), H) /\ Sound(Outcome(Touched(s, i), 0, Keep), H)
      BY <1>1, <3>2, UsedSound
    <3>. QED
      BY <1>1, <2>1, <3>1, <3>3
  <2>. QED
    BY <2>2, <2>3
<1>5. CASE name = "find"
  <2>1. o \in Look(id) /\ Scope(name, id) = IF id = Foreign THEN DOMAIN entries ELSE H
    BY <1>5 DEF Outcomes, Scope, H
  <2>2. \/ o = Outcome(s, i, Keep)
        \/ id = Foreign /\ o = Outcome(entries, 0, Keep)
    BY <1>9, <2>1 DEF Look, Searched, s, i
  <2>3. i = 0 \/ (i \in DOMAIN s /\ s[i].expires > now)
    BY <1>1, <1>2
  <2>4. Sound(Outcome(s, i, Keep), H)
    BY <1>1, <2>3, HeldSound
  <2>5. Sound(Outcome(s, i, Keep), DOMAIN entries)
    BY <2>4, SoundOfLive DEF H
  <2>6. Sound(Outcome(entries, 0, Keep), DOMAIN entries)
    BY <1>10, HeldSound
  <2>. QED
    BY <1>1, <2>1, <2>2, <2>4, <2>5, <2>6
<1>6. CASE name = "login"
  <2>1. o \in Make(w) /\ Scope(name, id) = Live(Others(id))
    BY <1>6 DEF Outcomes, Login, Replaced, Scope, w
  <2>2. /\ Table(CleanUp(w), made) /\ From(CleanUp(w), entries, Live(Others(id)))
        /\ Live(Others(id)) \subseteq DOMAIN entries
        /\ Live(Live(Others(id))) = Live(Others(id))
    BY <1>3, CleanFrom
  <2>. QED
    BY <2>1, <2>2, MakeSound
<1>7. CASE name = "current"
  <2>1. o \in Current(id) /\ Scope(name, id) = IF id = Foreign THEN DOMAIN entries ELSE H
    BY <1>7 DEF Outcomes, Scope, H
  <2>2. CASE i = 0
    <3>1. \E reply \in {Keep, NoId} : \/ o = Outcome(s, 0, reply)
                                      \/ id = Foreign /\ o = Outcome(entries, 0, reply)
      BY <2>1, <2>2 DEF Current, Searched, s, i
    <3>2. \A reply \in {Keep, NoId} : Sound(Outcome(s, 0, reply), H)
      BY <1>1, HeldSound
    <3>3. \A reply \in {Keep, NoId} : Sound(Outcome(s, 0, reply), DOMAIN entries)
      BY <3>2, SoundOfLive DEF H
    <3>4. \A reply \in {Keep, NoId} : Sound(Outcome(entries, 0, reply), DOMAIN entries)
      BY <1>10, HeldSound
    <3>. QED
      BY <1>1, <2>1, <3>1, <3>2, <3>3, <3>4
  <2>3. CASE i # 0
    <3>1. \/ o = Outcome(Touched(s, i), i, id)
          \/ o = Outcome(Touched(s, i), i, Keep)
          \/ o = Outcome(Touched(s, i), 0, Keep)
      BY <2>1, <2>3 DEF Current, s, i
    <3>2. i \in DOMAIN s /\ s[i].id = id
      BY <1>2, <2>3
    <3>3. /\ Sound(Outcome(Touched(s, i), i, id), H)
          /\ Sound(Outcome(Touched(s, i), i, Keep), H)
          /\ Sound(Outcome(Touched(s, i), 0, Keep), H)
      BY <1>1, <3>2, UsedSound
    <3>. QED
      BY <1>1, <1>9, <2>1, <2>3, <3>1, <3>3
  <2>. QED
    BY <2>2, <2>3
<1>8. CASE name = "end"
  <2>1. (o = Outcome(w, 0, NoId) \/ o = Outcome(w, 0, Keep)) /\ Scope(name, id) = Others(id)
    BY <1>8 DEF Outcomes, End, Scope, w
  <2>2. Sound(Outcome(w, 0, NoId), Others(id)) /\ Sound(Outcome(w, 0, Keep), Others(id))
    BY <1>3, HeldSound
  <2>. QED
    BY <1>3, <2>1, <2>2
<1>. QED
  BY <1>4, <1>5, <1>6, <1>7, <1>8

-----------------------------------------------------------------------------
(* The invariant.                                                           *)

\* The fields of the cookies and the requests.
LEMMA FieldsIs ==
  ASSUME Shape
  PROVE  /\ now \in Nat /\ made \in Nat
         /\ \A c \in Client : /\ cookie[c] \in Cookies(made, now)
                              /\ cookie[c].id \in 0 .. made /\ cookie[c].issued \in 0 .. now
         /\ \A k \in Link : /\ link[k] \in Requests(made, now)
                            /\ link[k].at \in {"idle", "sent", "handling", "answered"}
                            /\ link[k].sent \in Sent(made) /\ link[k].calls \in 0 .. MaxCalls
                            /\ link[k].entry \in Nat /\ link[k].given \in Nat
                            /\ link[k].reply \in Keep .. made /\ link[k].issued \in 0 .. now
<1>1. now \in Nat /\ made \in Nat
  BY DEF Shape
<1>2. \A c \in Client : cookie[c] \in Cookies(made, now)
  BY DEF Shape
<1>3. \A k \in Link : link[k] \in Requests(made, now)
  BY DEF Shape
<1>4. \A c \in Client : cookie[c].id \in 0 .. made /\ cookie[c].issued \in 0 .. now
  BY <1>2 DEF Cookies
<1>5. \A k \in Link : /\ link[k].at \in {"idle", "sent", "handling", "answered"}
                      /\ link[k].sent \in Sent(made) /\ link[k].calls \in 0 .. MaxCalls
                      /\ link[k].entry \in Nat /\ link[k].given \in Nat
                      /\ link[k].reply \in Keep .. made /\ link[k].issued \in 0 .. now
  BY <1>3 DEF Requests
<1>. QED
  BY <1>1, <1>2, <1>3, <1>4, <1>5

\* A call keeps its promise to every cookie and reply that was honoured: what it removes
\* had expired, or is counted as gone.
LEMMA CallHonours ==
  ASSUME now \in Nat, made \in Nat, Table(entries, made),
         NEW o, NEW H, H \subseteq DOMAIN entries, Sound(o, H),
         NEW id \in Int, id <= made, NEW issued \in Nat, NEW gone, NEW gone2,
         Honoured(id, issued, entries, gone, now),
         gone \subseteq gone2, Ids(CleanUp(entries)) \ Ids(o.entries) \subseteq gone2
  PROVE  Honoured(id, issued, o.entries, gone2, now)
<1>1. SUFFICES ASSUME id >= 1
               PROVE  /\ \A k \in DOMAIN o.entries :
                           o.entries[k].id = id => o.entries[k].expires >= issued + TTL
                      /\ id \in Ids(o.entries) \union gone2 \/ now >= issued + TTL
  BY DEF Honoured
<1>2. /\ \A i \in DOMAIN entries : entries[i].id = id => entries[i].expires >= issued + TTL
      /\ id \in Ids(entries) \union gone \/ now >= issued + TTL
  BY <1>1 DEF Honoured
<1>3. ASSUME NEW k \in DOMAIN o.entries, o.entries[k].id = id
      PROVE  o.entries[k].expires >= issued + TTL
  <2>1. id # NewId
    BY DEF NewId
  <2>2. PICK i \in H : /\ o.entries[k].id = entries[i].id
                       /\ o.entries[k].expires >= entries[i].expires
    BY <1>3, <2>1 DEF Sound
  <2>3. entries[i].expires >= issued + TTL /\ entries[i].expires \in Nat
    BY <1>2, <1>3, <2>2, EntryIs
  <2>4. o.entries[k].expires \in Nat
    BY <1>3, EntryIs DEF Sound
  <2>. QED
    BY <2>2, <2>3, <2>4
<1>4. ASSUME NEW i \in DOMAIN entries, entries[i].id = id
      PROVE  id \in Ids(o.entries) \union gone2 \/ now >= issued + TTL
  <2>1. entries[i].expires >= issued + TTL /\ entries[i].expires \in Nat
    BY <1>2, <1>4, EntryIs
  <2>2. CASE entries[i].expires > now
    <3>1. PICK k \in DOMAIN CleanUp(entries) : CleanUp(entries)[k] = entries[i]
      BY <2>2, CleanUpIs DEF From
    <3>2. id \in Ids(CleanUp(entries))
      BY <1>4, <3>1 DEF Ids
    <3>. QED
      BY <3>2
  <2>3. CASE ~ (entries[i].expires > now)
    BY <2>1, <2>3
  <2>. QED
    BY <2>2, <2>3
<1>. QED
  BY <1>2, <1>3, <1>4 DEF Ids

\* The cookie a call queues is honoured: its entry's deadline is ttl_seconds from now.
LEMMA ReplyHonoured ==
  ASSUME now \in Nat, made \in Nat, NEW o, NEW H, Sound(o, H), NEW gone
  PROVE  Honoured(o.reply, now, o.entries, gone, now)
<1>1. CASE o.reply \in {Keep, NoId}
  BY <1>1 DEF Honoured, Keep, NoId
<1>2. CASE \E k \in DOMAIN o.entries :
             o.entries[k].id = o.reply /\ o.entries[k].expires = now + TTL
  <2>1. PICK k \in DOMAIN o.entries :
          o.entries[k].id = o.reply /\ o.entries[k].expires = now + TTL
    BY <1>2
  <2>2. ASSUME NEW j \in DOMAIN o.entries, o.entries[j].id = o.reply PROVE j = k
    BY <2>1, <2>2 DEF Sound, Table
  <2>3. \A j \in DOMAIN o.entries :
          o.entries[j].id = o.reply => o.entries[j].expires >= now + TTL
    BY <2>1, <2>2
  <2>. QED
    BY <2>1, <2>3 DEF Honoured, Ids
<1>. QED
  BY <1>1, <1>2 DEF Sound

\* What the step of a call does, of a sound outcome o.
Effect(o, k, name) ==
  /\ Sound(o, Scope(name, link[k].sent)) /\ Scope(name, link[k].sent) \subseteq DOMAIN entries
  /\ entries' = o.entries /\ now' = now /\ kind' = kind /\ cookie' = cookie
  /\ made' = IF o.reply = NewId THEN NewId ELSE made
  /\ made' \in 0 .. MaxIds /\ made <= made'
  /\ ended' = IF name \in {"login", "end"} THEN ended \union ({link[k].sent} \ {NoId, Foreign}) ELSE ended
  /\ evicted' = evicted \union ((Ids(CleanUp(entries)) \ Ids(o.entries)) \ ended')
  /\ link[k].at = "handling"
  /\ link' \in [Link -> Requests(made', now)]
  /\ \A j \in Link : j # k => link'[j] = link[j]
  /\ link'[k].at = "handling" /\ link'[k].calls = link[k].calls + 1 /\ link'[k].entry = o.entry
  /\ link'[k].given = IF o.entry \in DOMAIN o.entries THEN o.entries[o.entry].id ELSE NoId
  /\ link'[k].reply = IF o.reply = Keep THEN link[k].reply ELSE o.reply
  /\ link'[k].issued = IF o.reply = Keep THEN link[k].issued ELSE now

\* A call is a step with such an effect.
LEMMA CallIs ==
  ASSUME IInv, NEW k \in Link, NEW name \in Calls, Call(k, name)
  PROVE  \E o : Effect(o, k, name)
<1> DEFINE id == link[k].sent
<1>1. /\ now \in Nat /\ made \in Nat /\ made <= MaxIds /\ Table(entries, made)
      /\ link \in [Link -> Requests(made, now)]
  BY FieldsIs DEF IInv, Shape
<1>2. /\ link[k].at \in {"idle", "sent", "handling", "answered"}
      /\ id \in Sent(made) /\ link[k].calls \in 0 .. MaxCalls
      /\ link[k].reply \in Keep .. made /\ link[k].issued \in 0 .. now
      /\ link[k] \in Requests(made, now)
  BY FieldsIs DEF IInv
<1>3. PICK o \in Outcomes(name, id) :
       /\ o.reply <= MaxIds
       /\ entries' = o.entries
       /\ made' = IF o.reply = NewId THEN NewId ELSE made
       /\ evicted' = evicted \union ((Ids(CleanUp(entries)) \ Ids(o.entries)) \ ended')
       /\ link' = [link EXCEPT ![k].calls = @ + 1, ![k].entry = o.entry,
                               ![k].given = IF o.entry \in DOMAIN o.entries
                                              THEN o.entries[o.entry].id ELSE NoId,
                               ![k].reply = IF o.reply = Keep THEN @ ELSE o.reply,
                               ![k].issued = IF o.reply = Keep THEN @ ELSE now]
  BY DEF Call
<1>4. name \in {"start", "find", "login", "current", "end"}
  BY DEF Calls
<1>5. Sound(o, Scope(name, id)) /\ Scope(name, id) \subseteq DOMAIN entries
  BY <1>1, <1>2, <1>4, CallSound
<1> HIDE DEF id
<1>6. /\ now' = now /\ kind' = kind /\ cookie' = cookie
      /\ link[k].at = "handling" /\ link[k].calls < MaxCalls
      /\ ended' = IF name \in {"login", "end"} THEN ended \union ({link[k].sent} \ {NoId, Foreign}) ELSE ended
  BY DEF Call
<1>7. Table(o.entries, made')
  BY <1>3, <1>5 DEF Sound
<1>8. /\ made' \in Nat /\ made <= made' /\ made' <= MaxIds
      /\ o.reply \in Keep .. made'
  <2>1. NewId = made + 1 /\ Keep = -1 /\ NoId = 0
    BY DEF NewId, Keep, NoId
  <2>2. made' \in Nat /\ made <= made'
    BY <1>1, <1>3, <2>1
  <2>3. made' <= MaxIds
    BY <1>1, <1>3, <2>1
  <2>4. o.reply \in Keep .. made'
    <3>1. CASE o.reply \in {Keep, NoId}
      BY <2>1, <2>2, <3>1
    <3>2. CASE \E i \in DOMAIN o.entries : o.entries[i].id = o.reply
      <4>1. o.reply \in 1 .. made'
        BY <1>7, <3>2 DEF Table
      <4>. QED
        BY <2>1, <2>2, <4>1
    <3>. QED
      BY <1>5, <3>1, <3>2 DEF Sound
  <2>. QED
    BY <2>2, <2>3, <2>4
<1> DEFINE x == link[k]
           c == link[k].calls + 1
           g == IF o.entry \in DOMAIN o.entries THEN o.entries[o.entry].id ELSE NoId
           r == IF o.reply = Keep THEN link[k].reply ELSE o.reply
           u == IF o.reply = Keep THEN link[k].issued ELSE now
           e == o.entry
           y == [x EXCEPT !.calls = c, !.entry = e, !.given = g, !.reply = r, !.issued = u]
<1>9. c \in 0 .. MaxCalls /\ u \in 0 .. now
  BY <1>1, <1>2, <1>6
<1>10. r \in Keep .. made'
  BY <1>1, <1>2, <1>8 DEF Keep
<1>11. e \in Nat /\ g \in Nat
  <2>1. DOMAIN o.entries \subseteq Nat /\ \A i \in DOMAIN o.entries : o.entries[i].id \in Nat
    BY <1>7, EntryIs
  <2>. QED
    BY <1>5, <2>1 DEF Sound, NoId
<1>12. x \in Requests(made', now)
  <2>1. Sent(made) \subseteq Sent(made') /\ Keep .. made \subseteq Keep .. made'
    BY <1>1, <1>8 DEF Keep, Sent
  <2>. QED
    BY <1>2, <2>1 DEF Requests
<1>13. link' = [link EXCEPT ![k] = y]
  BY <1>1, <1>3
<1>14. x.at = "handling"
  BY <1>6
<1> HIDE DEF x, c, g, r, u, e
<1>15. y \in Requests(made', now)
  BY <1>9, <1>10, <1>11, <1>12 DEF Requests
<1>16. /\ y.at = x.at /\ y.calls = c /\ y.entry = e /\ y.given = g /\ y.reply = r /\ y.issued = u
  BY <1>12 DEF Requests
<1> HIDE DEF y
<1>17. link'[k] = y /\ \A j \in Link : j # k => link'[j] = link[j]
  BY <1>1, <1>13
<1>18. link' \in [Link -> Requests(made', now)]
  <2>1. \A j \in Link : j # k => link[j] \in Requests(made', now)
    <3>1. Sent(made) \subseteq Sent(made') /\ Keep .. made \subseteq Keep .. made'
      BY <1>1, <1>8 DEF Keep, Sent
    <3>. QED
      BY <1>1, <3>1 DEF Requests
  <2>. QED
    BY <1>1, <1>13, <1>15, <1>17, <2>1
<1>19. made' \in 0 .. MaxIds
  BY <1>8
<1>20. Sound(o, Scope(name, link[k].sent)) /\ Scope(name, link[k].sent) \subseteq DOMAIN entries
  BY <1>5 DEF id
<1>21. /\ link'[k].at = "handling" /\ link'[k].calls = link[k].calls + 1 /\ link'[k].entry = o.entry
       /\ link'[k].given = IF o.entry \in DOMAIN o.entries THEN o.entries[o.entry].id ELSE NoId
       /\ link'[k].reply = IF o.reply = Keep THEN link[k].reply ELSE o.reply
       /\ link'[k].issued = IF o.reply = Keep THEN link[k].issued ELSE now
  BY <1>14, <1>16, <1>17 DEF x, c, g, r, u, e
<1>22. Effect(o, k, name)
  BY <1>3, <1>6, <1>8, <1>17, <1>18, <1>19, <1>20, <1>21 DEF Effect
<1>. QED
  BY <1>22

\* A call keeps the shape of the state.
LEMMA CallShape ==
  ASSUME IInv, NEW k \in Link, NEW name \in Calls, NEW o, Effect(o, k, name)
  PROVE  Shape'
<1>1. /\ now \in Nat /\ made \in Nat /\ Table(entries, made)
      /\ link[k].sent \in Sent(made)
  BY FieldsIs DEF IInv
<1>2. /\ kind \in {"session", "token"} /\ now \in 0 .. MaxTime
      /\ evicted \subseteq 1 .. made /\ ended \subseteq 1 .. made
      /\ cookie \in [Client -> Cookies(made, now)]
  BY DEF IInv, Shape
<1>3. /\ now' = now /\ kind' = kind /\ cookie' = cookie
      /\ made' \in 0 .. MaxIds /\ made <= made'
      /\ link' \in [Link -> Requests(made', now)]
      /\ ended' \subseteq ended \union ({link[k].sent} \ {NoId, Foreign})
      /\ evicted' \subseteq evicted \union Ids(CleanUp(entries))
  BY DEF Effect
<1>4. 1 .. made \subseteq 1 .. made' /\ 0 .. made \subseteq 0 .. made'
  BY <1>1, <1>3
<1>5. ended' \subseteq 1 .. made'
  BY <1>1, <1>2, <1>3, <1>4 DEF NoId, Sent
<1>6. Ids(CleanUp(entries)) \subseteq 1 .. made
  <2>1. Table(CleanUp(entries), made)
    BY <1>1, CleanUpIs
  <2>. QED
    BY <2>1 DEF Table, Ids
<1>7. evicted' \subseteq 1 .. made'
  BY <1>2, <1>3, <1>4, <1>6
<1>8. cookie \in [Client -> Cookies(made', now)]
  <2>1. \A c \in Client : cookie[c] \in Cookies(made', now)
    BY <1>2, <1>4 DEF Cookies
  <2>. QED
    BY <1>2, <2>1
<1>. QED
  BY <1>2, <1>3, <1>5, <1>7, <1>8 DEF Shape

\* A call returns no name that ended, and none that it ends.
LEMMA CallEnds ==
  ASSUME IInv, NEW k \in Link, NEW name \in Calls, NEW o, Effect(o, k, name)
  PROVE  EndedForGood'
<1> DEFINE id == link[k].sent
<1>1. /\ made \in Nat /\ id \in Sent(made) /\ ended \subseteq 1 .. made
      /\ ended \intersect Ids(entries) = {}
  BY FieldsIs DEF IInv, Shape, EndedForGood
<1>2. SUFFICES ASSUME NEW i \in DOMAIN o.entries, o.entries[i].id \in ended' PROVE FALSE
  BY DEF EndedForGood, Ids, Effect
<1>3. /\ Sound(o, Scope(name, id)) /\ Scope(name, id) \subseteq DOMAIN entries
      /\ ended' = IF name \in {"login", "end"} THEN ended \union ({id} \ {NoId, Foreign}) ELSE ended
  BY DEF Effect
<1>4. o.entries[i].id \in 0 .. made
  <2>1. o.entries[i].id \in ended \/ (o.entries[i].id = id /\ id # Foreign)
    BY <1>2, <1>3
  <2>2. \A n \in 1 .. made : n \in 0 .. made
    BY <1>1
  <2>. QED
    BY <1>1, <2>1, <2>2 DEF Sent
<1>5. o.entries[i].id # NewId
  BY <1>1, <1>4 DEF NewId
<1>6. PICK j \in Scope(name, id) : o.entries[i].id = entries[j].id
  BY <1>3, <1>5 DEF Sound
<1>7. entries[j].id \in Ids(entries)
  BY <1>3 DEF Ids
<1>8. name \in {"login", "end"} => entries[j].id # id
  BY DEF Scope, Live, Others
<1>. QED
  BY <1>1, <1>2, <1>3, <1>6, <1>7, <1>8

\* A call keeps the promise of every cookie and reply, and makes a good one.
LEMMA CallDeadlines ==
  ASSUME IInv, NEW k \in Link, NEW name \in Calls, NEW o, Effect(o, k, name)
  PROVE  Deadlines'
<1> DEFINE H == Scope(name, link[k].sent)
           gone == evicted \union ended
           gone2 == evicted' \union ended'
<1>1. /\ now \in Nat /\ made \in Nat /\ Table(entries, made)
      /\ \A c \in Client : cookie[c].id \in 0 .. made /\ cookie[c].issued \in 0 .. now
      /\ \A j \in Link : link[j].reply \in Keep .. made /\ link[j].issued \in 0 .. now
  BY FieldsIs DEF IInv
<1>2. /\ \A c \in Client : Honoured(cookie[c].id, cookie[c].issued, entries, gone, now)
      /\ \A j \in Link : Honoured(link[j].reply, link[j].issued, entries, gone, now)
  BY DEF IInv, Deadlines
<1>3. /\ Sound(o, H) /\ H \subseteq DOMAIN entries
      /\ entries' = o.entries /\ now' = now /\ cookie' = cookie
      /\ evicted' = evicted \union ((Ids(CleanUp(entries)) \ Ids(o.entries)) \ ended')
      /\ \A j \in Link : j # k => link'[j] = link[j]
      /\ link'[k].reply = IF o.reply = Keep THEN link[k].reply ELSE o.reply
      /\ link'[k].issued = IF o.reply = Keep THEN link[k].issued ELSE now
  BY DEF Effect
<1>4. ended \subseteq ended'
  BY DEF Effect
<1>5. gone \subseteq gone2 /\ Ids(CleanUp(entries)) \ Ids(o.entries) \subseteq gone2
  BY <1>3, <1>4
<1> HIDE DEF H, gone, gone2
<1>6. ASSUME NEW c \in Client
      PROVE  Honoured(cookie[c].id, cookie[c].issued, o.entries, gone2, now)
  <2>1. /\ cookie[c].id \in Int /\ cookie[c].id <= made /\ cookie[c].issued \in Nat
        /\ Honoured(cookie[c].id, cookie[c].issued, entries, gone, now)
    BY <1>1, <1>2
  <2>. QED
    BY <1>1, <1>3, <1>5, <2>1, CallHonours
<1>7. ASSUME NEW j \in Link
      PROVE  Honoured(link[j].reply, link[j].issued, o.entries, gone2, now)
  <2>1. /\ link[j].reply \in Int /\ link[j].reply <= made /\ link[j].issued \in Nat
        /\ Honoured(link[j].reply, link[j].issued, entries, gone, now)
    BY <1>1, <1>2 DEF Keep
  <2>. QED
    BY <1>1, <1>3, <1>5, <2>1, CallHonours
<1>8. Honoured(o.reply, now, o.entries, gone2, now)
  BY <1>1, <1>3, ReplyHonoured
<1>9. ASSUME NEW j \in Link
      PROVE  Honoured(link'[j].reply, link'[j].issued, o.entries, gone2, now)
  <2>1. CASE j # k
    BY <1>3, <1>7, <2>1
  <2>2. CASE j = k /\ o.reply = Keep
    BY <1>3, <1>7, <2>2
  <2>3. CASE j = k /\ o.reply # Keep
    BY <1>3, <1>8, <2>3
  <2>. QED
    BY <2>1, <2>2, <2>3
<1>. QED
  BY <1>3, <1>6, <1>9 DEF Deadlines, gone2

\* A call keeps the invariant.
LEMMA CallInv ==
  ASSUME IInv, NEW k \in Link, NEW name \in Calls, Call(k, name)
  PROVE  IInv'
<1>1. PICK o : Effect(o, k, name)
  BY CallIs
<1>2. Shape' /\ EndedForGood' /\ Deadlines'
  BY <1>1, CallShape, CallEnds, CallDeadlines
<1>3. Table(entries, made)'
  BY <1>1 DEF Effect, Sound, Table
<1>4. Served'
  <2>1. /\ \A j \in Link : link[j].at # "handling" => link[j].entry = 0
        /\ \A j \in Link : link[j].at = "answered" => link[j].reply # Keep
        /\ IsFiniteSet(Handling) /\ Cardinality(Handling) <= Workers
    BY DEF IInv, Served
  <2>2. \A j \in Link : /\ link'[j].at = link[j].at
                        /\ link[j].at # "handling" => link'[j] = link[j]
    BY <1>1 DEF Effect
  <2>3. Handling' = Handling
    BY <2>2 DEF Handling
  <2>. QED
    BY <2>1, <2>2, <2>3 DEF Served
<1>. QED
  BY <1>2, <1>3, <1>4 DEF IInv

\* The first state satisfies the invariant.
LEMMA InitInv ==
  ASSUME Init
  PROVE  IInv
<1>1. Shape
  <2>1. /\ NoCookie.id = 0 /\ NoCookie.issued = 0 /\ NoCookie \in Cookies(0, 0)
        /\ Idle \in Requests(0, 0)
    BY DEF NoCookie, Idle, Cookies, Requests, Sent, NoId, Keep
  <2>2. 0 \in 0 .. MaxTime /\ 0 \in 0 .. MaxIds
    OBVIOUS
  <2>. QED
    BY <2>1, <2>2 DEF Init, Shape
<1>2. Table(entries, made)
  BY EmptySeq DEF Init, Table
<1>3. Served
  <2>1. Handling = {} /\ \A k \in Link : link[k].entry = 0 /\ link[k].at = "idle"
    BY DEF Init, Idle, Handling
  <2>2. IsFiniteSet({}) /\ Cardinality({}) = 0
    BY FS_EmptySet
  <2>. QED
    BY <2>1, <2>2 DEF Served
<1>4. EndedForGood
  BY DEF Init, EndedForGood
<1>5. Deadlines
  BY DEF Init, Deadlines, Honoured, NoCookie, Idle, NoId, Keep
<1>. QED
  BY <1>1, <1>2, <1>3, <1>4, <1>5 DEF IInv

\* A step that leaves the table alone keeps what was promised, though time may pass,
\* to the cookies and replies that stay, move or are forgotten.
LEMMA PromisesKept ==
  ASSUME IInv, now' \in Nat, now <= now',
         UNCHANGED <<entries, made, evicted, ended>>,
         \A c \in Client :
           /\ cookie'[c].issued \in Nat
           /\ Honoured(cookie'[c].id, cookie'[c].issued, entries, evicted \union ended, now),
         \A k \in Link : \/ link'[k].reply = Keep
                         \/ link'[k].reply = link[k].reply /\ link'[k].issued = link[k].issued
  PROVE  Table(entries, made)' /\ EndedForGood' /\ Deadlines'
<1> DEFINE gone == evicted \union ended
<1>1. /\ now \in Nat /\ made \in Nat /\ Table(entries, made) /\ EndedForGood
      /\ \A k \in Link : link[k].issued \in 0 .. now
  BY FieldsIs DEF IInv
<1>2. \A k \in Link : Honoured(link[k].reply, link[k].issued, entries, gone, now)
  BY DEF IInv, Deadlines
<1>3. Table(entries, made)'
  <2>1. \A i \in DOMAIN entries : entries[i].touched \in Nat /\ entries[i].expires \in Nat
    BY <1>1, EntryIs
  <2>2. ASSUME NEW i \in DOMAIN entries
        PROVE  entries[i].touched <= now' /\ entries[i].expires <= now' + TTL
    <3>1. entries[i].touched <= now /\ entries[i].expires <= now + TTL
      BY <1>1 DEF Table
    <3>. QED
      BY <1>1, <2>1, <3>1
  <2>. QED
    BY <1>1, <2>2 DEF Table
<1>4. EndedForGood'
  BY <1>1 DEF EndedForGood
<1>5. ASSUME NEW id, NEW issued \in Nat, Honoured(id, issued, entries, gone, now)
      PROVE  Honoured(id, issued, entries, gone, now')
  <2>1. now >= issued + TTL => now' >= issued + TTL
    BY <1>1
  <2>. QED
    BY <1>5, <2>1 DEF Honoured
<1>6. \A c \in Client : Honoured(cookie'[c].id, cookie'[c].issued, entries, gone, now')
  BY <1>5
<1>7. ASSUME NEW k \in Link
      PROVE  Honoured(link'[k].reply, link'[k].issued, entries, gone, now')
  <2>1. CASE link'[k].reply = Keep
    BY <2>1 DEF Honoured, Keep
  <2>2. CASE link'[k].reply = link[k].reply /\ link'[k].issued = link[k].issued
    <3>1. link[k].issued \in Nat
      BY <1>1
    <3>. QED
      BY <1>2, <1>5, <2>2, <3>1
  <2>. QED
    BY <2>1, <2>2
<1>. QED
  BY <1>3, <1>4, <1>6, <1>7 DEF Deadlines

\* A step of one connection that leaves the table alone, and whose request keeps its
\* reply or forgets it, keeps the invariant.
LEMMA LinkStep ==
  ASSUME IInv, NEW k \in Link, NEW r \in Requests(made, now), link' = [link EXCEPT ![k] = r],
         UNCHANGED <<kind, now, entries, made, evicted, ended>>,
         r.at # "handling" => r.entry = 0,
         r.at = "handling" => Cardinality(Handling) < Workers,
         r.at = "answered" => r.reply # Keep,
         r.reply = Keep \/ (r.reply = link[k].reply /\ r.issued = link[k].issued),
         cookie' \in [Client -> Cookies(made, now)],
         \A c \in Client :
           Honoured(cookie'[c].id, cookie'[c].issued, entries, evicted \union ended, now)
  PROVE  IInv'
<1>1. /\ now \in Nat /\ link \in [Link -> Requests(made, now)]
      /\ kind \in {"session", "token"} /\ now \in 0 .. MaxTime /\ made \in 0 .. MaxIds
      /\ evicted \subseteq 1 .. made /\ ended \subseteq 1 .. made
  BY DEF IInv, Shape
<1>2. Shape'
  <2>1. link' \in [Link -> Requests(made, now)]
    BY <1>1
  <2>. QED
    BY <1>1, <2>1 DEF Shape
<1>3. link'[k] = r /\ \A j \in Link : j # k => link'[j] = link[j]
  BY <1>1
<1>4. \A c \in Client : cookie'[c].issued \in Nat
  BY DEF Cookies
<1>5. \A j \in Link : \/ link'[j].reply = Keep
                      \/ link'[j].reply = link[j].reply /\ link'[j].issued = link[j].issued
  BY <1>3
<1>6. now' \in Nat /\ now <= now'
  BY <1>1
<1>7. Table(entries, made)' /\ EndedForGood' /\ Deadlines'
  BY <1>4, <1>5, <1>6, PromisesKept
<1>8. /\ \A j \in Link : link[j].at # "handling" => link[j].entry = 0
      /\ \A j \in Link : link[j].at = "answered" => link[j].reply # Keep
      /\ IsFiniteSet(Handling) /\ Cardinality(Handling) <= Workers
  BY DEF IInv, Served
<1>9. \A j \in Link : /\ link'[j].at # "handling" => link'[j].entry = 0
                      /\ link'[j].at = "answered" => link'[j].reply # Keep
  BY <1>3, <1>8
<1>10. IsFiniteSet(Handling') /\ Cardinality(Handling') <= Workers
  <2>1. Workers \in Nat /\ Cardinality(Handling) \in Nat
    BY <1>8, FS_CardinalityType
  <2>2. CASE r.at # "handling"
    <3>1. Handling' \subseteq Handling
      BY <1>3, <2>2 DEF Handling
    <3>2. IsFiniteSet(Handling') /\ Cardinality(Handling') <= Cardinality(Handling)
      BY <1>8, <3>1, FS_Subset
    <3>. QED
      BY <1>8, <2>1, <3>2, FS_CardinalityType
  <2>3. CASE r.at = "handling"
    <3>1. Handling' \subseteq Handling \union {k}
      BY <1>3 DEF Handling
    <3>2. /\ IsFiniteSet(Handling \union {k})
          /\ \/ Cardinality(Handling \union {k}) = Cardinality(Handling)
             \/ Cardinality(Handling \union {k}) = Cardinality(Handling) + 1
      BY <1>8, FS_AddElement
    <3>3. Cardinality(Handling \union {k}) <= Workers
      BY <2>1, <2>3, <3>2
    <3>4. /\ IsFiniteSet(Handling')
          /\ Cardinality(Handling') <= Cardinality(Handling \union {k})
      BY <3>1, <3>2, FS_Subset
    <3>. QED
      BY <2>1, <3>2, <3>3, <3>4, FS_CardinalityType
  <2>. QED
    BY <2>2, <2>3
<1>11. Served'
  BY <1>9, <1>10 DEF Served
<1>. QED
  BY <1>2, <1>7, <1>11 DEF IInv

\* Sending, serving, answering and losing a request keep the invariant; so does its
\* response when it arrives, whose cookie was honoured already.
LEMMA RequestInv ==
  ASSUME IInv, NEW k \in Link, Send(k) \/ Begin(k) \/ Respond(k) \/ Deliver(k) \/ Lose(k)
  PROVE  IInv'
<1> DEFINE gone == evicted \union ended
<1>1. /\ now \in Nat /\ made \in Nat /\ link \in [Link -> Requests(made, now)]
      /\ link[k] \in Requests(made, now)
      /\ cookie \in [Client -> Cookies(made, now)]
  BY FieldsIs DEF IInv, Shape
<1>2. /\ link[k].reply \in Keep .. made /\ link[k].issued \in 0 .. now
      /\ Owner[k] \in Client /\ cookie[Owner[k]].id \in 0 .. made
  BY FieldsIs DEF IInv
<1>3. /\ \A c \in Client : Honoured(cookie[c].id, cookie[c].issued, entries, gone, now)
      /\ Honoured(link[k].reply, link[k].issued, entries, gone, now)
      /\ link[k].at # "handling" => link[k].entry = 0
      /\ link[k].at = "answered" => link[k].reply # Keep
  BY DEF IInv, Deadlines, Served
<1>4. Idle \in Requests(made, now) /\ Idle.at = "idle" /\ Idle.entry = 0 /\ Idle.reply = Keep
  BY <1>1 DEF Idle, Requests, Sent, NoId, Keep
<1> DEFINE x == link[k]
<1>5. CASE Send(k)
  <2>0. PICK n \in {Foreign, IF now < cookie[Owner[k]].until THEN cookie[Owner[k]].id ELSE NoId} :
          link' = [link EXCEPT ![k].at = "sent", ![k].sent = n]
    BY <1>5 DEF Send
  <2> DEFINE r == [x EXCEPT !.at = "sent", !.sent = n]
  <2>1. n \in Sent(made)
    BY <1>1, <1>2 DEF NoId, Sent
  <2>2. link' = [link EXCEPT ![k] = r]
    BY <1>1, <2>0
  <2>3. x.at = "idle" /\ UNCHANGED <<kind, now, entries, made, evicted, ended, cookie>>
    BY <1>5 DEF Send
  <2> HIDE DEF x
  <2>4. x \in Requests(made, now)
    BY <1>1 DEF x
  <2>5. r \in Requests(made, now)
    BY <2>1, <2>4 DEF Requests
  <2>6. r.at = "sent" /\ r.entry = x.entry /\ r.reply = x.reply /\ r.issued = x.issued
    BY <2>4 DEF Requests
  <2> HIDE DEF r
  <2>. QED
    BY <1>1, <1>3, <2>2, <2>3, <2>5, <2>6, LinkStep DEF x
<1>6. CASE Begin(k)
  <2> DEFINE r == [x EXCEPT !.at = "handling"]
  <2>1. link' = [link EXCEPT ![k] = r]
    BY <1>1, <1>6 DEF Begin
  <2>2. /\ Cardinality(Handling) < Workers
        /\ UNCHANGED <<kind, now, entries, made, evicted, ended, cookie>>
    BY <1>6 DEF Begin
  <2> HIDE DEF x
  <2>3. x \in Requests(made, now)
    BY <1>1 DEF x
  <2>4. r \in Requests(made, now)
    BY <2>3 DEF Requests
  <2>5. r.at = "handling" /\ r.reply = x.reply /\ r.issued = x.issued
    BY <2>3 DEF Requests
  <2> HIDE DEF r
  <2>. QED
    BY <1>1, <1>3, <2>1, <2>2, <2>4, <2>5, LinkStep DEF x
<1>7. CASE Respond(k)
  <2> DEFINE q == [x EXCEPT !.at = "answered", !.sent = NoId, !.calls = 0, !.entry = 0,
                            !.given = NoId]
             r == IF x.reply = Keep THEN Idle ELSE q
  <2>1. link' = [link EXCEPT ![k] = r]
    BY <1>1, <1>7 DEF Respond
  <2>2. UNCHANGED <<kind, now, entries, made, evicted, ended, cookie>>
    BY <1>7 DEF Respond
  <2> HIDE DEF x
  <2>3. x \in Requests(made, now)
    BY <1>1 DEF x
  <2>4. q \in Requests(made, now)
    <3>1. NoId \in Sent(made) /\ 0 \in 0 .. MaxCalls /\ NoId \in Nat
      BY <1>1 DEF NoId, Sent
    <3>. QED
      BY <2>3, <3>1 DEF Requests
  <2>5. q.at = "answered" /\ q.entry = 0 /\ q.reply = x.reply /\ q.issued = x.issued
    BY <2>3 DEF Requests
  <2> HIDE DEF q
  <2>6. /\ r \in Requests(made, now) /\ r.at # "handling" /\ r.entry = 0
        /\ r.reply = Keep \/ (r.reply = x.reply /\ r.issued = x.issued)
        /\ r.at = "answered" => r.reply # Keep
    BY <1>4, <2>4, <2>5
  <2> HIDE DEF r
  <2>. QED
    BY <1>1, <1>3, <2>1, <2>2, <2>6, LinkStep DEF x
<1>8. CASE Deliver(k)
  <2> DEFINE jar == [id |-> link[k].reply, issued |-> link[k].issued, until |-> now + TTL]
             r == IF link[k].reply = NoId THEN NoCookie ELSE jar
  <2>1. link' = [link EXCEPT ![k] = Idle]
    BY <1>8 DEF Deliver
  <2>2. cookie' = [cookie EXCEPT ![Owner[k]] = r]
    BY <1>8 DEF Deliver
  <2>3. UNCHANGED <<kind, now, entries, made, evicted, ended>>
    BY <1>8 DEF Deliver
  <2>4. link[k].reply # Keep
    BY <1>3, <1>8 DEF Deliver
  <2>5. jar.id = link[k].reply /\ jar.issued = link[k].issued /\ jar \in Cookies(made, now)
    <3>1. link[k].reply \in 0 .. made
      BY <1>1, <1>2, <2>4 DEF Keep
    <3>2. now + TTL \in Nat
      BY <1>1
    <3>. QED
      BY <1>2, <3>1, <3>2 DEF Cookies
  <2>6. NoCookie.id = 0 /\ NoCookie \in Cookies(made, now)
    BY <1>1 DEF NoCookie, Cookies, NoId
  <2> HIDE DEF jar
  <2>7. r \in Cookies(made, now) /\ Honoured(r.id, r.issued, entries, gone, now)
    <3>1. Honoured(0, NoCookie.issued, entries, gone, now)
      BY DEF Honoured
    <3>. QED
      BY <1>3, <2>5, <2>6, <3>1
  <2> HIDE DEF r, gone
  <2>8. cookie' \in [Client -> Cookies(made, now)]
    BY <1>1, <2>2, <2>7
  <2>9. ASSUME NEW c \in Client
        PROVE  Honoured(cookie'[c].id, cookie'[c].issued, entries, gone, now)
    <3>1. cookie'[c] = r \/ cookie'[c] = cookie[c]
      BY <1>1, <2>2
    <3>. QED
      BY <1>3, <2>7, <3>1
  <2>. QED
    BY <1>4, <2>1, <2>3, <2>8, <2>9, LinkStep DEF gone
<1>9. CASE Lose(k)
  <2>1. link' = [link EXCEPT ![k] = Idle]
    BY <1>9 DEF Lose
  <2>2. UNCHANGED <<kind, now, entries, made, evicted, ended, cookie>>
    BY <1>9 DEF Lose
  <2>. QED
    BY <1>1, <1>3, <1>4, <2>1, <2>2, LinkStep
<1>. QED
  BY <1>5, <1>6, <1>7, <1>8, <1>9

\* Time passing keeps the invariant.
LEMMA TickInv ==
  ASSUME IInv, Tick
  PROVE  IInv'
<1>1. /\ now \in Nat /\ made \in Nat /\ link \in [Link -> Requests(made, now)]
      /\ cookie \in [Client -> Cookies(made, now)]
      /\ kind \in {"session", "token"} /\ now \in 0 .. MaxTime /\ made \in 0 .. MaxIds
      /\ evicted \subseteq 1 .. made /\ ended \subseteq 1 .. made
  BY DEF IInv, Shape
<1>2. /\ now < MaxTime /\ now' = now + 1
      /\ UNCHANGED <<kind, entries, made, evicted, ended, cookie, link>>
  BY DEF Tick
<1>3. now' \in 0 .. MaxTime /\ now' \in Nat /\ now <= now' /\ 0 .. now \subseteq 0 .. now'
  BY <1>1, <1>2
<1>4. Cookies(made, now) \subseteq Cookies(made, now')
  BY <1>3 DEF Cookies
<1>5. Requests(made, now) \subseteq Requests(made, now')
  BY <1>3 DEF Requests
<1>6. cookie \in [Client -> Cookies(made, now')] /\ link \in [Link -> Requests(made, now')]
  BY <1>1, <1>4, <1>5
<1>7. Shape'
  BY <1>1, <1>2, <1>3, <1>6 DEF Shape
<1>8. \A c \in Client :
        /\ cookie[c].issued \in Nat
        /\ Honoured(cookie[c].id, cookie[c].issued, entries, evicted \union ended, now)
  <2>1. \A c \in Client : cookie[c].issued \in 0 .. now
    BY FieldsIs DEF IInv
  <2>2. \A c \in Client :
          Honoured(cookie[c].id, cookie[c].issued, entries, evicted \union ended, now)
    BY DEF IInv, Deadlines
  <2>3. \A c \in Client : cookie[c].issued \in Nat
    BY <1>1, <2>1
  <2>. QED
    BY <2>2, <2>3
<1>9. Table(entries, made)' /\ EndedForGood' /\ Deadlines'
  BY <1>2, <1>3, <1>8, PromisesKept
<1>10. Served'
  BY <1>2 DEF IInv, Served, Handling
<1>. QED
  BY <1>7, <1>9, <1>10 DEF IInv

\* Every step keeps the invariant.
LEMMA Inductive ==
  ASSUME IInv, [Next]_vars
  PROVE  IInv'
<1>1. CASE UNCHANGED vars
  BY <1>1 DEF vars, IInv, Shape, Table, Served, Handling, EndedForGood, Deadlines
<1>2. ASSUME NEW k \in Link, Send(k) \/ Begin(k) \/ Respond(k) \/ Deliver(k) \/ Lose(k)
      PROVE  IInv'
  BY <1>2, RequestInv
<1>3. ASSUME NEW k \in Link, NEW name \in Calls, Call(k, name)
      PROVE  IInv'
  BY <1>3, CallInv
<1>4. CASE Tick
  BY <1>4, TickInv
<1>. QED
  BY <1>1, <1>2, <1>3, <1>4 DEF Next

\* In every state the table is one, its pointers and limits are kept, nothing that
\* ended is in it, and every cookie and reply is honoured.
THEOREM Invariant == Spec => []IInv
<1>1. Init => IInv
  BY InitInv
<1>2. IInv /\ [Next]_vars => IInv'
  BY Inductive
<1>. QED
  BY <1>1, <1>2, PTL DEF Spec

\* The table never holds more than its limit, no entry's times are later than the
\* clock allows, and every name used is one that was made.
THEOREM TypeCorrect == Spec => []TypeOK
<1>1. ASSUME IInv PROVE TypeOK
  <2>1. /\ kind \in {"session", "token"} /\ now \in 0 .. MaxTime /\ made \in 0 .. MaxIds
        /\ evicted \union ended \subseteq 1 .. made /\ now \in Nat
    BY <1>1 DEF IInv, Shape
  <2>2. ASSUME NEW i \in DOMAIN entries
        PROVE  /\ entries[i].id \in 1 .. made
               /\ entries[i].touched \in 0 .. now
               /\ entries[i].expires \in 0 .. now + TTL
    <3>1. /\ entries[i].id \in 1 .. made
          /\ entries[i].touched <= now /\ entries[i].expires <= now + TTL
      BY <1>1 DEF IInv, Table
    <3>2. entries[i].touched \in Nat /\ entries[i].expires \in Nat
      BY <1>1, EntryIs DEF IInv
    <3>. QED
      BY <2>1, <3>1, <3>2
  <2>3. Len(entries) <= MaxEntries
    BY <1>1 DEF IInv, Table
  <2>4. /\ \A c \in Client : cookie[c].id \in 0 .. made
        /\ \A k \in Link : /\ link[k].at \in {"idle", "sent", "handling", "answered"}
                           /\ link[k].sent \in Sent(made) /\ link[k].calls \in 0 .. MaxCalls
                           /\ link[k].reply \in Keep .. made
    BY <1>1, FieldsIs DEF IInv
  <2>. QED
    BY <2>1, <2>2, <2>3, <2>4 DEF TypeOK, Sent
<1>. QED
  BY <1>1, Invariant, PTL

\* A session ended, and a token logged out or replaced, never comes back.
THEOREM EndedStaysEnded == Spec => []EndedForGood
<1>1. IInv => EndedForGood
  BY DEF IInv
<1>. QED
  BY <1>1, Invariant, PTL

\* A cookie is good until ttl_seconds after it was issued: its entry is in the table
\* unless it was evicted, ended or replaced.
THEOREM CookiesHonoured == Spec => []CookieHonoured
<1>1. ASSUME IInv PROVE CookieHonoured
  <2>1. SUFFICES ASSUME NEW c \in Client, cookie[c].id # NoId, now < cookie[c].issued + TTL
                 PROVE  cookie[c].id \in Ids(entries) \union evicted \union ended
    BY DEF CookieHonoured
  <2>2. cookie[c].id \in 0 .. made /\ cookie[c].issued \in 0 .. now /\ now \in Nat
    BY <1>1, FieldsIs DEF IInv
  <2>3. cookie[c].id >= 1 /\ ~ (now >= cookie[c].issued + TTL)
    BY <2>1, <2>2 DEF NoId
  <2>4. Honoured(cookie[c].id, cookie[c].issued, entries, evicted \union ended, now)
    BY <1>1 DEF IInv, Deadlines
  <2>. QED
    BY <2>3, <2>4 DEF Honoured
<1>. QED
  BY <1>1, Invariant, PTL

-----------------------------------------------------------------------------
(* The steps.                                                               *)

\* A step of one connection other than a call leaves the table and the other
\* connections alone, makes no call, and gives no handler a pointer.
LEMMA RequestIs ==
  ASSUME IInv, NEW k \in Link, Send(k) \/ Begin(k) \/ Respond(k) \/ Deliver(k) \/ Lose(k)
  PROVE  /\ UNCHANGED <<now, entries, made, evicted, ended>>
         /\ \A j \in Link : j # k => link'[j] = link[j]
         /\ link'[k].calls \in {0, link[k].calls}
         /\ link'[k].at = "handling" => link'[k].entry = 0
<1>1. /\ link \in [Link -> Requests(made, now)] /\ link[k] \in Requests(made, now)
      /\ link[k].calls \in Nat
      /\ link[k].at # "handling" => link[k].entry = 0
  BY FieldsIs DEF IInv, Shape, Served
<1>2. DOMAIN link[k] = DOMAIN Idle
  BY <1>1 DEF Requests, Idle
<1>3. CASE Send(k)
  BY <1>1, <1>3 DEF Send, Requests
<1>4. CASE Begin(k)
  BY <1>1, <1>4 DEF Begin, Requests
<1>5. CASE Respond(k)
  BY <1>1, <1>5 DEF Respond, Requests, Idle
<1>6. CASE Deliver(k)
  BY <1>1, <1>6 DEF Deliver, Idle
<1>7. CASE Lose(k)
  BY <1>1, <1>7 DEF Lose, Idle
<1>. QED
  BY <1>3, <1>4, <1>5, <1>6, <1>7

\* No call returns an entry past its deadline.
THEOREM GivenOnlyInTime == Spec => GivenInTime
<1> DEFINE Good == \A k \in Link : link'[k].calls > link[k].calls /\ link'[k].entry # 0 =>
                     entries'[link'[k].entry].expires > now
<1>1. ASSUME IInv, [Next]_vars PROVE Good \/ UNCHANGED vars
  <2>0. \A k \in Link : link[k].calls \in Nat
    BY <1>1, FieldsIs DEF IInv
  <2>1. ASSUME NEW k \in Link, Send(k) \/ Begin(k) \/ Respond(k) \/ Deliver(k) \/ Lose(k)
        PROVE  Good
    <3>1. /\ \A j \in Link : j # k => link'[j] = link[j]
          /\ link'[k].calls \in {0, link[k].calls}
      BY <1>1, <2>1, RequestIs
    <3>2. \A j \in Link : ~ (link'[j].calls > link[j].calls)
      BY <2>0, <3>1
    <3>. QED
      BY <3>2
  <2>2. ASSUME NEW k \in Link, NEW name \in Calls, Call(k, name)
        PROVE  Good
    <3>1. PICK o : Effect(o, k, name)
      BY <1>1, <2>2, CallIs
    <3>2. /\ entries' = o.entries /\ link'[k].entry = o.entry
          /\ o.entry # 0 => o.entries[o.entry].expires > now
          /\ \A j \in Link : j # k => link'[j] = link[j]
      BY <3>1 DEF Effect, Sound
    <3>3. \A j \in Link : j # k => ~ (link'[j].calls > link[j].calls)
      BY <2>0, <3>2
    <3>. QED
      BY <3>2, <3>3
  <2>3. CASE Tick
    BY <2>0, <2>3 DEF Tick
  <2>. QED
    BY <1>1, <2>1, <2>2, <2>3 DEF Next
<1>2. IInv /\ [Next]_vars => [Good]_vars
  BY <1>1
<1>. QED
  BY <1>2, Invariant, PTL DEF Spec, GivenInTime

\* The entries that are live and were not ended, by this call or before, are the live
\* ones of those the call works on.
LEMMA ScopeIs ==
  ASSUME IInv, NEW k \in Link, NEW name \in Calls, NEW o, Effect(o, k, name)
  PROVE  {i \in DOMAIN entries : entries[i].expires > now /\ entries[i].id \notin ended'}
           = Live(Scope(name, link[k].sent))
<1> DEFINE id == link[k].sent
<1>1. ended' = IF name \in {"login", "end"} THEN ended \union ({id} \ {NoId, Foreign}) ELSE ended
  BY DEF Effect
<1>2. \A i \in DOMAIN entries : /\ entries[i].id \notin ended
                                /\ entries[i].id # NoId /\ entries[i].id # Foreign
  BY DEF IInv, EndedForGood, Ids, Table, NoId, Foreign
<1>3. CASE name \in {"login", "end"}
  <2>1. \A i \in DOMAIN entries : entries[i].id \notin ended' <=> entries[i].id # id
    BY <1>1, <1>2, <1>3
  <2>2. Live(Scope(name, id)) = {i \in DOMAIN entries : entries[i].expires > now /\ entries[i].id # id}
    BY <1>3 DEF Live, Scope, Others
  <2>. QED
    BY <2>1, <2>2
<1>4. CASE name \notin {"login", "end"}
  <2>1. \A i \in DOMAIN entries : entries[i].id \notin ended'
    BY <1>1, <1>2, <1>4
  <2>2. Live(Scope(name, id)) = {i \in DOMAIN entries : entries[i].expires > now}
    BY <1>4 DEF Live, Scope
  <2>. QED
    BY <2>1, <2>2
<1>. QED
  BY <1>3, <1>4

\* An entry that has not expired and was not ended leaves the table only when all of
\* the table is such entries and none of them was touched earlier.
THEOREM OldestEvicted == Spec => EvictsOldest
<1> DEFINE held == {i \in DOMAIN entries : entries[i].expires > now /\ entries[i].id \notin ended'}
           Good == \A i \in held :
                     \/ entries[i].id \in Ids(entries')
                     \/ /\ Cardinality(held) = MaxEntries
                        /\ \A j \in held : entries[i].touched <= entries[j].touched
<1>1. ASSUME IInv, [Next]_vars PROVE Good
  <2>1. ASSUME entries' = entries PROVE Good
    BY <2>1 DEF Ids
  <2>2. ASSUME NEW k \in Link, NEW name \in Calls, Call(k, name)
        PROVE  Good
    <3>1. PICK o : Effect(o, k, name)
      BY <1>1, <2>2, CallIs
    <3>2. held = Live(Scope(name, link[k].sent))
      BY <1>1, <3>1, ScopeIs
    <3>3. entries' = o.entries /\ Spared(o.entries, Scope(name, link[k].sent))
      BY <3>1 DEF Effect, Sound
    <3> HIDE DEF held
    <3>. QED
      BY <3>2, <3>3 DEF Spared
  <2>3. ASSUME NEW k \in Link, Send(k) \/ Begin(k) \/ Respond(k) \/ Deliver(k) \/ Lose(k)
        PROVE  entries' = entries
    BY <1>1, <2>3, RequestIs
  <2>4. Tick \/ UNCHANGED vars => entries' = entries
    BY DEF Tick, vars
  <2>. QED
    BY <1>1, <2>1, <2>2, <2>3, <2>4 DEF Next
<1>2. IInv /\ [Next]_vars => [Good]_vars
  BY <1>1
<1>. QED
  BY <1>2, Invariant, PTL DEF Spec, EvictsOldest
=============================================================================
