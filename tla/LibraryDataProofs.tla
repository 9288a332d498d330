------------------------- MODULE LibraryDataProofs --------------------------
(***************************************************************************)
(* What two structures of the library promise: the heap of timers, for any *)
(* connections, deadlines and number of entries (TimerHeap), and the       *)
(* tables of a translator, for any languages and files (Translator).       *)
(*                                                                         *)
(* Of the heap the proof first shows that each of its operations keeps the *)
(* order and loses no entry but the one it takes, then that no step of the *)
(* manager forgets a deadline.  Of the translator it first shows what the  *)
(* operations on lists of languages and tables find, place and collect,    *)
(* then that each call leaves every language with what it was last told.   *)
(***************************************************************************)
EXTENDS TimerHeap, Translator, ListProofs


(* Positions.                                                               *)

\* A position's parent comes before it, and it is one of its two children.
LEMMA ParentFacts ==
  ASSUME NEW j \in Nat, j >= 2
  PROVE  /\ Parent(j) \in Nat /\ 1 <= Parent(j) /\ Parent(j) < j
         /\ j = 2 * Parent(j) \/ j = 2 * Parent(j) + 1
BY DEF Parent

\* What a position is the parent of.
LEMMA ChildFacts ==
  ASSUME NEW i \in Nat, i >= 1
  PROVE  Parent(2 * i) = i /\ Parent(2 * i + 1) = i
BY DEF Parent

\* The entries of a heap are entries, and their deadlines are times.
LEMMA HeapFacts ==
  ASSUME NEW h \in Seq(Entry)
  PROVE  /\ Len(h) \in Nat /\ DOMAIN h = 1 .. Len(h)
         /\ \A j \in 1 .. Len(h) : h[j] \in Entry /\ h[j].due \in Nat
<1>1. Len(h) \in Nat /\ DOMAIN h = 1 .. Len(h)
  BY LenProperties
<1>2. ASSUME NEW j \in 1 .. Len(h) PROVE h[j] \in Entry
  BY ElementOfSeq
<1>3. ASSUME NEW e \in Entry PROVE e.due \in Nat
  BY DEF Entry
<1>. QED
  BY <1>1, <1>2, <1>3

\* The entries of a sequence are those at its positions.
LEMMA RangeFacts ==
  ASSUME NEW h \in Seq(Entry)
  PROVE  \A e : e \in Range(h) <=> \E j \in 1 .. Len(h) : h[j] = e
BY HeapFacts DEF Range

\* Two entries exchanged: no other moves.
LEMMA SwapFacts ==
  ASSUME NEW h \in Seq(Entry), NEW i \in 1 .. Len(h), NEW j \in 1 .. Len(h)
  PROVE  /\ Swap(h, i, j) \in Seq(Entry)
         /\ Len(Swap(h, i, j)) = Len(h)
         /\ \A k \in 1 .. Len(h) :
              Swap(h, i, j)[k] = IF k = i THEN h[j] ELSE IF k = j THEN h[i] ELSE h[k]
         /\ Range(Swap(h, i, j)) = Range(h)
<1> DEFINE a == [h EXCEPT ![i] = h[j]]
           b == [a EXCEPT ![j] = h[i]]
<1>1. h[i] \in Entry /\ h[j] \in Entry
  BY HeapFacts
<1>2. /\ a \in Seq(Entry) /\ Len(a) = Len(h)
      /\ \A k \in 1 .. Len(h) : a[k] = IF k = i THEN h[j] ELSE h[k]
  BY <1>1, ExceptSeq
<1>3. b = Swap(h, i, j)
  BY DEF Swap
<1> HIDE DEF a
<1>4. /\ b \in Seq(Entry) /\ Len(b) = Len(a)
      /\ \A k \in 1 .. Len(a) : b[k] = IF k = j THEN h[i] ELSE a[k]
  BY <1>1, <1>2, ExceptSeq
<1> HIDE DEF b
<1>5. \A k \in 1 .. Len(h) : b[k] = IF k = i THEN h[j] ELSE IF k = j THEN h[i] ELSE h[k]
  BY <1>2, <1>4
<1>6. ASSUME NEW e PROVE e \in Range(b) <=> e \in Range(h)
  <2>1. e \in Range(b) <=> \E k \in 1 .. Len(h) : b[k] = e
    BY <1>2, <1>4, RangeFacts
  <2>2. e \in Range(h) <=> \E k \in 1 .. Len(h) : h[k] = e
    BY RangeFacts
  <2>. QED
    BY <2>1, <2>2, <1>5
<1>7. Range(b) = Range(h)
  BY <1>6
<1>. QED
  BY <1>2, <1>3, <1>4, <1>5, <1>7

-----------------------------------------------------------------------------
(* The order.                                                               *)

\* No entry is due before its parent.
Ordered(h) == \A j \in 2 .. Len(h) : h[Parent(j)].due <= h[j].due

\* The order is broken at most between i and its parent, and not between the
\* parent and i's children.
Rising(h, i) ==
  /\ \A j \in 2 .. Len(h) : j # i => h[Parent(j)].due <= h[j].due
  /\ \A j \in 2 .. Len(h) : (Parent(j) = i /\ i # 1) => h[Parent(i)].due <= h[j].due

\* The order is broken at most between i and its children.
Sinking(h, i) ==
  /\ \A j \in 2 .. Len(h) : Parent(j) # i => h[Parent(j)].due <= h[j].due
  /\ \A j \in 2 .. Len(h) : (Parent(j) = i /\ i # 1) => h[Parent(i)].due <= h[j].due

\* In an ordered heap no entry is due before the root.
LEMMA RootLeast ==
  ASSUME NEW h \in Seq(Entry), Ordered(h), NEW j \in 1 .. Len(h)
  PROVE  h[1].due <= h[j].due
<1> DEFINE T == {n \in Nat : \A k \in 1 .. Len(h) : k <= n => h[1].due <= h[k].due}
<1>1. Len(h) \in Nat /\ \A k \in 1 .. Len(h) : h[k].due \in Nat
  BY HeapFacts
<1>2. 0 \in T
  OBVIOUS
<1>3. ASSUME NEW n \in Nat, n \in T PROVE n + 1 \in T
  <2>1. SUFFICES ASSUME NEW k \in 1 .. Len(h), k = n + 1 PROVE h[1].due <= h[k].due
    BY <1>1, <1>3
  <2>2. CASE k = 1
    BY <1>1, <2>2
  <2>3. CASE k # 1
    <3>1. k \in Nat /\ k >= 2 /\ k \in 2 .. Len(h)
      BY <1>1, <2>3
    <3>2. Parent(k) \in 1 .. Len(h) /\ Parent(k) <= n
      BY <1>1, <2>1, <3>1, ParentFacts
    <3>3. h[1].due <= h[Parent(k)].due
      BY <1>3, <3>2
    <3>4. h[Parent(k)].due <= h[k].due
      BY <3>1 DEF Ordered
    <3>5. 1 \in 1 .. Len(h)
      BY <1>1
    <3>. QED
      BY <1>1, <3>2, <3>3, <3>4, <3>5
  <2>. QED
    BY <2>2, <2>3
<1>4. Nat \subseteq T
  BY <1>2, <1>3, NatInduct
<1>. QED
  BY <1>1, <1>4

-----------------------------------------------------------------------------
(* Push.                                                                    *)

\* The places a rising entry of a heap with the entries E may be at.
Risings(E, n) ==
  {p \in Place : /\ Len(p.heap) = n /\ p.at <= n
                 /\ Range(p.heap) = E
                 /\ Rising(p.heap, p.at)}

\* A turn of sw_timer_heap_push's loop: the entry has its place, or has risen.
LEMMA RiseTurn ==
  ASSUME NEW h \in Seq(Entry), NEW i \in 1 .. Len(h), i # 1, Rising(h, i),
         ~ (h[Parent(i)].due <= h[i].due)
  PROVE  /\ Parent(i) \in 1 .. Len(h) /\ Parent(i) < i
         /\ Rising(Swap(h, Parent(i), i), Parent(i))
<1> DEFINE q == Parent(i)
           k == Swap(h, q, i)
<1>1. Len(h) \in Nat /\ \A j \in 1 .. Len(h) : h[j].due \in Nat
  BY HeapFacts
<1>2. i \in Nat /\ i >= 2 /\ i \in 2 .. Len(h)
  BY <1>1
<1>3. q \in 1 .. Len(h) /\ q < i
  BY <1>1, <1>2, ParentFacts
<1> HIDE DEF q
<1>4. /\ Len(k) = Len(h)
      /\ \A j \in 1 .. Len(h) : k[j] = IF j = q THEN h[i] ELSE IF j = i THEN h[q] ELSE h[j]
  BY <1>3, SwapFacts
<1> HIDE DEF k
<1>5. h[i].due < h[q].due
  BY <1>1, <1>3 DEF q
<1>6. \A j \in 2 .. Len(h) : j # i => h[Parent(j)].due <= h[j].due
  BY DEF Rising
<1>7. \A j \in 2 .. Len(h) : Parent(j) = i => h[q].due <= h[j].due
  BY DEF Rising, q
<1>8. ASSUME NEW j \in 2 .. Len(h)
      PROVE  j \in 1 .. Len(h) /\ Parent(j) \in 1 .. Len(h) /\ Parent(j) < j
  BY <1>1, ParentFacts
<1>9. k[q] = h[i] /\ k[i] = h[q]
  BY <1>3, <1>4
<1>10. ASSUME NEW j \in 2 .. Len(k), j # q PROVE k[Parent(j)].due <= k[j].due
  <2>1. j \in 2 .. Len(h)
    BY <1>4
  <2>2. CASE j = i
    BY <1>1, <1>3, <1>5, <1>9, <2>2 DEF q
  <2>3. CASE j # i
    <3>1. k[j] = h[j] /\ h[Parent(j)].due <= h[j].due
      BY <1>4, <1>6, <1>8, <1>10, <2>1, <2>3
    <3>2. CASE Parent(j) = i
      BY <1>7, <1>9, <2>1, <3>1, <3>2
    <3>3. CASE Parent(j) = q
      BY <1>1, <1>3, <1>5, <1>8, <1>9, <2>1, <3>1, <3>3
    <3>4. CASE Parent(j) # i /\ Parent(j) # q
      BY <1>4, <1>8, <2>1, <3>1, <3>4
    <3>. QED
      BY <3>2, <3>3, <3>4
  <2>. QED
    BY <2>2, <2>3
<1>11. ASSUME NEW j \in 2 .. Len(k), Parent(j) = q, q # 1 PROVE k[Parent(q)].due <= k[j].due
  <2>1. j \in 2 .. Len(h) /\ q \in 2 .. Len(h)
    BY <1>1, <1>3, <1>4, <1>11
  <2>2. h[Parent(q)].due <= h[q].due
    BY <1>3, <1>6, <2>1
  <2>3. k[Parent(q)] = h[Parent(q)]
    BY <1>1, <1>3, <1>4, <1>8, <2>1
  <2>4. CASE j = i
    BY <1>9, <2>2, <2>3, <2>4
  <2>5. CASE j # i
    <3>1. k[j] = h[j]
      BY <1>4, <1>8, <1>11, <2>1, <2>5
    <3>2. h[q].due <= h[j].due
      BY <1>6, <1>11, <2>1, <2>5
    <3>. QED
      BY <1>1, <1>3, <1>8, <2>1, <2>2, <2>3, <3>1, <3>2
  <2>. QED
    BY <2>4, <2>5
<1>12. Rising(k, q)
  BY <1>10, <1>11 DEF Rising
<1>. QED
  BY <1>3, <1>12 DEF q, k

\* What a turn makes of a rising entry's place.
LEMMA RiseFacts ==
  ASSUME NEW E, NEW n \in Nat, NEW p \in Risings(E, n)
  PROVE  /\ Rise[p] \in Risings(E, n)
         /\ Rise[p] = p \/ Rise[p].at < p.at
         /\ Rise[p] = p => Ordered(p.heap)
<1> DEFINE h == p.heap
           i == p.at
           q == [heap |-> Swap(h, Parent(i), i), at |-> Parent(i)]
<1>1. p \in Place /\ h \in Seq(Entry) /\ i \in Nat \ {0}
  BY DEF Risings, Place
<1>2. Len(h) = n /\ i <= n /\ Range(h) = E /\ Rising(h, i)
  BY DEF Risings
<1>3. Rise[p] = IF i = 1 \/ h[Parent(i)].due <= h[i].due THEN p ELSE q
  BY <1>1 DEF Rise
<1> HIDE DEF h, i
<1>4. i \in 1 .. Len(h)
  BY <1>1, <1>2
<1>5. CASE i = 1 \/ h[Parent(i)].due <= h[i].due
  <2>1. Rise[p] = p
    BY <1>3, <1>5
  <2>2. ASSUME NEW j \in 2 .. Len(h) PROVE h[Parent(j)].due <= h[j].due
    BY <1>2, <1>5 DEF Rising
  <2>3. Ordered(h)
    BY <2>2 DEF Ordered
  <2>. QED
    BY <2>1, <2>3 DEF h
<1>6. CASE ~ (i = 1 \/ h[Parent(i)].due <= h[i].due)
  <2>1. Rise[p] = q
    BY <1>3, <1>6
  <2>2. /\ Parent(i) \in 1 .. Len(h) /\ Parent(i) < i
        /\ Rising(Swap(h, Parent(i), i), Parent(i))
    BY <1>1, <1>2, <1>4, <1>6, RiseTurn
  <2>3. /\ Swap(h, Parent(i), i) \in Seq(Entry) /\ Len(Swap(h, Parent(i), i)) = n
        /\ Range(Swap(h, Parent(i), i)) = E
    BY <1>1, <1>2, <1>4, <2>2, SwapFacts
  <2>4. q.heap = Swap(h, Parent(i), i) /\ q.at = Parent(i)
    OBVIOUS
  <2>5. q \in Place
    BY <1>2, <2>2, <2>3 DEF Place
  <2> HIDE DEF q
  <2>6. q.at <= n
    BY <1>2, <2>2, <2>4
  <2>7. q \in Risings(E, n)
    BY <2>2, <2>3, <2>4, <2>5, <2>6 DEF Risings
  <2>8. q.at < i /\ q.at \in Nat
    BY <2>2, <2>4
  <2>9. q # p
    BY <1>1, <2>8 DEF i
  <2>. QED
    BY <2>1, <2>7, <2>8, <2>9 DEF i
<1>. QED
  BY <1>5, <1>6

\* sw_timer_heap_push keeps the order, and adds the entry to the others.
LEMMA PushFacts ==
  ASSUME NEW h \in Seq(Entry), Ordered(h), NEW e \in Entry
  PROVE  /\ Push(h, e) \in Seq(Entry)
         /\ Ordered(Push(h, e))
         /\ Range(Push(h, e)) = Range(h) \cup {e}
<1> DEFINE n == Len(h) + 1
           k == Append(h, e)
           s == [heap |-> k, at |-> n]
           E == Range(h) \cup {e}
           I == Risings(E, n)
           m == [p \in I |-> p.at]
           r == Turns(Rise, s, n)
<1>1. Len(h) \in Nat /\ n \in Nat /\ n >= 1
  BY HeapFacts
<1>2. /\ k \in Seq(Entry) /\ Len(k) = n
      /\ \A j \in 1 .. Len(h) : k[j] = h[j]
      /\ k[n] = e
  BY AppendProperties
<1> HIDE DEF k
<1>3. Range(k) = E
  <2>1. ASSUME NEW x PROVE x \in Range(k) <=> x \in E
    <3>1. x \in Range(k) <=> \E j \in 1 .. n : k[j] = x
      BY <1>2, RangeFacts
    <3>2. x \in Range(h) <=> \E j \in 1 .. Len(h) : h[j] = x
      BY RangeFacts
    <3>3. \A j : j \in 1 .. n <=> (j \in 1 .. Len(h) \/ j = n)
      BY <1>1
    <3>. QED
      BY <1>2, <3>1, <3>2, <3>3
  <2>. QED
    BY <2>1
<1>4. Rising(k, n)
  <2>1. ASSUME NEW j \in 2 .. Len(k)
        PROVE  /\ Parent(j) \in 1 .. Len(h) /\ Parent(j) # n
               /\ j # n => j \in 2 .. Len(h)
    BY <1>1, <1>2, ParentFacts
  <2>2. ASSUME NEW j \in 2 .. Len(k), j # n PROVE k[Parent(j)].due <= k[j].due
    <3>1. j \in 2 .. Len(h) /\ j \in 1 .. Len(h) /\ Parent(j) \in 1 .. Len(h)
      BY <1>1, <2>1, <2>2
    <3>. QED
      BY <1>2, <3>1 DEF Ordered
  <2>. QED
    BY <2>1, <2>2 DEF Rising
<1>5. s \in I
  <2>1. s \in Place /\ s.heap = k /\ s.at = n
    BY <1>1, <1>2 DEF Place
  <2> HIDE DEF s, n
  <2>. QED
    BY <1>1, <1>2, <1>3, <1>4, <2>1 DEF Risings
<1>6. \A p \in I : Rise[p] \in I
  BY <1>1, RiseFacts
<1>7. \A p \in I : m[p] \in Nat
  BY DEF Risings, Place
<1>8. \A p \in I : Rise[p] = p \/ m[Rise[p]] < m[p]
  <2>1. ASSUME NEW p \in I PROVE Rise[p] = p \/ m[Rise[p]] < m[p]
    <3>1. m[p] = p.at /\ m[Rise[p]] = Rise[p].at
      BY <1>6
    <3>. QED
      BY <1>1, <3>1, RiseFacts
  <2>. QED
    BY <2>1
<1>9. m[s] <= n
  BY <1>1, <1>5
<1>10. Push(h, e) = r.heap
  BY DEF Push, SiftUp, k
<1> HIDE DEF I, m, s, r
<1>11. r \in I
  BY <1>1, <1>5, <1>6, TurnsKeep DEF r
<1>12. Rise[r] = r
  BY <1>1, <1>5, <1>6, <1>7, <1>8, <1>9, TurnsEnd, ZenonT(40) DEF r
<1>13. Ordered(r.heap)
  BY <1>1, <1>11, <1>12, RiseFacts DEF I
<1>14. r.heap \in Seq(Entry) /\ Range(r.heap) = E
  BY <1>11 DEF I, Risings, Place
<1>. QED
  BY <1>10, <1>13, <1>14

-----------------------------------------------------------------------------
(* Pop.                                                                     *)

\* The places a sinking entry of a heap with the entries E may be at.
Sinkings(E, n) ==
  {p \in Place : /\ Len(p.heap) = n /\ p.at <= n
                 /\ Range(p.heap) = E
                 /\ Sinking(p.heap, p.at)}

\* Of an entry and its children, Smallest is one that none is due before; it
\* is a child only if that is due before the entry.
LEMMA SmallestFacts ==
  ASSUME NEW h \in Seq(Entry), NEW i \in 1 .. Len(h)
  PROVE  /\ Smallest(h, i) \in 1 .. Len(h)
         /\ \/ Smallest(h, i) = i
            \/ /\ Parent(Smallest(h, i)) = i /\ i < Smallest(h, i)
               /\ h[Smallest(h, i)].due < h[i].due
         /\ \A j \in 2 .. Len(h) : Parent(j) = i => h[Smallest(h, i)].due <= h[j].due
<1> DEFINE s == Smallest(h, i)
           l == IF 2 * i <= Len(h) /\ h[2 * i].due < h[i].due THEN 2 * i ELSE i
<1>1. Len(h) \in Nat /\ i \in Nat /\ i >= 1 /\ \A j \in 1 .. Len(h) : h[j].due \in Nat
  BY HeapFacts
<1>2. s = IF 2 * i + 1 <= Len(h) /\ h[2 * i + 1].due < h[l].due THEN 2 * i + 1 ELSE l
  BY DEF Smallest
<1>3. Parent(2 * i) = i /\ Parent(2 * i + 1) = i
  BY <1>1, ChildFacts
<1>4. 2 * i <= Len(h) => 2 * i \in 1 .. Len(h)
  BY <1>1
<1>5. 2 * i + 1 <= Len(h) => 2 * i + 1 \in 1 .. Len(h) /\ 2 * i \in 1 .. Len(h)
  BY <1>1
<1>6. /\ l \in 1 .. Len(h) /\ h[l].due <= h[i].due
      /\ l = i \/ (l = 2 * i /\ h[l].due < h[i].due)
      /\ 2 * i <= Len(h) => h[l].due <= h[2 * i].due
  BY <1>1, <1>4
<1> HIDE DEF l, s
<1>7. /\ s \in 1 .. Len(h) /\ h[s].due <= h[l].due
      /\ s = l \/ (s = 2 * i + 1 /\ h[s].due < h[l].due)
      /\ 2 * i + 1 <= Len(h) => h[s].due <= h[2 * i + 1].due
  BY <1>1, <1>2, <1>5, <1>6
<1>8. s = i \/ (Parent(s) = i /\ i < s /\ h[s].due < h[i].due)
  BY <1>1, <1>3, <1>6, <1>7
<1>9. ASSUME NEW j \in 2 .. Len(h), Parent(j) = i PROVE h[s].due <= h[j].due
  <2>1. j \in 1 .. Len(h) /\ (j = 2 * i \/ j = 2 * i + 1)
    BY <1>1, <1>9, ParentFacts
  <2>. QED
    BY <1>1, <1>6, <1>7, <2>1
<1>. QED
  BY <1>7, <1>8, <1>9 DEF s

\* A turn of sw_timer_heap_pop's loop: the entry is exchanged with a child.
LEMMA SinkTurn ==
  ASSUME NEW h \in Seq(Entry), NEW i \in 1 .. Len(h), Sinking(h, i), Smallest(h, i) # i
  PROVE  Sinking(Swap(h, i, Smallest(h, i)), Smallest(h, i))
<1> DEFINE s == Smallest(h, i)
           k == Swap(h, i, s)
<1>1. Len(h) \in Nat /\ i \in Nat /\ \A j \in 1 .. Len(h) : h[j].due \in Nat
  BY HeapFacts
<1>2. /\ s \in 1 .. Len(h) /\ Parent(s) = i /\ i < s /\ h[s].due < h[i].due
      /\ \A j \in 2 .. Len(h) : Parent(j) = i => h[s].due <= h[j].due
  BY SmallestFacts
<1> HIDE DEF s
<1>3. /\ Len(k) = Len(h)
      /\ \A j \in 1 .. Len(h) : k[j] = IF j = i THEN h[s] ELSE IF j = s THEN h[i] ELSE h[j]
  BY <1>2, SwapFacts
<1> HIDE DEF k
<1>4. \A j \in 2 .. Len(h) : Parent(j) # i => h[Parent(j)].due <= h[j].due
  BY DEF Sinking
<1>5. \A j \in 2 .. Len(h) : (Parent(j) = i /\ i # 1) => h[Parent(i)].due <= h[j].due
  BY DEF Sinking
<1>6. ASSUME NEW j \in 2 .. Len(h)
      PROVE  j \in 1 .. Len(h) /\ Parent(j) \in 1 .. Len(h) /\ Parent(j) < j
  BY <1>1, ParentFacts
<1>7. k[i] = h[s] /\ k[s] = h[i] /\ s \in 2 .. Len(h)
  BY <1>1, <1>2, <1>3
<1>8. ASSUME NEW j \in 2 .. Len(k), Parent(j) # s PROVE k[Parent(j)].due <= k[j].due
  <2>1. j \in 2 .. Len(h)
    BY <1>3
  <2>2. CASE Parent(j) = i
    <3>1. j # i /\ k[Parent(j)] = h[s]
      BY <1>1, <1>6, <1>7, <2>1, <2>2
    <3>2. CASE j = s
      BY <1>1, <1>2, <1>7, <3>1, <3>2
    <3>3. CASE j # s
      BY <1>2, <1>3, <1>6, <2>1, <2>2, <3>1, <3>3
    <3>. QED
      BY <3>2, <3>3
  <2>3. CASE Parent(j) # i
    <3>1. k[Parent(j)] = h[Parent(j)] /\ h[Parent(j)].due <= h[j].due
      BY <1>3, <1>4, <1>6, <1>8, <2>1, <2>3
    <3>2. CASE j = i
      <4>1. i # 1 /\ h[Parent(i)].due <= h[s].due
        BY <1>1, <1>2, <1>5, <1>7, <2>1, <3>2
      <4>. QED
        BY <1>7, <3>1, <3>2, <4>1
    <3>3. CASE j # i
      <4>1. j # s
        BY <1>2, <2>3
      <4>2. k[j] = h[j]
        BY <1>3, <1>6, <2>1, <3>3, <4>1
      <4>. QED
        BY <3>1, <4>2
    <3>. QED
      BY <3>2, <3>3
  <2>. QED
    BY <2>2, <2>3
<1>9. ASSUME NEW j \in 2 .. Len(k), Parent(j) = s, s # 1 PROVE k[Parent(s)].due <= k[j].due
  <2>1. j \in 2 .. Len(h) /\ j \in 1 .. Len(h) /\ s < j /\ j # i /\ j # s
    BY <1>1, <1>2, <1>3, <1>6, <1>9
  <2>2. k[j] = h[j] /\ h[Parent(j)].due <= h[j].due
    BY <1>2, <1>3, <1>4, <1>9, <2>1
  <2>. QED
    BY <1>2, <1>7, <1>9, <2>2
<1>10. Sinking(k, s)
  BY <1>8, <1>9 DEF Sinking
<1>. QED
  BY <1>10 DEF k, s

\* What a turn makes of a sinking entry's place.
LEMMA SinkFacts ==
  ASSUME NEW E, NEW n \in Nat, NEW p \in Sinkings(E, n)
  PROVE  /\ Sink[p] \in Sinkings(E, n)
         /\ Sink[p] = p \/ p.at < Sink[p].at
         /\ Sink[p] = p => Ordered(p.heap)
<1> DEFINE h == p.heap
           i == p.at
           s == Smallest(h, i)
           q == [heap |-> Swap(h, i, s), at |-> s]
<1>1. p \in Place /\ h \in Seq(Entry) /\ i \in Nat \ {0}
  BY DEF Sinkings, Place
<1>2. Len(h) = n /\ i <= n /\ Range(h) = E /\ Sinking(h, i)
  BY DEF Sinkings
<1>3. Sink[p] = q
  BY <1>1 DEF Sink
<1>13. p = [heap |-> h, at |-> i]
  BY <1>1 DEF Place
<1> HIDE DEF h, i
<1>4. i \in 1 .. Len(h)
  BY <1>1, <1>2
<1>5. /\ s \in 1 .. Len(h)
      /\ s = i \/ (Parent(s) = i /\ i < s /\ h[s].due < h[i].due)
      /\ \A j \in 2 .. Len(h) : Parent(j) = i => h[s].due <= h[j].due
  BY <1>1, <1>4, SmallestFacts
<1> HIDE DEF s
<1>6. /\ Swap(h, i, s) \in Seq(Entry) /\ Len(Swap(h, i, s)) = n
      /\ Range(Swap(h, i, s)) = E
      /\ \A k \in 1 .. Len(h) :
           Swap(h, i, s)[k] = IF k = i THEN h[s] ELSE IF k = s THEN h[i] ELSE h[k]
  BY <1>1, <1>2, <1>4, <1>5, SwapFacts, ZenonT(40)
<1>7. q.heap = Swap(h, i, s) /\ q.at = s
  OBVIOUS
<1>8. CASE s = i
  <2>1. \A k \in 1 .. Len(h) : Swap(h, i, s)[k] = h[k]
    BY <1>6, <1>8
  <2>2. Swap(h, i, s) = h
    BY <1>1, <1>2, <1>6, <2>1, SeqEqual
  <2>3. q = p
    BY <1>8, <1>13, <2>2
  <2>4. ASSUME NEW j \in 2 .. Len(h) PROVE h[Parent(j)].due <= h[j].due
    BY <1>2, <1>5, <1>8 DEF Sinking
  <2>5. Ordered(h)
    BY <2>4 DEF Ordered
  <2>. QED
    BY <1>3, <2>3, <2>5 DEF h
<1>9. CASE s # i
  <2>1. Sinking(Swap(h, i, s), s)
    BY <1>1, <1>2, <1>4, <1>9, SinkTurn DEF s
  <2>2. q \in Place
    BY <1>2, <1>5, <1>6 DEF Place
  <2> HIDE DEF q
  <2>3. q.at <= n /\ q.at \in Nat /\ i < q.at
    BY <1>2, <1>5, <1>7, <1>9
  <2>4. q \in Sinkings(E, n)
    BY <1>6, <1>7, <2>1, <2>2, <2>3 DEF Sinkings
  <2>5. q # p
    BY <1>1, <2>3 DEF i
  <2>. QED
    BY <1>3, <2>3, <2>4, <2>5 DEF i
<1>. QED
  BY <1>8, <1>9

\* sw_timer_heap_pop keeps the order, and every entry but the root.
LEMMA PopFacts ==
  ASSUME NEW h \in Seq(Entry), Ordered(h), h # <<>>
  PROVE  /\ Pop(h) \in Seq(Entry)
         /\ Ordered(Pop(h))
         /\ Len(Pop(h)) = Len(h) - 1
         /\ Range(Pop(h)) \subseteq Range(h)
         /\ \A e \in Range(h) : e # h[1] => e \in Range(Pop(h))
<1> DEFINE c == Len(h)
           a == [h EXCEPT ![1] = Last(h)]
           k == Front(a)
           n == c - 1
           s == [heap |-> k, at |-> 1]
           E == Range(k)
           I == Sinkings(E, n)
           m == [p \in I |-> n - p.at]
           r == Turns(Sink, s, n)
<1>1. c \in Nat /\ c >= 1 /\ 1 \in 1 .. c /\ c \in 1 .. c
  BY HeapFacts, EmptySeq
<1>2. \A e : e \in Range(h) <=> \E j \in 1 .. c : h[j] = e
  BY RangeFacts
<1>3. CASE c = 1
  <2>1. Pop(h) = <<>>
    BY <1>3 DEF Pop
  <2>2. <<>> \in Seq(Entry) /\ Len(<<>>) = 0
    BY EmptySeq
  <2>3. Ordered(<<>>)
    BY <2>2 DEF Ordered
  <2>4. \A e : e \notin Range(<<>>)
    <3>1. \A e : e \in Range(<<>>) <=> \E j \in 1 .. Len(<<>>) : <<>>[j] = e
      BY <2>2, RangeFacts
    <3>2. ~ \E j : j \in 1 .. Len(<<>>)
      BY <2>2
    <3>. QED
      BY <3>1, <3>2
  <2>5. \A e \in Range(h) : e = h[1]
    BY <1>2, <1>3
  <2>. QED
    BY <1>3, <2>1, <2>2, <2>3, <2>4, <2>5
<1>4. CASE c # 1
  <2>1. Last(h) = h[c] /\ h[c] \in Entry
    BY <1>1, HeapFacts DEF Last
  <2>2. /\ a \in Seq(Entry) /\ Len(a) = c
        /\ \A j \in 1 .. c : a[j] = IF j = 1 THEN h[c] ELSE h[j]
    BY <1>1, <2>1, ExceptSeq
  <2>3. n \in Nat /\ n >= 1 /\ n < c
    <3> HIDE DEF c
    <3>. QED
      BY <1>1, <1>4
  <2>4. /\ k \in Seq(Entry) /\ Len(k) = n
        /\ \A j \in 1 .. n : k[j] = a[j]
    <3> HIDE DEF a, c
    <3>1. \A j \in 1 .. n : a[j] \in Entry
      BY <1>1, <2>2, <2>3, HeapFacts
    <3>2. k = SubSeq(a, 1, n)
      BY <2>2 DEF Front
    <3>3. 1 \in Int /\ n \in Int /\ n - 1 + 1 = n
      BY <1>1
    <3> HIDE DEF k, n
    <3>4. /\ SubSeq(a, 1, n) \in Seq(Entry)
          /\ Len(SubSeq(a, 1, n)) = IF 1 <= n THEN n - 1 + 1 ELSE 0
          /\ \A j \in 1 .. n - 1 + 1 : SubSeq(a, 1, n)[j] = a[1 + j - 1]
      BY <3>1, <3>3, SubSeqProperties
    <3>5. ASSUME NEW j \in 1 .. n PROVE 1 + j - 1 = j
      BY <2>3
    <3>. QED
      BY <2>3, <3>2, <3>3, <3>4, <3>5
  <2> HIDE DEF a, k
  <2>5. \A j \in 1 .. n : k[j] = IF j = 1 THEN h[c] ELSE h[j]
    BY <1>1, <2>2, <2>3, <2>4
  <2>6. Sinking(k, 1)
    <3>1. ASSUME NEW j \in 2 .. Len(k), Parent(j) # 1 PROVE k[Parent(j)].due <= k[j].due
      <4>1. /\ j \in 2 .. c /\ j \in 1 .. n /\ j # 1
            /\ Parent(j) \in 1 .. n
        BY <1>1, <2>3, <2>4, ParentFacts
      <4>2. k[j] = h[j] /\ k[Parent(j)] = h[Parent(j)]
        BY <2>5, <3>1, <4>1
      <4>. QED
        BY <4>1, <4>2 DEF Ordered
    <3>. QED
      BY <3>1 DEF Sinking
  <2>7. s \in I
    <3>1. s \in Place /\ s.heap = k /\ s.at = 1
      BY <2>4 DEF Place
    <3> HIDE DEF s, n
    <3>. QED
      BY <2>3, <2>4, <2>6, <3>1 DEF Sinkings
  <2>8. \A p \in I : Sink[p] \in I
    BY <2>3, SinkFacts
  <2>9. \A p \in I : p.at \in Nat /\ p.at <= n
    BY DEF Sinkings, Place
  <2>10. \A p \in I : m[p] \in Nat
    BY <2>3, <2>9
  <2>11. ASSUME NEW p \in I PROVE Sink[p] = p \/ m[Sink[p]] < m[p]
    <3>1. m[p] = n - p.at /\ m[Sink[p]] = n - Sink[p].at
      BY <2>8
    <3>2. Sink[p] = p \/ p.at < Sink[p].at
      BY <2>3, SinkFacts
    <3>3. p.at \in Nat /\ Sink[p].at \in Nat
      BY <2>8, <2>9
    <3>. QED
      BY <2>3, <3>1, <3>2, <3>3
  <2>12. m[s] <= n
    BY <2>3, <2>7
  <2>13. Pop(h) = r.heap
    BY <1>4, <2>4 DEF Pop, SiftDown, k, a
  <2> HIDE DEF I, m, s, r, n
  <2>14. r \in I
    BY <2>3, <2>7, <2>8, TurnsKeep DEF r
  <2>15. Sink[r] = r
    BY <2>3, <2>7, <2>8, <2>10, <2>11, <2>12, TurnsEnd DEF r
  <2>16. Ordered(r.heap)
    BY <2>3, <2>14, <2>15, SinkFacts DEF I
  <2>17. r.heap \in Seq(Entry) /\ Len(r.heap) = n /\ Range(r.heap) = E
    BY <2>14 DEF I, Sinkings, Place
  <2>18. \A e : e \in E <=> \E j \in 1 .. n : k[j] = e
    BY <2>4, RangeFacts
  <2>19. ASSUME NEW e \in E PROVE e \in Range(h)
    <3>1. PICK j \in 1 .. n : k[j] = e
      BY <2>18
    <3>2. j \in 1 .. c /\ (e = h[c] \/ e = h[j])
      BY <1>1, <2>3, <2>5, <3>1
    <3>. QED
      BY <1>1, <1>2, <3>2
  <2>20. ASSUME NEW e \in Range(h), e # h[1] PROVE e \in E
    <3>1. PICK j \in 1 .. c : h[j] = e
      BY <1>2
    <3>2. j # 1
      BY <2>20, <3>1
    <3>3. CASE j = c
      <4>1. 1 \in 1 .. n /\ k[1] = e
        BY <2>3, <2>5, <3>1, <3>3
      <4>. QED
        BY <2>18, <4>1
    <3>4. CASE j # c
      <4>1. j \in 1 .. n
        BY <1>1, <3>4 DEF n
      <4>2. k[j] = e
        BY <2>5, <3>1, <3>2, <4>1
      <4>. QED
        BY <2>18, <4>1, <4>2
    <3>. QED
      BY <3>3, <3>4
  <2>. QED
    BY <2>13, <2>16, <2>17, <2>19, <2>20 DEF n
<1>. QED
  BY <1>3, <1>4

-----------------------------------------------------------------------------
(* Peek.                                                                    *)

\* What sw_mgr_peek_timer's loop may have made of h.
Peekings(h) ==
  {k \in Seq(Entry) : /\ Ordered(k)
                      /\ Range(k) \subseteq Range(h)
                      /\ \A e \in Range(h) : Counts(e) => e \in Range(k)}

\* A turn of the loop: a root that does not count is taken.
LEMMA PeekFacts ==
  ASSUME NEW h \in Seq(Entry), NEW k \in Peekings(h)
  PROVE  /\ Peek[k] \in Peekings(h)
         /\ Peek[k] = k \/ Len(Peek[k]) < Len(k)
         /\ Peek[k] = k => k = <<>> \/ Counts(k[1])
<1>1. /\ k \in Seq(Entry) /\ Ordered(k) /\ Range(k) \subseteq Range(h)
      /\ \A e \in Range(h) : Counts(e) => e \in Range(k)
  BY DEF Peekings
<1>2. Peek[k] = IF k = <<>> \/ Counts(k[1]) THEN k ELSE Pop(k)
  BY <1>1 DEF Peek
<1>3. CASE k = <<>> \/ Counts(k[1])
  BY <1>2, <1>3
<1>4. CASE ~ (k = <<>> \/ Counts(k[1]))
  <2>1. Peek[k] = Pop(k)
    BY <1>2, <1>4
  <2>2. /\ Pop(k) \in Seq(Entry) /\ Ordered(Pop(k)) /\ Len(Pop(k)) = Len(k) - 1
        /\ Range(Pop(k)) \subseteq Range(k)
        /\ \A e \in Range(k) : e # k[1] => e \in Range(Pop(k))
    BY <1>1, <1>4, PopFacts
  <2>3. ASSUME NEW e \in Range(h), Counts(e) PROVE e \in Range(Pop(k))
    <3>1. e \in Range(k) /\ e # k[1]
      BY <1>1, <1>4, <2>3
    <3>. QED
      BY <2>2, <3>1
  <2>4. Pop(k) \in Peekings(h)
    BY <1>1, <2>2, <2>3 DEF Peekings
  <2>5. Len(Pop(k)) < Len(k) /\ Pop(k) # k
    <3>1. Len(k) \in Nat
      BY <1>1, LenProperties
    <3>. QED
      BY <2>2, <3>1
  <2>. QED
    BY <2>1, <2>4, <2>5
<1>. QED
  BY <1>3, <1>4

\* The loop ends at a heap whose root counts, or at none, and has taken no entry
\* that counts.
LEMMA PeekedFacts ==
  ASSUME NEW h \in Seq(Entry), Ordered(h)
  PROVE  /\ Peeked(h) \in Peekings(h)
         /\ Peeked(h) = <<>> \/ Counts(Peeked(h)[1])
<1> DEFINE I == Peekings(h)
           m == [k \in I |-> Len(k)]
           n == Len(h)
           r == Turns(Peek, h, n)
<1>1. n \in Nat
  BY LenProperties
<1>2. h \in I
  BY DEF Peekings
<1>3. \A k \in I : Peek[k] \in I
  BY PeekFacts
<1>4. \A k \in I : m[k] \in Nat
  BY LenProperties DEF Peekings
<1>5. ASSUME NEW k \in I PROVE Peek[k] = k \/ m[Peek[k]] < m[k]
  <2>1. m[k] = Len(k) /\ m[Peek[k]] = Len(Peek[k])
    BY <1>3
  <2>. QED
    BY <2>1, PeekFacts
<1>6. m[h] <= n
  BY <1>1, <1>2
<1>7. Peeked(h) = r
  BY DEF Peeked
<1> HIDE DEF I, m, n, r
<1>8. r \in I
  BY <1>1, <1>2, <1>3, TurnsKeep DEF r
<1>9. Peek[r] = r
  BY <1>1, <1>2, <1>3, <1>4, <1>5, <1>6, TurnsEnd DEF r
<1>10. r = <<>> \/ Counts(r[1])
  BY <1>8, <1>9, PeekFacts DEF I
<1>. QED
  BY <1>7, <1>8, <1>10 DEF I

-----------------------------------------------------------------------------
(* The manager's steps.                                                     *)

\* A connection that waits for a deadline, and the entry that tells of it.
Live(c) == conns[c].open /\ conns[c].due # NoDue
Found(h, c) == \E e \in Range(h) : e.conn = c /\ Counts(e)

Connection == [open : BOOLEAN, due : Nat \cup {NoDue}, generation : Nat]

Shape ==
  /\ now \in Nat
  /\ heap \in Seq(Entry)
  /\ conns \in [Conn -> Connection]
  /\ wake \in Nat \cup {Running}

\* The heap is ordered; each deadline has an entry that tells of it; none has
\* passed; and the worker waits for events no longer than until the first.
TimersInv ==
  /\ Shape
  /\ Ordered(heap)
  /\ \A c \in Conn : Live(c) => Found(heap, c)
  /\ \A c \in Conn : Live(c) => now <= conns[c].due
  /\ wake # Running => \A c \in Conn : Live(c) => wake <= conns[c].due

\* What peeking finds: the earliest deadline of all connections.
LEMMA PeekedRoot ==
  ASSUME Shape, NEW h \in Seq(Entry), Ordered(h),
         \A c \in Conn : Live(c) => Found(h, c)
  PROVE  /\ Peeked(h) \in Seq(Entry) /\ Ordered(Peeked(h))
         /\ \A c \in Conn : Live(c) => Found(Peeked(h), c)
         /\ Peeked(h) # <<>> =>
              /\ Peeked(h)[1] \in Entry /\ Counts(Peeked(h)[1]) /\ Live(Peeked(h)[1].conn)
              /\ \A c \in Conn : Live(c) => Peeked(h)[1].due <= conns[c].due
         /\ Peeked(h) = <<>> => \A c \in Conn : ~ Live(c)
<1> DEFINE k == Peeked(h)
<1>1. k \in Peekings(h) /\ (k = <<>> \/ Counts(k[1]))
  BY PeekedFacts
<1> HIDE DEF k
<1>2. k \in Seq(Entry) /\ Ordered(k) /\ \A e \in Range(h) : Counts(e) => e \in Range(k)
  BY <1>1 DEF Peekings
<1>3. \A c \in Conn : Live(c) => Found(k, c)
  BY <1>2 DEF Found
<1>4. \A e : e \in Range(k) <=> \E j \in 1 .. Len(k) : k[j] = e
  BY <1>2, RangeFacts
<1>5. CASE k = <<>>
  <2>1. \A e : e \notin Range(k)
    <3>1. ~ \E j : j \in 1 .. Len(k)
      BY <1>5, EmptySeq
    <3>. QED
      BY <1>4, <3>1
  <2>2. \A c \in Conn : ~ Live(c)
    BY <1>3, <2>1 DEF Found
  <2>. QED
    BY <1>2, <1>3, <1>5, <2>2 DEF k
<1>6. CASE k # <<>>
  <2>1. 1 \in 1 .. Len(k)
    BY <1>2, <1>6, EmptySeq
  <2>2. k[1] \in Entry /\ Counts(k[1])
    BY <1>1, <1>2, <1>6, <2>1, HeapFacts
  <2>3. k[1].conn \in Conn /\ k[1].due \in Nat
    BY <2>2 DEF Entry
  <2>4. Live(k[1].conn)
    BY <2>2, <2>3 DEF Live, Counts, NoDue
  <2>5. ASSUME NEW c \in Conn, Live(c) PROVE k[1].due <= conns[c].due
    <3>1. PICK e \in Range(k) : e.conn = c /\ Counts(e)
      BY <1>3, <2>5 DEF Found
    <3>2. PICK j \in 1 .. Len(k) : k[j] = e
      BY <1>4
    <3>3. k[1].due <= e.due
      BY <1>2, <3>2, RootLeast
    <3>4. e.due = conns[c].due
      BY <3>1 DEF Counts
    <3>. QED
      BY <3>3, <3>4
  <2>. QED
    BY <1>2, <1>3, <1>6, <2>2, <2>4, <2>5 DEF k
<1>. QED
  BY <1>5, <1>6

\* The invariant holds what is to be shown.
LEMMA TimersImplied == TimersInv => TimersOrdered
<1> DEFINE live == {c \in Conn : conns[c].open /\ conns[c].due # NoDue}
           k == Peeked(heap)
           D == {conns[c].due : c \in live}
<1>. SUFFICES ASSUME TimersInv PROVE TimersOrdered
  OBVIOUS
<1>1. /\ Shape /\ heap \in Seq(Entry) /\ Ordered(heap)
      /\ \A c \in Conn : Live(c) => Found(heap, c) /\ now <= conns[c].due
  BY DEF TimersInv, Shape
<1>2. \A c : c \in live <=> c \in Conn /\ Live(c)
  BY DEF Live
<1>3. ASSUME NEW c \in live
      PROVE  /\ \E i \in DOMAIN heap : heap[i].conn = c /\ Counts(heap[i])
             /\ conns[c].due >= now
  <2>1. c \in Conn /\ Live(c)
    BY <1>2
  <2>2. PICK e \in Range(heap) : e.conn = c /\ Counts(e)
    BY <1>1, <2>1 DEF Found
  <2>3. \E i \in DOMAIN heap : heap[i] = e
    BY DEF Range
  <2>4. now <= conns[c].due /\ now \in Nat /\ conns[c].due \in Int
    BY <1>1, <2>1 DEF Shape, Connection, NoDue
  <2>. QED
    BY <2>2, <2>3, <2>4
<1>4. ASSUME live # {} PROVE k # <<>> /\ k[1].due = Min(D)
  <2>1. PICK c \in Conn : Live(c)
    BY <1>2, <1>4
  <2>2. /\ k # <<>>
        /\ k[1] \in Entry /\ Counts(k[1]) /\ Live(k[1].conn)
        /\ \A d \in Conn : Live(d) => k[1].due <= conns[d].due
    BY <1>1, <2>1, PeekedRoot
  <2> HIDE DEF k
  <2>3. k[1].conn \in live /\ k[1].due = conns[k[1].conn].due
    BY <1>2, <2>2 DEF Entry, Counts
  <2>4. \A d \in live : k[1].due <= conns[d].due
    BY <1>2, <2>2
  <2>5. \A d \in live : conns[d].due \in Int
    BY <1>1 DEF Shape, Connection, NoDue
  <2>6. k[1].due \in D /\ (\A x \in D : k[1].due <= x) /\ (\A x \in D : x \in Int)
    BY <2>3, <2>4, <2>5
  <2> HIDE DEF D
  <2>7. \A x \in D : (\A y \in D : x <= y) => x = k[1].due
    BY <2>6
  <2>8. Min(D) = CHOOSE x \in D : \A y \in D : x <= y
    BY DEF Min
  <2>9. Min(D) \in D /\ \A y \in D : Min(D) <= y
    BY <2>6, <2>8
  <2>. QED
    BY <2>2, <2>7, <2>9
<1>. QED
  BY <1>3, <1>4 DEF TimersOrdered

\* Closing a connection forgets its deadline and no other.
LEMMA CloseFacts ==
  ASSUME conns \in [Conn -> Connection], NEW c \in Conn, Close(c)
  PROVE  /\ conns' \in [Conn -> Connection]
         /\ ~ conns'[c].open
         /\ \A d \in Conn : d # c => conns'[d] = conns[d]
<1>1. conns' = [conns EXCEPT ![c] = [conns[c] EXCEPT !.open = FALSE]]
  BY DEF Close
<1>2. ASSUME NEW r \in Connection
      PROVE  [r EXCEPT !.open = FALSE] \in Connection /\ ~ [r EXCEPT !.open = FALSE].open
  BY DEF Connection
<1>3. conns[c] \in Connection
  OBVIOUS
<1>. QED
  BY <1>1, <1>2, <1>3

\* The heap that a deadline is added to holds the entries of the other deadlines:
\* then the next one holds those of all.
LEMMA ScheduleFacts ==
  ASSUME TimersAssumption, Shape, NEW h \in Seq(Entry), Ordered(h),
         NEW c \in Conn, NEW due \in Deadlines, Schedule(h, c, due),
         \A d \in Conn : (d # c /\ Live(d)) => Found(h, d),
         \A d \in Conn : (d # c /\ Live(d)) => now <= conns[d].due
  PROVE  /\ conns' \in [Conn -> Connection]
         /\ heap' \in Seq(Entry)
         /\ Ordered(heap')
         /\ \A d \in Conn : Live(d)' => Found(heap, d)'
         /\ \A d \in Conn : Live(d)' => now <= conns'[d].due
<1> DEFINE next == conns[c].generation + (IF due = NoDue THEN 0 ELSE 1)
           r == [open |-> TRUE, due |-> due, generation |-> next]
           e == [due |-> due, conn |-> c, generation |-> next]
<1>1. /\ now \in Nat /\ conns \in [Conn -> Connection]
      /\ conns[c].generation \in Nat
  BY DEF Shape, Connection
<1>2. next \in Nat
  BY <1>1
<1>3. due = NoDue \/ (due \in Nat /\ now <= due /\ due # NoDue)
  BY <1>1 DEF Deadlines, TimersAssumption, NoDue
<1>4. conns' = [conns EXCEPT ![c] = r] /\ heap' = IF due = NoDue THEN h ELSE Push(h, e)
  BY DEF Schedule
<1> HIDE DEF next
<1>5. r \in Connection
  BY <1>2, <1>3 DEF Connection
<1>6. /\ conns' \in [Conn -> Connection] /\ conns'[c] = r
      /\ \A d \in Conn : d # c => conns'[d] = conns[d]
  BY <1>1, <1>4, <1>5
<1>7. r.open = TRUE /\ r.due = due /\ r.generation = next
  OBVIOUS
<1>8. e.conn = c /\ e.due = due /\ e.generation = next
  OBVIOUS
<1>9. due # NoDue => e \in Entry
  BY <1>2, <1>3 DEF Entry
<1> HIDE DEF r, e
<1>10. /\ heap' \in Seq(Entry) /\ Ordered(heap')
       /\ \A x \in Range(h) : x \in Range(heap')
       /\ due # NoDue => e \in Range(heap')
  <2>1. CASE due = NoDue
    BY <1>4, <2>1
  <2>2. CASE due # NoDue
    <3>1. /\ Push(h, e) \in Seq(Entry) /\ Ordered(Push(h, e))
          /\ Range(Push(h, e)) = Range(h) \cup {e}
      BY <1>9, <2>2, PushFacts
    <3>. QED
      BY <1>4, <2>2, <3>1
  <2>. QED
    BY <2>1, <2>2
<1>11. ASSUME NEW d \in Conn, d # c, Live(d)' PROVE Found(heap, d)' /\ now <= conns'[d].due
  <2>1. conns'[d] = conns[d]
    BY <1>6, <1>11
  <2>2. Live(d)
    BY <1>11, <2>1 DEF Live
  <2>3. PICK x \in Range(h) : x.conn = d /\ Counts(x)
    BY <1>11, <2>2 DEF Found
  <2>4. Counts(x)'
    BY <2>1, <2>3 DEF Counts
  <2>5. Found(heap, d)'
    BY <1>10, <2>3, <2>4 DEF Found
  <2>. QED
    BY <1>11, <2>1, <2>2, <2>5
<1>12. ASSUME Live(c)' PROVE Found(heap, c)' /\ now <= conns'[c].due
  <2>1. due # NoDue
    BY <1>6, <1>7, <1>12 DEF Live
  <2>2. PICK x \in Range(heap') : x.conn = c /\ x.due = due /\ x.generation = next
    BY <1>8, <1>10, <2>1
  <2>3. Counts(x)'
    BY <1>6, <1>7, <2>2 DEF Counts
  <2>4. Found(heap, c)'
    BY <2>2, <2>3 DEF Found
  <2>. QED
    BY <1>3, <1>6, <1>7, <2>1, <2>4
<1>. QED
  BY <1>6, <1>10, <1>11, <1>12

\* Nothing waits at first.
LEMMA TimersInvInit == TimersInit => TimersInv
<1>. SUFFICES ASSUME TimersInit PROVE TimersInv
  OBVIOUS
<1>1. heap = <<>> /\ <<>> \in Seq(Entry) /\ Len(<<>>) = 0
  BY EmptySeq DEF TimersInit
<1>2. Ordered(heap)
  BY <1>1 DEF Ordered
<1>3. \A c \in Conn : conns[c] = [open |-> FALSE, due |-> NoDue, generation |-> 0]
  BY DEF TimersInit
<1>4. \A c \in Conn : ~ Live(c)
  BY <1>3 DEF Live
<1>5. [open |-> FALSE, due |-> NoDue, generation |-> 0] \in Connection
  BY DEF Connection
<1>6. Shape
  BY <1>1, <1>5 DEF TimersInit, Shape, Running
<1>. QED
  BY <1>2, <1>4, <1>6 DEF TimersInv, TimersInit

\* A connection is accepted, or what happens to it moves its deadline.
LEMMA ScheduleKeeps ==
  ASSUME TimersAssumption, TimersInv, NEW c \in Conn, NEW due \in Deadlines,
         Schedule(heap, c, due), wake = Running, UNCHANGED <<now, wake>>
  PROVE  TimersInv'
<1>1. /\ Shape /\ heap \in Seq(Entry) /\ Ordered(heap)
      /\ \A d \in Conn : Live(d) => Found(heap, d)
      /\ \A d \in Conn : Live(d) => now <= conns[d].due
  BY DEF TimersInv, Shape
<1>2. /\ conns' \in [Conn -> Connection] /\ heap' \in Seq(Entry) /\ Ordered(heap')
      /\ \A d \in Conn : Live(d)' => Found(heap, d)'
      /\ \A d \in Conn : Live(d)' => now <= conns'[d].due
  BY <1>1, ScheduleFacts
<1>3. Shape'
  BY <1>1, <1>2 DEF Shape
<1>. QED
  BY <1>2, <1>3 DEF TimersInv

\* A connection is closed before its deadline: its entries stay.
LEMMA LeaveKeeps ==
  ASSUME TimersInv, NEW c \in Conn, Leave(c)
  PROVE  TimersInv'
<1>1. /\ Shape /\ conns \in [Conn -> Connection] /\ wake = Running
      /\ Close(c) /\ UNCHANGED <<now, heap, wake>>
  BY DEF TimersInv, Shape, Leave
<1>2. /\ conns' \in [Conn -> Connection] /\ ~ conns'[c].open
      /\ \A d \in Conn : d # c => conns'[d] = conns[d]
  BY <1>1, CloseFacts
<1>3. ASSUME NEW d \in Conn, Live(d)' PROVE Found(heap, d)' /\ now' <= conns'[d].due
  <2>1. d # c
    BY <1>2, <1>3 DEF Live
  <2>2. conns'[d] = conns[d]
    BY <1>2, <2>1
  <2>3. Live(d)
    BY <1>3, <2>2 DEF Live
  <2>4. PICK e \in Range(heap) : e.conn = d /\ Counts(e)
    BY <2>3 DEF TimersInv, Found
  <2>5. Counts(e)' /\ heap' = heap
    BY <1>1, <2>2, <2>4 DEF Counts
  <2>6. Found(heap, d)'
    BY <2>4, <2>5 DEF Found
  <2>7. now <= conns[d].due
    BY <2>3 DEF TimersInv
  <2>. QED
    BY <1>1, <2>2, <2>6, <2>7
<1>4. Shape'
  BY <1>1, <1>2 DEF Shape
<1>5. Ordered(heap)'
  BY <1>1 DEF TimersInv
<1>. QED
  BY <1>1, <1>3, <1>4, <1>5 DEF TimersInv

\* The first deadline has come: its connection is closed, or given another.
LEMMA ExpireKeeps ==
  ASSUME TimersAssumption, TimersInv, Expire
  PROVE  TimersInv'
<1> DEFINE k == Peeked(heap)
           c == k[1].conn
           rest == Pop(k)
<1>1. /\ Shape /\ heap \in Seq(Entry) /\ Ordered(heap) /\ conns \in [Conn -> Connection]
      /\ \A d \in Conn : Live(d) => Found(heap, d)
      /\ \A d \in Conn : Live(d) => now <= conns[d].due
  BY DEF TimersInv, Shape
<1>2. /\ wake = Running /\ UNCHANGED <<now, wake>> /\ k # <<>>
      /\ \/ Close(c) /\ heap' = rest
         \/ \E due \in Deadlines \ {NoDue} : Schedule(rest, c, due)
  BY DEF Expire, Overdue
<1>3. /\ k \in Seq(Entry) /\ Ordered(k) /\ k[1] \in Entry
      /\ \A d \in Conn : Live(d) => Found(k, d)
  BY <1>1, <1>2, PeekedRoot
<1> HIDE DEF k
<1>4. /\ rest \in Seq(Entry) /\ Ordered(rest)
      /\ \A e \in Range(k) : e # k[1] => e \in Range(rest)
  BY <1>2, <1>3, PopFacts
<1>5. c \in Conn
  BY <1>3 DEF Entry
<1>6. ASSUME NEW d \in Conn, d # c, Live(d)
      PROVE  \E e \in Range(rest) : e.conn = d /\ Counts(e)
  <2>1. PICK e \in Range(k) : e.conn = d /\ Counts(e)
    BY <1>3, <1>6 DEF Found
  <2>2. e # k[1]
    BY <1>6, <2>1
  <2>. QED
    BY <1>4, <2>1, <2>2
<1> HIDE DEF rest, c
<1>7. CASE Close(c) /\ heap' = rest
  <2>1. /\ conns' \in [Conn -> Connection] /\ ~ conns'[c].open
        /\ \A d \in Conn : d # c => conns'[d] = conns[d]
    BY <1>1, <1>5, <1>7, CloseFacts
  <2>2. ASSUME NEW d \in Conn, Live(d)' PROVE Found(heap, d)' /\ now' <= conns'[d].due
    <3>1. d # c
      BY <2>1, <2>2 DEF Live
    <3>2. conns'[d] = conns[d]
      BY <2>1, <3>1
    <3>3. Live(d)
      BY <2>2, <3>2 DEF Live
    <3>4. PICK e \in Range(rest) : e.conn = d /\ Counts(e)
      BY <1>6, <3>1, <3>3
    <3>5. Counts(e)'
      BY <3>2, <3>4 DEF Counts
    <3>6. Found(heap, d)'
      BY <1>7, <3>4, <3>5 DEF Found
    <3>. QED
      BY <1>1, <1>2, <3>2, <3>3, <3>6
  <2>3. Shape' /\ Ordered(heap)'
    BY <1>1, <1>2, <1>4, <1>7, <2>1 DEF Shape
  <2>. QED
    BY <1>2, <2>2, <2>3 DEF TimersInv
<1>8. ASSUME NEW due \in Deadlines, Schedule(rest, c, due) PROVE TimersInv'
  <2>1. \A d \in Conn : (d # c /\ Live(d)) => Found(rest, d)
    BY <1>6 DEF Found
  <2>2. \A d \in Conn : (d # c /\ Live(d)) => now <= conns[d].due
    BY <1>1
  <2>3. /\ conns' \in [Conn -> Connection] /\ heap' \in Seq(Entry) /\ Ordered(heap')
        /\ \A d \in Conn : Live(d)' => Found(heap, d)'
        /\ \A d \in Conn : Live(d)' => now <= conns'[d].due
    BY <1>1, <1>4, <1>5, <1>8, <2>1, <2>2, ScheduleFacts
  <2>4. Shape'
    BY <1>1, <1>2, <2>3 DEF Shape
  <2>. QED
    BY <1>2, <2>3, <2>4 DEF TimersInv
<1>. QED
  BY <1>2, <1>7, <1>8

\* The worker waits for events until its first deadline at most.
LEMMA WaitKeeps ==
  ASSUME TimersAssumption, TimersInv, Wait
  PROVE  TimersInv'
<1> DEFINE k == Peeked(heap)
           W == {now + PollTimeout, k[1].due}
<1>1. /\ Shape /\ heap \in Seq(Entry) /\ Ordered(heap)
      /\ \A d \in Conn : Live(d) => Found(heap, d)
      /\ \A d \in Conn : Live(d) => now <= conns[d].due
      /\ now \in Nat /\ PollTimeout \in Nat
      /\ \A d \in Conn : Live(d) => conns[d].due \in Nat
  BY DEF TimersInv, Shape, Connection, Live, TimersAssumption
<1>2. /\ heap' = k /\ UNCHANGED <<now, conns>>
      /\ wake' = IF k = <<>> THEN now + PollTimeout ELSE Min(W)
  BY DEF Wait
<1>3. /\ k \in Seq(Entry) /\ Ordered(k)
      /\ \A d \in Conn : Live(d) => Found(k, d)
      /\ k # <<>> => /\ k[1] \in Entry
                     /\ \A d \in Conn : Live(d) => k[1].due <= conns[d].due
      /\ k = <<>> => \A d \in Conn : ~ Live(d)
  BY <1>1, PeekedRoot
<1> HIDE DEF k
<1>4. wake' \in Nat /\ \A d \in Conn : Live(d) => wake' <= conns[d].due
  <2>1. CASE k = <<>>
    BY <1>1, <1>2, <1>3, <2>1
  <2>2. CASE k # <<>>
    <3>1. k[1].due \in Nat
      BY <1>3, <2>2 DEF Entry
    <3>2. \E x \in W : \A y \in W : x <= y
      BY <1>1, <3>1
    <3>3. Min(W) \in W /\ \A y \in W : Min(W) <= y
      BY <3>2 DEF Min
    <3>4. wake' \in Nat /\ wake' <= k[1].due
      BY <1>1, <1>2, <2>2, <3>1, <3>3
    <3>. QED
      BY <1>1, <1>3, <2>2, <3>1, <3>4
  <2>. QED
    BY <2>1, <2>2
<1>5. \A d \in Conn : (Live(d)' <=> Live(d)) /\ (Found(heap, d)' <=> Found(k, d))
  BY <1>2 DEF Live, Found, Counts
<1>6. Shape'
  BY <1>1, <1>2, <1>3, <1>4 DEF Shape
<1>7. \A d \in Conn : Live(d)' => Found(heap, d)' /\ now' <= conns'[d].due
  BY <1>1, <1>2, <1>3, <1>5
<1>8. \A d \in Conn : Live(d)' => wake' <= conns'[d].due
  BY <1>2, <1>4, <1>5
<1>9. Ordered(heap)'
  BY <1>2, <1>3
<1>. QED
  BY <1>6, <1>7, <1>8, <1>9 DEF TimersInv

\* The clock moves, or the worker runs again, and no deadline is passed over.
LEMMA TimeKeeps ==
  ASSUME TimersInv, Wake \/ Tick
  PROVE  TimersInv'
<1>1. /\ Shape /\ Ordered(heap) /\ now \in Nat /\ wake \in Nat \cup {Running}
      /\ \A d \in Conn : Live(d) => Found(heap, d)
      /\ \A d \in Conn : Live(d) => now <= conns[d].due
      /\ wake # Running => \A d \in Conn : Live(d) => wake <= conns[d].due
  BY DEF TimersInv, Shape
<1>2. heap' = heap /\ conns' = conns /\ wake # Running
  BY DEF Wake, Tick
<1>3. \A d \in Conn : (Live(d)' <=> Live(d)) /\ (Found(heap, d)' <=> Found(heap, d))
  BY <1>2 DEF Live, Found, Counts
<1>4. \A d \in Conn : Live(d) => conns[d].due \in Nat
  BY <1>1 DEF Shape, Connection, Live
<1>5. CASE Wake
  <2>1. now' = now /\ wake' = Running
    BY <1>5 DEF Wake
  <2>2. Shape'
    BY <1>1, <1>2, <2>1 DEF Shape
  <2>. QED
    BY <1>1, <1>2, <1>3, <2>1, <2>2 DEF TimersInv
<1>6. CASE Tick
  <2>1. now' = now + 1 /\ wake' = wake /\ now < wake
    BY <1>6 DEF Tick
  <2>2. Shape'
    BY <1>1, <1>2, <2>1 DEF Shape
  <2>3. \A d \in Conn : Live(d) => now' <= conns[d].due
    BY <1>1, <1>2, <1>4, <2>1
  <2>. QED
    BY <1>1, <1>2, <1>3, <2>1, <2>2, <2>3 DEF TimersInv
<1>. QED
  BY <1>5, <1>6

\* The invariant is kept by every step.
LEMMA TimersInvNext ==
  ASSUME TimersAssumption, TimersInv, [TimersNext]_timerVars
  PROVE  TimersInv'
<1>1. ASSUME NEW c \in Conn, Accept(c) PROVE TimersInv'
  BY <1>1, ScheduleKeeps DEF Accept
<1>2. ASSUME NEW c \in Conn, Activity(c) PROVE TimersInv'
  BY <1>2, ScheduleKeeps DEF Activity
<1>3. ASSUME NEW c \in Conn, Leave(c) PROVE TimersInv'
  BY <1>3, LeaveKeeps
<1>4. CASE Expire
  BY <1>4, ExpireKeeps
<1>5. CASE Wait
  BY <1>5, WaitKeeps
<1>6. CASE Wake \/ Tick
  BY <1>6, TimeKeeps
<1>7. CASE UNCHANGED timerVars
  BY <1>7 DEF TimersInv, Shape, Live, Found, Counts, timerVars
<1>. QED
  BY <1>1, <1>2, <1>3, <1>4, <1>5, <1>6, <1>7 DEF TimersNext

\* However many connections, deadlines and entries there are: every deadline of
\* an open connection has its entry in the heap, none passes while the worker
\* waits for events, and peeking finds one of the earliest.
THEOREM TimersAreOrdered == TimersSpec => []TimersOrdered
<1>1. TimersInit => TimersInv
  BY TimersInvInit
<1>2. TimersInv /\ [TimersNext]_timerVars => TimersInv'
  BY TimersAssumption, TimersInvNext
<1>3. TimersInv => TimersOrdered
  BY TimersImplied
<1>. QED
  BY <1>1, <1>2, <1>3, PTL DEF TimersSpec

-----------------------------------------------------------------------------
(* The translator.                                                          *)

Directions == {l.direction : l \in Languages} \cup {DefaultDirection}
LanguageEntry == [code : Codes, direction : Directions]

\* What a member of a group says of the group's text.
Item(g, m) == [name |-> g.name, value |-> m.value]

\* What the groups of a file may say of their texts.
GroupItems(f) == {Item(g, m) : g \in Pairs(f), m \in UNION {Pairs(x.value) : x \in Pairs(f)}}
ValidFiles == {f \in GroupFiles : GroupsValid(f)}
Items == (UNION {Pairs(t) : t \in Tables}) \cup (UNION {GroupItems(f) : f \in ValidFiles})
TableEntry == [code : Codes, items : Seq(Items)]

\* There is one entry for each code.
OneEach(entries) == \A i, j \in 1 .. Len(entries) : entries[i].code = entries[j].code => i = j

\* What the tables say in the language with that code.
PairsIn(tables, code) ==
  IF Find(tables, code) = 0 THEN {} ELSE Pairs(tables[Find(tables, code)].items)

TableLists == {ts \in Seq(TableEntry) : OneEach(ts)}

\* Translators with one entry for each language, and with tables of languages
\* that can be chosen.
Sounds ==
  {t \in [languages : Seq(LanguageEntry), current : Nat, translations : TableLists] :
     /\ OneEach(t.languages)
     /\ \A i \in 1 .. Len(t.translations) : Find(t.languages, t.translations[i].code) # 0}

\* The language chosen is the current one.
Speaks(t, code) == t.current \in 1 .. Len(t.languages) /\ t.languages[t.current].code = code

-----------------------------------------------------------------------------
\* Find returns 0, or where an entry with the code is.
LEMMA FindFacts ==
  ASSUME NEW S, NEW s \in Seq(S), NEW code
  PROVE  \/ Find(s, code) = 0 /\ \A i \in 1 .. Len(s) : s[i].code # code
         \/ Find(s, code) \in 1 .. Len(s) /\ s[Find(s, code)].code = code
<1> DEFINE at == {i \in DOMAIN s : s[i].code = code}
<1>1. Len(s) \in Nat /\ DOMAIN s = 1 .. Len(s)
  BY LenProperties
<1>2. Find(s, code) = IF at = {} THEN 0 ELSE Min(at)
  BY DEF Find
<1>3. CASE at = {}
  BY <1>1, <1>2, <1>3
<1>4. CASE at # {}
  <2>1. at \subseteq Nat
    BY <1>1
  <2>2. \A i \in at : i \in 1 .. Len(s) /\ s[i].code = code
    BY <1>1
  <2> HIDE DEF at
  <2>3. \E n \in at : \A m \in at : n <= m
    BY <1>4, <2>1, NatMinimum
  <2>4. Min(at) \in at
    BY <2>3 DEF Min
  <2>. QED
    BY <1>2, <1>4, <2>2, <2>4
<1>. QED
  BY <1>3, <1>4

\* With one entry for each code, Find returns the entry there is.
LEMMA FindIs ==
  ASSUME NEW S, NEW s \in Seq(S), OneEach(s), NEW i \in 1 .. Len(s)
  PROVE  Find(s, s[i].code) = i
<1>1. \/ Find(s, s[i].code) = 0 /\ \A k \in 1 .. Len(s) : s[k].code # s[i].code
      \/ Find(s, s[i].code) \in 1 .. Len(s) /\ s[Find(s, s[i].code)].code = s[i].code
  BY FindFacts
<1>. QED
  BY <1>1 DEF OneEach

\* Find and 0, by what the entries' codes are.
LEMMA FindNone ==
  ASSUME NEW S, NEW s \in Seq(S), NEW code
  PROVE  Find(s, code) # 0 <=> \E i \in 1 .. Len(s) : s[i].code = code
<1>1. \/ Find(s, code) = 0 /\ \A i \in 1 .. Len(s) : s[i].code # code
      \/ Find(s, code) \in 1 .. Len(s) /\ s[Find(s, code)].code = code
  BY FindFacts
<1>2. Len(s) \in Nat
  BY LenProperties
<1>. QED
  BY <1>1, <1>2

\* An entry at the end, with a code that is new.
LEMMA AppendEntry ==
  ASSUME NEW S, NEW s \in Seq(S), OneEach(s), NEW e \in S, Find(s, e.code) = 0
  PROVE  /\ Append(s, e) \in Seq(S) /\ OneEach(Append(s, e))
         /\ Len(Append(s, e)) = Len(s) + 1 /\ Append(s, e)[Len(s) + 1] = e
         /\ \A i \in 1 .. Len(s) : Append(s, e)[i] = s[i]
         /\ \A code : Find(Append(s, e), code) = IF code = e.code THEN Len(s) + 1 ELSE Find(s, code)
<1> DEFINE a == Append(s, e)
<1>1. /\ Len(s) \in Nat /\ a \in Seq(S) /\ Len(a) = Len(s) + 1 /\ a[Len(s) + 1] = e
      /\ \A i \in 1 .. Len(s) : a[i] = s[i]
  BY AppendProperties, LenProperties
<1> HIDE DEF a
<1>2. \A i \in 1 .. Len(s) : s[i].code # e.code
  BY FindNone
<1>3. \A i \in 1 .. Len(a) : i = Len(s) + 1 \/ i \in 1 .. Len(s)
  BY <1>1
<1>4. \A i, j \in 1 .. Len(s) : s[i].code = s[j].code => i = j
  BY DEF OneEach
<1>5. OneEach(a)
  <2>1. ASSUME NEW i \in 1 .. Len(a), NEW j \in 1 .. Len(a), a[i].code = a[j].code PROVE i = j
    BY <1>1, <1>2, <1>3, <1>4, <2>1
  <2>. QED
    BY <2>1 DEF OneEach
<1>6. ASSUME NEW code
      PROVE  Find(a, code) = IF code = e.code THEN Len(s) + 1 ELSE Find(s, code)
  <2>1. \A i \in 1 .. Len(a) : Find(a, a[i].code) = i
    BY <1>1, <1>5, FindIs
  <2>2. CASE code = e.code
    BY <1>1, <2>1, <2>2
  <2>3. CASE code # e.code /\ Find(s, code) = 0
    <3>1. \A i \in 1 .. Len(s) : s[i].code # code
      BY <2>3, FindNone
    <3>2. \A i \in 1 .. Len(a) : a[i].code # code
      BY <1>1, <1>3, <2>3, <3>1
    <3>3. Find(a, code) = 0
      BY <1>1, <3>2, FindNone
    <3>. QED
      BY <2>3, <3>3
  <2>4. CASE code # e.code /\ Find(s, code) # 0
    <3>1. Find(s, code) \in 1 .. Len(s) /\ s[Find(s, code)].code = code
      BY <2>4, FindFacts
    <3>2. Find(s, code) \in 1 .. Len(a) /\ a[Find(s, code)].code = code
      BY <1>1, <3>1
    <3>. QED
      BY <2>1, <2>4, <3>2
  <2>. QED
    BY <2>2, <2>3, <2>4
<1>. QED
  BY <1>1, <1>5, <1>6 DEF a

\* An entry in the place of the one with its code.
Replaced(s, e) == [s EXCEPT ![Find(s, e.code)] = e]

\* There is still one entry for each code, where it was.
LEMMA ReplaceEntry ==
  ASSUME NEW S, NEW s \in Seq(S), OneEach(s), NEW e \in S, Find(s, e.code) # 0
  PROVE  /\ Replaced(s, e) \in Seq(S) /\ OneEach(Replaced(s, e)) /\ Len(Replaced(s, e)) = Len(s)
         /\ Replaced(s, e)[Find(s, e.code)] = e
         /\ \A i \in 1 .. Len(s) :
              Replaced(s, e)[i].code = s[i].code /\ (i # Find(s, e.code) => Replaced(s, e)[i] = s[i])
         /\ \A code : Find(Replaced(s, e), code) = Find(s, code)
<1> DEFINE at == Find(s, e.code)
           r == Replaced(s, e)
<1>1. at \in 1 .. Len(s) /\ s[at].code = e.code
  BY FindFacts
<1>2. /\ r \in Seq(S) /\ Len(r) = Len(s)
      /\ \A i \in 1 .. Len(s) : r[i] = IF i = at THEN e ELSE s[i]
  BY <1>1, ExceptSeq DEF Replaced
<1> HIDE DEF r, at
<1>3. \A i \in 1 .. Len(s) : r[i].code = s[i].code
  BY <1>1, <1>2
<1>4. OneEach(r)
  <2>1. ASSUME NEW i \in 1 .. Len(r), NEW j \in 1 .. Len(r), r[i].code = r[j].code PROVE i = j
    BY <1>2, <1>3, <2>1 DEF OneEach
  <2>. QED
    BY <2>1 DEF OneEach
<1>5. ASSUME NEW code PROVE Find(r, code) = Find(s, code)
  <2>1. CASE Find(s, code) = 0
    <3>1. \A i \in 1 .. Len(s) : s[i].code # code
      BY <2>1, FindNone
    <3>2. \A i \in 1 .. Len(r) : r[i].code # code
      BY <1>2, <1>3, <3>1
    <3>. QED
      BY <1>2, <2>1, <3>2, FindNone
  <2>2. CASE Find(s, code) # 0
    <3>1. Find(s, code) \in 1 .. Len(s) /\ s[Find(s, code)].code = code
      BY <2>2, FindFacts
    <3>2. Find(s, code) \in 1 .. Len(r) /\ r[Find(s, code)].code = code
      BY <1>2, <1>3, <3>1
    <3>. QED
      BY <1>2, <1>4, <3>2, FindIs
  <2>. QED
    BY <2>1, <2>2
<1>. QED
  BY <1>1, <1>2, <1>3, <1>4, <1>5 DEF r, at

-----------------------------------------------------------------------------
\* A translator, changed in its languages or in its tables.
LEMMA ChangedParts ==
  ASSUME NEW L, NEW T, NEW t \in [languages : L, current : Nat, translations : T],
         NEW x, NEW n, NEW i
  PROVE  /\ [t EXCEPT !.languages = x, !.current = n]
               = [languages |-> x, current |-> n, translations |-> t.translations]
         /\ [t EXCEPT !.languages[i] = x]
               = [languages |-> [t.languages EXCEPT ![i] = x], current |-> t.current,
                  translations |-> t.translations]
         /\ [t EXCEPT !.translations = x]
               = [languages |-> t.languages, current |-> t.current, translations |-> x]
         /\ [t EXCEPT !.translations[i] = x]
               = [languages |-> t.languages, current |-> t.current,
                  translations |-> [t.translations EXCEPT ![i] = x]]
<1>1. t = [languages |-> t.languages, current |-> t.current, translations |-> t.translations]
  OBVIOUS
<1>2. [t EXCEPT !.languages = x, !.current = n]
        = [languages |-> x, current |-> n, translations |-> t.translations]
  <2> DEFINE s == [languages |-> x, current |-> t.current, translations |-> t.translations]
  <2>1. [t EXCEPT !.languages = x] = s
    BY <1>1
  <2>2. [s EXCEPT !.current = n]
          = [languages |-> x, current |-> n, translations |-> t.translations]
    OBVIOUS
  <2>3. [t EXCEPT !.languages = x, !.current = n]
          = [[t EXCEPT !.languages = x] EXCEPT !.current = n]
    OBVIOUS
  <2>. QED
    BY <2>1, <2>2, <2>3
<1>3. ASSUME NEW y
      PROVE  [t EXCEPT !.languages = y]
               = [languages |-> y, current |-> t.current, translations |-> t.translations]
  BY <1>1
<1>4. ASSUME NEW y
      PROVE  [t EXCEPT !.translations = y]
               = [languages |-> t.languages, current |-> t.current, translations |-> y]
  BY <1>1
<1>5. [t EXCEPT !.languages[i] = x] = [t EXCEPT !.languages = [t.languages EXCEPT ![i] = x]]
  OBVIOUS
<1>6. [t EXCEPT !.translations[i] = x] = [t EXCEPT !.translations = [t.translations EXCEPT ![i] = x]]
  OBVIOUS
<1>. QED
  BY <1>2, <1>3, <1>4, <1>5, <1>6

\* What a sound translator is made of.
LEMMA SoundParts ==
  ASSUME NEW t \in Sounds
  PROVE  /\ t \in [languages : Seq(LanguageEntry), current : Nat, translations : TableLists]
         /\ t.languages \in Seq(LanguageEntry) /\ OneEach(t.languages)
         /\ t.current \in Nat
         /\ t.translations \in TableLists
         /\ t.translations \in Seq(TableEntry) /\ OneEach(t.translations)
         /\ \A i \in 1 .. Len(t.translations) : Find(t.languages, t.translations[i].code) # 0
BY DEF Sounds, TableLists

\* What makes a translator sound.
LEMMA SoundFrom ==
  ASSUME NEW L \in Seq(LanguageEntry), OneEach(L), NEW n \in Nat,
         NEW T \in Seq(TableEntry), OneEach(T),
         \A i \in 1 .. Len(T) : Find(L, T[i].code) # 0
  PROVE  [languages |-> L, current |-> n, translations |-> T] \in Sounds
BY DEF Sounds, TableLists

\* sw_translator_upsert_registered_language: the language can be chosen, each that
\* could be still can, and the current language stays; the first becomes current.
LEMMA UpsertFacts ==
  ASSUME NEW t \in Sounds, NEW l \in LanguageEntry
  PROVE  /\ Upsert(t, l) \in Sounds
         /\ Upsert(t, l).translations = t.translations
         /\ \A c : Find(t.languages, c) # 0 => Find(Upsert(t, l).languages, c) # 0
         /\ Find(Upsert(t, l).languages, l.code) # 0
         /\ \A c : Speaks(t, c) => Speaks(Upsert(t, l), c)
         /\ t.current = 0 /\ t.languages = <<>> => Speaks(Upsert(t, l), l.code)
<1> DEFINE L == t.languages
           at == Find(L, l.code)
           u == Upsert(t, l)
<1>1. /\ t \in [languages : Seq(LanguageEntry), current : Nat, translations : TableLists]
      /\ L \in Seq(LanguageEntry) /\ OneEach(L) /\ t.current \in Nat
      /\ t.translations \in Seq(TableEntry) /\ OneEach(t.translations)
      /\ \A i \in 1 .. Len(t.translations) : Find(L, t.translations[i].code) # 0
  BY SoundParts
<1>2. Len(L) \in Nat
  BY <1>1, LenProperties
<1>3. CASE at # 0
  <2> DEFINE r == Replaced(L, l)
  <2>1. u = [t EXCEPT !.languages[at] = l]
    BY <1>3 DEF Upsert
  <2>2. u = [languages |-> r, current |-> t.current, translations |-> t.translations]
    BY <1>1, <2>1, ChangedParts DEF Replaced
  <2>3. /\ r \in Seq(LanguageEntry) /\ OneEach(r) /\ Len(r) = Len(L)
        /\ \A i \in 1 .. Len(L) : r[i].code = L[i].code
        /\ \A c : Find(r, c) = Find(L, c)
    BY <1>1, <1>3, ReplaceEntry
  <2>4. at \in 1 .. Len(L)
    BY <1>1, <1>3, FindFacts
  <2> HIDE DEF u, r
  <2>5. u \in Sounds
    BY <1>1, <2>2, <2>3, SoundFrom
  <2>6. u.languages = r /\ u.current = t.current /\ u.translations = t.translations
    BY <2>2
  <2>7. \A c : Speaks(t, c) => Speaks(u, c)
    BY <2>3, <2>6 DEF Speaks
  <2>8. L # <<>>
    BY <1>2, <2>4, EmptySeq
  <2>. QED
    BY <1>3, <2>3, <2>5, <2>6, <2>7, <2>8 DEF u
<1>4. CASE at = 0
  <2> DEFINE r == Append(L, l)
             n == IF t.current = 0 THEN Len(L) + 1 ELSE t.current
  <2>1. u = [t EXCEPT !.languages = r, !.current = n]
    BY <1>1, <1>4 DEF Upsert
  <2>2. u = [languages |-> r, current |-> n, translations |-> t.translations]
    BY <1>1, <2>1, ChangedParts
  <2>3. /\ r \in Seq(LanguageEntry) /\ OneEach(r) /\ Len(r) = Len(L) + 1 /\ r[Len(L) + 1] = l
        /\ \A i \in 1 .. Len(L) : r[i] = L[i]
        /\ \A c : Find(r, c) = IF c = l.code THEN Len(L) + 1 ELSE Find(L, c)
    BY <1>1, <1>4, AppendEntry
  <2>4. n \in Nat
    BY <1>1, <1>2
  <2> HIDE DEF r
  <2>5. \A c : Find(L, c) # 0 => Find(r, c) # 0
    BY <1>2, <2>3
  <2>6. \A i \in 1 .. Len(t.translations) : Find(r, t.translations[i].code) # 0
    BY <1>1, <2>5
  <2> HIDE DEF u
  <2>7. u \in Sounds
    BY <1>1, <2>2, <2>3, <2>4, <2>6, SoundFrom
  <2>8. u.languages = r /\ u.current = n /\ u.translations = t.translations
    BY <2>2
  <2>9. ASSUME NEW c, Speaks(t, c) PROVE Speaks(u, c)
    <3>1. t.current \in 1 .. Len(L) /\ L[t.current].code = c
      BY <2>9 DEF Speaks
    <3>2. n = t.current /\ n \in 1 .. Len(r) /\ r[n] = L[n]
      BY <1>2, <2>3, <3>1
    <3>. QED
      BY <2>8, <3>1, <3>2 DEF Speaks
  <2>10. ASSUME t.current = 0 PROVE Speaks(u, l.code)
    <3>1. n = Len(L) + 1 /\ n \in 1 .. Len(r) /\ r[n] = l
      BY <1>2, <2>3, <2>10
    <3>. QED
      BY <2>8, <3>1 DEF Speaks
  <2>11. Find(r, l.code) # 0
    BY <1>2, <2>3
  <2>. QED
    BY <2>5, <2>7, <2>8, <2>9, <2>10, <2>11 DEF u
<1>. QED
  BY <1>3, <1>4

\* sw_translator_ensure_registered_language
LEMMA EnsureFacts ==
  ASSUME NEW t \in Sounds, NEW code \in Codes
  PROVE  /\ EnsureRegistered(t, code) \in Sounds
         /\ EnsureRegistered(t, code).translations = t.translations
         /\ \A c : Find(t.languages, c) # 0 => Find(EnsureRegistered(t, code).languages, c) # 0
         /\ Find(EnsureRegistered(t, code).languages, code) # 0
         /\ \A c : Speaks(t, c) => Speaks(EnsureRegistered(t, code), c)
<1> DEFINE l == [code |-> code, direction |-> DefaultDirection]
<1>1. CASE Find(t.languages, code) # 0
  BY <1>1 DEF EnsureRegistered
<1>2. CASE Find(t.languages, code) = 0
  <2>1. EnsureRegistered(t, code) = Upsert(t, l)
    BY <1>2 DEF EnsureRegistered
  <2>2. l \in LanguageEntry /\ l.code = code
    BY DEF LanguageEntry, Directions
  <2> HIDE DEF l
  <2>. QED
    BY <2>1, <2>2, UpsertFacts
<1>. QED
  BY <1>1, <1>2

\* A table in the place of the one with its code, or at the end.
Placed(T, table) ==
  IF Find(T, table.code) = 0 THEN Append(T, table) ELSE Replaced(T, table)

\* Where a list has the table that was placed, and the others.
LEMMA PlacedFinds ==
  ASSUME NEW T \in Seq(TableEntry), OneEach(T), NEW table \in TableEntry
  PROVE  /\ Placed(T, table) \in Seq(TableEntry) /\ OneEach(Placed(T, table))
         /\ \A i \in 1 .. Len(Placed(T, table)) :
              Placed(T, table)[i] = table \/ (i \in 1 .. Len(T) /\ Placed(T, table)[i] = T[i])
         /\ \A c : c = table.code =>
              Find(Placed(T, table), c) # 0 /\ Placed(T, table)[Find(Placed(T, table), c)] = table
         /\ \A c : c # table.code =>
              /\ Find(Placed(T, table), c) = Find(T, c)
              /\ Find(T, c) # 0 => Placed(T, table)[Find(T, c)] = T[Find(T, c)]
<1> DEFINE at == Find(T, table.code)
           q == Placed(T, table)
<1>1. Len(T) \in Nat
  BY LenProperties
<1>2. CASE at = 0
  <2>1. q = Append(T, table)
    BY <1>2 DEF Placed
  <2>2. /\ Append(T, table) \in Seq(TableEntry) /\ OneEach(Append(T, table))
        /\ Len(Append(T, table)) = Len(T) + 1 /\ Append(T, table)[Len(T) + 1] = table
        /\ \A i \in 1 .. Len(T) : Append(T, table)[i] = T[i]
        /\ \A c : Find(Append(T, table), c) = IF c = table.code THEN Len(T) + 1 ELSE Find(T, c)
    BY <1>2, AppendEntry
  <2>3. \A c : Find(T, c) # 0 => Find(T, c) \in 1 .. Len(T)
    BY FindFacts
  <2> HIDE DEF q
  <2>4. \A i \in 1 .. Len(q) : q[i] = table \/ (i \in 1 .. Len(T) /\ q[i] = T[i])
    BY <1>1, <2>1, <2>2
  <2>5. \A c : c = table.code => Find(q, c) # 0 /\ q[Find(q, c)] = table
    BY <1>1, <2>1, <2>2
  <2>6. \A c : c # table.code => Find(q, c) = Find(T, c) /\ (Find(T, c) # 0 => q[Find(T, c)] = T[Find(T, c)])
    BY <2>1, <2>2, <2>3
  <2>. QED
    BY <2>1, <2>2, <2>4, <2>5, <2>6 DEF q
<1>3. CASE at # 0
  <2> DEFINE p == Replaced(T, table)
  <2>1. q = p
    BY <1>3 DEF Placed
  <2>2. at \in 1 .. Len(T) /\ T[at].code = table.code
    BY <1>3, FindFacts
  <2>3. /\ p \in Seq(TableEntry) /\ OneEach(p) /\ Len(p) = Len(T) /\ p[at] = table
        /\ \A i \in 1 .. Len(T) : i # at => p[i] = T[i]
        /\ \A c : Find(p, c) = Find(T, c)
    BY <1>3, ReplaceEntry
  <2>4. \A c : Find(T, c) # 0 => Find(T, c) \in 1 .. Len(T) /\ T[Find(T, c)].code = c
    BY FindFacts
  <2> HIDE DEF p, q
  <2>5. \A i \in 1 .. Len(p) : p[i] = table \/ (i \in 1 .. Len(T) /\ p[i] = T[i])
    BY <2>3
  <2>6. \A c : c = table.code => Find(p, c) # 0 /\ p[Find(p, c)] = table
    BY <1>3, <2>3
  <2>7. \A c : c # table.code => Find(p, c) = Find(T, c) /\ (Find(T, c) # 0 => p[Find(T, c)] = T[Find(T, c)])
    BY <2>2, <2>3, <2>4
  <2>. QED
    BY <2>1, <2>3, <2>5, <2>6, <2>7 DEF q
<1>. QED
  BY <1>2, <1>3

\* What a list says when a table was placed.
LEMMA PlacedFacts ==
  ASSUME NEW T \in Seq(TableEntry), OneEach(T), NEW table \in TableEntry
  PROVE  /\ Placed(T, table) \in Seq(TableEntry) /\ OneEach(Placed(T, table))
         /\ \A i \in 1 .. Len(Placed(T, table)) :
              Placed(T, table)[i] = table \/ (i \in 1 .. Len(T) /\ Placed(T, table)[i] = T[i])
         /\ \A c : PairsIn(Placed(T, table), c)
                     = IF c = table.code THEN Pairs(table.items) ELSE PairsIn(T, c)
<1>1. ASSUME NEW c, c = table.code
      PROVE  PairsIn(Placed(T, table), c) = Pairs(table.items)
  <2>1. Find(Placed(T, table), c) # 0 /\ Placed(T, table)[Find(Placed(T, table), c)] = table
    BY <1>1, PlacedFinds
  <2>. QED
    BY <2>1 DEF PairsIn
<1>2. ASSUME NEW c, c # table.code
      PROVE  PairsIn(Placed(T, table), c) = PairsIn(T, c)
  <2>1. Find(Placed(T, table), c) = Find(T, c)
    BY <1>2, PlacedFinds
  <2>2. Find(T, c) # 0 => Placed(T, table)[Find(T, c)] = T[Find(T, c)]
    BY <1>2, PlacedFinds
  <2>3. CASE Find(T, c) = 0
    BY <2>1, <2>3 DEF PairsIn
  <2>4. CASE Find(T, c) # 0
    <3>1. PairsIn(Placed(T, table), c) = Pairs(Placed(T, table)[Find(T, c)].items)
      BY <2>1, <2>4 DEF PairsIn
    <3>2. PairsIn(T, c) = Pairs(T[Find(T, c)].items)
      BY <2>4 DEF PairsIn
    <3>. QED
      BY <2>2, <2>4, <3>1, <3>2
  <2>. QED
    BY <2>3, <2>4
<1>. QED
  BY <1>1, <1>2, PlacedFinds

\* sw_translator_store_language: the language now speaks the table, all of it and
\* nothing of an older one; the others speak theirs.
LEMMA StoreFacts ==
  ASSUME NEW t \in Sounds, NEW table \in TableEntry
  PROVE  /\ Store(t, table) \in Sounds
         /\ \A c : Find(t.languages, c) # 0 => Find(Store(t, table).languages, c) # 0
         /\ Find(Store(t, table).languages, table.code) # 0
         /\ \A c : Speaks(t, c) => Speaks(Store(t, table), c)
         /\ \A c : PairsIn(Store(t, table).translations, c)
                     = IF c = table.code THEN Pairs(table.items) ELSE PairsIn(t.translations, c)
<1> DEFINE r == EnsureRegistered(t, table.code)
           T == r.translations
           at == Find(T, table.code)
           u == Store(t, table)
<1>1. table.code \in Codes
  BY DEF TableEntry
<1>2. /\ r \in Sounds /\ T = t.translations
      /\ \A c : Find(t.languages, c) # 0 => Find(r.languages, c) # 0
      /\ Find(r.languages, table.code) # 0
      /\ \A c : Speaks(t, c) => Speaks(r, c)
  BY <1>1, EnsureFacts
<1>3. u = IF at = 0 THEN [r EXCEPT !.translations = Append(T, table)]
          ELSE [r EXCEPT !.translations[at] = table]
  BY DEF Store
<1> HIDE DEF r
<1>4. /\ r \in [languages : Seq(LanguageEntry), current : Nat, translations : TableLists]
      /\ r.languages \in Seq(LanguageEntry) /\ OneEach(r.languages) /\ r.current \in Nat
      /\ T \in Seq(TableEntry) /\ OneEach(T)
      /\ \A i \in 1 .. Len(T) : Find(r.languages, T[i].code) # 0
  BY <1>2, SoundParts
<1> DEFINE q == Placed(T, table)
<1>6. u = [languages |-> r.languages, current |-> r.current, translations |-> q]
  BY <1>3, <1>4, ChangedParts, ZenonT(40) DEF Placed, Replaced
<1>7. /\ q \in Seq(TableEntry) /\ OneEach(q)
      /\ \A i \in 1 .. Len(q) : q[i] = table \/ (i \in 1 .. Len(T) /\ q[i] = T[i])
      /\ \A c : PairsIn(q, c) = IF c = table.code THEN Pairs(table.items) ELSE PairsIn(T, c)
  BY <1>4, PlacedFacts
<1> HIDE DEF q, u
<1>8. \A i \in 1 .. Len(q) : Find(r.languages, q[i].code) # 0
  BY <1>2, <1>4, <1>7
<1>9. u \in Sounds
  BY <1>4, <1>6, <1>7, <1>8, SoundFrom
<1>10. u.languages = r.languages /\ u.current = r.current /\ u.translations = q
  BY <1>6
<1>11. \A c : Speaks(t, c) => Speaks(u, c)
  BY <1>2, <1>10 DEF Speaks
<1>. QED
  BY <1>2, <1>7, <1>9, <1>10, <1>11 DEF u

-----------------------------------------------------------------------------
\* Storing n of some tables: the translators it passes through.
LEMMA StoredRecursion ==
  ASSUME NEW t \in Sounds, NEW tables, NEW n \in Nat,
         \A k \in 1 .. n : tables[k] \in TableEntry
  PROVE  \E g : /\ g[0] = t /\ Stored(t, tables, n) = g[n]
               /\ \A k \in 1 .. n : g[k] = Store(g[k - 1], tables[k])
<1> DEFINE step == [k \in 1 .. n |-> [x \in Sounds |-> Store(x, tables[k])]]
           h == CHOOSE q : q = [k \in 0 .. n |-> IF k = 0 THEN t ELSE Store(q[k - 1], tables[k])]
<1>2. \A x \in Sounds : \A k \in 1 .. n : step[k][x] = Store(x, tables[k])
  OBVIOUS
<1>3. step \in [1 .. n -> [Sounds -> Sounds]]
  BY StoreFacts
<1> HIDE DEF step
<1>4. PICK g \in [0 .. n -> Sounds] : g[0] = t /\ \A k \in 1 .. n : g[k] = step[k][g[k - 1]]
  BY <1>3, Recursion
<1>5. ASSUME NEW k \in 0 .. n PROVE g[k] = IF k = 0 THEN t ELSE Store(g[k - 1], tables[k])
  <2>1. CASE k = 0
    BY <1>4, <2>1
  <2>2. CASE k # 0
    <3>1. k \in 1 .. n /\ k - 1 \in 0 .. n
      BY <2>2
    <3>2. g[k - 1] \in Sounds
      BY <3>1
    <3>. QED
      BY <1>2, <1>4, <2>2, <3>1, <3>2
  <2>. QED
    BY <2>1, <2>2
<1>6. g = [k \in 0 .. n |-> IF k = 0 THEN t ELSE Store(g[k - 1], tables[k])]
  BY <1>5
<1>7. h = [k \in 0 .. n |-> IF k = 0 THEN t ELSE Store(h[k - 1], tables[k])]
  BY <1>6
<1>8. Stored(t, tables, n) = h[n]
  BY DEF Stored
<1> HIDE DEF h
<1>9. h[0] = t
  BY <1>7
<1>10. ASSUME NEW k \in 1 .. n PROVE h[k] = Store(h[k - 1], tables[k])
  <2>1. k \in 0 .. n /\ k # 0
    OBVIOUS
  <2>. QED
    BY <1>7, <2>1
<1>. QED
  BY <1>8, <1>9, <1>10

\* The languages of the first n tables speak them, the others what they spoke.
LEMMA StoredFacts ==
  ASSUME NEW t \in Sounds, NEW tables \in TableLists, NEW n \in 0 .. Len(tables)
  PROVE  /\ Stored(t, tables, n) \in Sounds
         /\ \A c : Speaks(t, c) => Speaks(Stored(t, tables, n), c)
         /\ \A k \in 1 .. n :
              PairsIn(Stored(t, tables, n).translations, tables[k].code) = Pairs(tables[k].items)
         /\ \A c : (\A k \in 1 .. n : tables[k].code # c) =>
              PairsIn(Stored(t, tables, n).translations, c) = PairsIn(t.translations, c)
<1>1. /\ tables \in Seq(TableEntry) /\ Len(tables) \in Nat /\ n \in Nat
      /\ \A k \in 1 .. n : k \in 1 .. Len(tables) /\ tables[k] \in TableEntry
      /\ \A j, k \in 1 .. n : tables[j].code = tables[k].code => j = k
  <2>1. tables \in Seq(TableEntry) /\ OneEach(tables)
    BY DEF TableLists
  <2>2. Len(tables) \in Nat /\ \A k \in 1 .. Len(tables) : tables[k] \in TableEntry
    BY <2>1, LenProperties, ElementOfSeq
  <2>. QED
    BY <2>1, <2>2 DEF OneEach
<1>2. PICK g : /\ g[0] = t /\ Stored(t, tables, n) = g[n]
               /\ \A k \in 1 .. n : g[k] = Store(g[k - 1], tables[k])
  BY <1>1, StoredRecursion
<1> DEFINE After(m) ==
             /\ g[m] \in Sounds
             /\ \A c : Speaks(t, c) => Speaks(g[m], c)
             /\ \A k \in 1 .. m : PairsIn(g[m].translations, tables[k].code) = Pairs(tables[k].items)
             /\ \A c : (\A k \in 1 .. m : tables[k].code # c) =>
                  PairsIn(g[m].translations, c) = PairsIn(t.translations, c)
           T == {m \in Nat : m <= n => After(m)}
<1>3. 0 \in T
  BY <1>2
<1>4. ASSUME NEW m \in Nat, After(m), m + 1 <= n PROVE After(m + 1)
  <2> DEFINE b == tables[m + 1]
  <2>1. m + 1 \in 1 .. n /\ (m + 1) - 1 = m /\ m + 1 \in 1 .. m + 1
    BY <1>1, <1>4
  <2>2. g[m + 1] = Store(g[m], b) /\ b \in TableEntry
    BY <1>1, <1>2, <2>1
  <2>3. \A k \in 1 .. m : k \in 1 .. n /\ k # m + 1 /\ k \in 1 .. m + 1
    BY <1>1, <2>1
  <2>4. \A k \in 1 .. m + 1 : k = m + 1 \/ k \in 1 .. m
    OBVIOUS
  <2>5. \A k \in 1 .. m : tables[k].code # b.code
    BY <1>1, <2>1, <2>3
  <2> HIDE DEF b
  <2>6. /\ g[m] \in Sounds
        /\ \A c : Speaks(t, c) => Speaks(g[m], c)
        /\ \A k \in 1 .. m : PairsIn(g[m].translations, tables[k].code) = Pairs(tables[k].items)
        /\ \A c : (\A k \in 1 .. m : tables[k].code # c) =>
             PairsIn(g[m].translations, c) = PairsIn(t.translations, c)
    BY <1>4
  <2>7. /\ g[m + 1] \in Sounds
        /\ \A c : Speaks(g[m], c) => Speaks(g[m + 1], c)
        /\ \A c : PairsIn(g[m + 1].translations, c)
                    = IF c = b.code THEN Pairs(b.items) ELSE PairsIn(g[m].translations, c)
    <3>1. /\ Store(g[m], b) \in Sounds
          /\ \A c : Speaks(g[m], c) => Speaks(Store(g[m], b), c)
          /\ \A c : PairsIn(Store(g[m], b).translations, c)
                      = IF c = b.code THEN Pairs(b.items) ELSE PairsIn(g[m].translations, c)
      BY <2>2, <2>6, StoreFacts, Zenon
    <3>. QED
      BY <2>2, <3>1
  <2>8. ASSUME NEW k \in 1 .. m + 1
        PROVE  PairsIn(g[m + 1].translations, tables[k].code) = Pairs(tables[k].items)
    <3>1. CASE k = m + 1
      BY <2>7, <3>1 DEF b
    <3>2. CASE k \in 1 .. m
      BY <2>5, <2>6, <2>7, <3>2
    <3>. QED
      BY <2>4, <3>1, <3>2
  <2>9. ASSUME NEW c, \A k \in 1 .. m + 1 : tables[k].code # c
        PROVE  PairsIn(g[m + 1].translations, c) = PairsIn(t.translations, c)
    <3>1. c # b.code
      BY <2>1, <2>9 DEF b
    <3>2. \A k \in 1 .. m : tables[k].code # c
      BY <2>3, <2>9
    <3>. QED
      BY <2>6, <2>7, <3>1, <3>2
  <2>10. \A c : Speaks(t, c) => Speaks(g[m + 1], c)
    BY <2>6, <2>7
  <2>. QED
    BY <2>7, <2>8, <2>9, <2>10
<1> HIDE DEF After
<1>5. \A m \in Nat : m \in T => m + 1 \in T
  BY <1>1, <1>4
<1>6. Nat \subseteq T
  BY <1>3, <1>5, NatInduct
<1>7. After(n)
  BY <1>1, <1>6
<1>. QED
  BY <1>2, <1>7 DEF After

-----------------------------------------------------------------------------
\* Tables that each say something.
FullLists == {ts \in TableLists : \A i \in 1 .. Len(ts) : Pairs(ts[i].items) # {}}

\* What a list's members are, with one more.
LEMMA PairsAppend ==
  ASSUME NEW S, NEW s \in Seq(S), NEW e \in S
  PROVE  Pairs(Append(s, e)) = Pairs(s) \cup {e}
<1>1. /\ Append(s, e) \in Seq(S) /\ Len(s) \in Nat /\ Len(Append(s, e)) = Len(s) + 1
      /\ \A i \in 1 .. Len(s) : Append(s, e)[i] = s[i]
      /\ Append(s, e)[Len(s) + 1] = e
  BY AppendProperties, LenProperties
<1>2. DOMAIN s = 1 .. Len(s) /\ DOMAIN Append(s, e) = 1 .. Len(s) + 1
  BY <1>1, LenProperties
<1>3. \A i \in 1 .. Len(s) + 1 : i \in 1 .. Len(s) \/ i = Len(s) + 1
  BY <1>1
<1>4. (\A i \in 1 .. Len(s) : i \in 1 .. Len(s) + 1) /\ Len(s) + 1 \in 1 .. Len(s) + 1
  BY <1>1
<1>. QED
  BY <1>1, <1>2, <1>3, <1>4 DEF Pairs

\* A code is in a list of full tables if the list says something in it.
LEMMA PairsInFull ==
  ASSUME NEW ts \in FullLists, NEW c
  PROVE  PairsIn(ts, c) = {} <=> \A i \in 1 .. Len(ts) : ts[i].code # c
<1>1. ts \in Seq(TableEntry) /\ \A i \in 1 .. Len(ts) : Pairs(ts[i].items) # {}
  BY DEF FullLists, TableLists
<1>2. \/ Find(ts, c) = 0 /\ \A i \in 1 .. Len(ts) : ts[i].code # c
      \/ Find(ts, c) \in 1 .. Len(ts) /\ ts[Find(ts, c)].code = c
  BY <1>1, FindFacts
<1>3. Len(ts) \in Nat
  BY <1>1, LenProperties
<1>. QED
  BY <1>1, <1>2, <1>3 DEF PairsIn

\* What a list says in the language of a table of it.
LEMMA PairsInIs ==
  ASSUME NEW ts \in TableLists, NEW i \in 1 .. Len(ts)
  PROVE  PairsIn(ts, ts[i].code) = Pairs(ts[i].items)
<1>1. ts \in Seq(TableEntry) /\ OneEach(ts) /\ Len(ts) \in Nat
  BY LenProperties DEF TableLists
<1>2. Find(ts, ts[i].code) = i
  BY <1>1, FindIs
<1>. QED
  BY <1>1, <1>2 DEF PairsIn

\* An item more for a code.
LEMMA AddItemFacts ==
  ASSUME NEW ts \in FullLists, NEW code \in Codes, NEW item \in Items
  PROVE  /\ AddItem(ts, code, item) \in FullLists
         /\ \A c : PairsIn(AddItem(ts, code, item), c)
                     = IF c = code THEN PairsIn(ts, c) \cup {item} ELSE PairsIn(ts, c)
<1> DEFINE at == Find(ts, code)
           r == AddItem(ts, code, item)
<1>1. /\ ts \in Seq(TableEntry) /\ OneEach(ts)
      /\ \A i \in 1 .. Len(ts) : ts[i] \in TableEntry /\ Pairs(ts[i].items) # {}
  <2>1. ts \in Seq(TableEntry) /\ OneEach(ts)
    BY DEF FullLists, TableLists
  <2>2. \A i \in 1 .. Len(ts) : ts[i] \in TableEntry
    BY <2>1, ElementOfSeq
  <2>. QED
    BY <2>1, <2>2 DEF FullLists
<1>2. PICK e \in TableEntry :
        /\ e.code = code /\ Pairs(e.items) = PairsIn(ts, code) \cup {item}
        /\ r = Placed(ts, e)
  <2>1. CASE at = 0
    <3> DEFINE e == [code |-> code, items |-> <<item>>]
    <3>1. <<item>> \in Seq(Items) /\ Pairs(<<item>>) = {item}
      <4>1. <<item>> \in Seq(Items) /\ DOMAIN <<item>> = 1 .. 1 /\ <<item>>[1] = item
        OBVIOUS
      <4>. QED
        BY <4>1 DEF Pairs
    <3>2. e \in TableEntry /\ e.code = code /\ e.items = <<item>>
      BY <3>1 DEF TableEntry
    <3>3. r = Append(ts, e)
      BY <2>1 DEF AddItem
    <3>4. PairsIn(ts, code) = {}
      BY <2>1 DEF PairsIn
    <3> HIDE DEF e, r
    <3>5. r = Placed(ts, e)
      BY <2>1, <3>2, <3>3 DEF Placed
    <3>. QED
      BY <3>1, <3>2, <3>4, <3>5
  <2>2. CASE at # 0
    <3> DEFINE o == ts[at]
               e == [code |-> o.code, items |-> Append(o.items, item)]
    <3>1. at \in 1 .. Len(ts) /\ o.code = code /\ o \in TableEntry
      BY <1>1, <2>2, FindFacts
    <3>2. o.items \in Seq(Items) /\ o.code \in Codes
      BY <3>1 DEF TableEntry
    <3>3. /\ Append(o.items, item) \in Seq(Items)
          /\ Pairs(Append(o.items, item)) = Pairs(o.items) \cup {item}
      BY <3>2, AppendProperties, PairsAppend
    <3>4. r = [ts EXCEPT ![at] = e]
      <4>1. r = [ts EXCEPT ![at].items = Append(o.items, item)]
        BY <2>2 DEF AddItem
      <4>2. [ts EXCEPT ![at].items = Append(o.items, item)]
              = [ts EXCEPT ![at] = [o EXCEPT !.items = Append(o.items, item)]]
        OBVIOUS
      <4> HIDE DEF o
      <4>3. ASSUME NEW x PROVE [o EXCEPT !.items = x] = [code |-> o.code, items |-> x]
        BY <3>1 DEF TableEntry
      <4>4. [o EXCEPT !.items = Append(o.items, item)] = e
        BY <4>3
      <4>. QED
        BY <4>1, <4>2, <4>4 DEF o
    <3>5. PairsIn(ts, code) = Pairs(o.items)
      BY <2>2 DEF PairsIn
    <3> HIDE DEF o
    <3>6. e \in TableEntry /\ e.code = code /\ e.items = Append(o.items, item)
      BY <3>1, <3>2, <3>3 DEF TableEntry
    <3> HIDE DEF e, r
    <3>7. r = Placed(ts, e)
      BY <2>2, <3>4, <3>6 DEF Placed, Replaced
    <3>. QED
      BY <3>3, <3>5, <3>6, <3>7
  <2>. QED
    BY <2>1, <2>2
<1> HIDE DEF r
<1>3. /\ r \in Seq(TableEntry) /\ OneEach(r)
      /\ \A i \in 1 .. Len(r) : r[i] = e \/ (i \in 1 .. Len(ts) /\ r[i] = ts[i])
      /\ \A c : PairsIn(r, c) = IF c = e.code THEN Pairs(e.items) ELSE PairsIn(ts, c)
  <2>1. /\ Placed(ts, e) \in Seq(TableEntry) /\ OneEach(Placed(ts, e))
        /\ \A i \in 1 .. Len(Placed(ts, e)) :
             Placed(ts, e)[i] = e \/ (i \in 1 .. Len(ts) /\ Placed(ts, e)[i] = ts[i])
        /\ \A c : PairsIn(Placed(ts, e), c) = IF c = e.code THEN Pairs(e.items) ELSE PairsIn(ts, c)
    BY <1>1, PlacedFacts
  <2>. QED
    BY <1>2, <2>1
<1>4. \A i \in 1 .. Len(r) : Pairs(r[i].items) # {}
  BY <1>1, <1>2, <1>3
<1>5. r \in FullLists
  BY <1>3, <1>4 DEF FullLists, TableLists
<1>6. \A c : PairsIn(r, c) = IF c = code THEN PairsIn(ts, c) \cup {item} ELSE PairsIn(ts, c)
  BY <1>2, <1>3
<1>. QED
  BY <1>5, <1>6 DEF r

-----------------------------------------------------------------------------
(* Groups.                                                                  *)

\* What a group says in the language with that code.
PairsFrom(g, code) == {Item(g, m) : m \in {n \in Pairs(g.value) : n.name = code}}

\* The same of its first m members.
PairsUpto(g, m, code) == {Item(g, g.value[j]) : j \in {i \in 1 .. m : g.value[i].name = code}}

\* A group whose members are items of languages.
Grouped(g) ==
  /\ g.value \in Seq(Pairs(g.value))
  /\ \A j \in 1 .. Len(g.value) : g.value[j].name \in Codes /\ Item(g, g.value[j]) \in Items

\* The lists of tables that the members of a group make, one after the other.
LEMMA AddGroupRecursion ==
  ASSUME NEW ts \in FullLists, NEW g, Grouped(g)
  PROVE  \E h : /\ h[0] = ts /\ AddGroup(ts, g) = h[Len(g.value)]
               /\ \A k \in 1 .. Len(g.value) :
                    h[k] = AddItem(h[k - 1], g.value[k].name, Item(g, g.value[k]))
<1> DEFINE n == Len(g.value)
           step == [k \in 1 .. n |->
                      [x \in FullLists |-> AddItem(x, g.value[k].name, Item(g, g.value[k]))]]
           q == CHOOSE p : p = [k \in 0 .. n |->
                  IF k = 0 THEN ts ELSE AddItem(p[k - 1], g.value[k].name, Item(g, g.value[k]))]
<1>1. /\ n \in Nat
      /\ \A k \in 1 .. n : g.value[k].name \in Codes /\ Item(g, g.value[k]) \in Items
  BY LenProperties DEF Grouped
<1>8. AddGroup(ts, g) = q[n]
  BY DEF AddGroup, Item
<1> HIDE DEF n
<1>2. \A x \in FullLists : \A k \in 1 .. n :
        step[k][x] = AddItem(x, g.value[k].name, Item(g, g.value[k]))
  OBVIOUS
<1>3. step \in [1 .. n -> [FullLists -> FullLists]]
  BY <1>1, AddItemFacts
<1> HIDE DEF step
<1>4. PICK h \in [0 .. n -> FullLists] : h[0] = ts /\ \A k \in 1 .. n : h[k] = step[k][h[k - 1]]
  BY <1>1, <1>3, Recursion
<1>5. ASSUME NEW k \in 0 .. n
      PROVE  h[k] = IF k = 0 THEN ts ELSE AddItem(h[k - 1], g.value[k].name, Item(g, g.value[k]))
  <2>1. CASE k = 0
    BY <1>4, <2>1
  <2>2. CASE k # 0
    <3>1. k \in 1 .. n /\ k - 1 \in 0 .. n
      BY <1>1, <2>2
    <3>2. h[k - 1] \in FullLists
      BY <1>4, <3>1
    <3>. QED
      BY <1>2, <1>4, <2>2, <3>1, <3>2
  <2>. QED
    BY <2>1, <2>2
<1>6. h = [k \in 0 .. n |->
             IF k = 0 THEN ts ELSE AddItem(h[k - 1], g.value[k].name, Item(g, g.value[k]))]
  BY <1>4, <1>5
<1>7. q = [k \in 0 .. n |->
             IF k = 0 THEN ts ELSE AddItem(q[k - 1], g.value[k].name, Item(g, g.value[k]))]
  BY <1>6
<1> HIDE DEF q
<1>9. q[0] = ts
  BY <1>1, <1>7
<1>10. ASSUME NEW k \in 1 .. n
       PROVE  q[k] = AddItem(q[k - 1], g.value[k].name, Item(g, g.value[k]))
  <2>1. k \in 0 .. n /\ k # 0
    BY <1>1
  <2>. QED
    BY <1>7, <2>1
<1>. QED
  BY <1>8, <1>9, <1>10 DEF n

\* A group's members, by their places.
LEMMA PairsFromPlaces ==
  ASSUME NEW g, Grouped(g), NEW code
  PROVE  PairsFrom(g, code) = PairsUpto(g, Len(g.value), code)
<1>1. DOMAIN g.value = 1 .. Len(g.value)
  BY LenProperties DEF Grouped
<1>2. Pairs(g.value) = {g.value[i] : i \in 1 .. Len(g.value)}
  BY <1>1 DEF Pairs
<1>. QED
  BY <1>2 DEF PairsFrom, PairsUpto

\* The members of a group are what the lists say more.
LEMMA AddGroupFacts ==
  ASSUME NEW ts \in FullLists, NEW g, Grouped(g)
  PROVE  /\ AddGroup(ts, g) \in FullLists
         /\ \A c : PairsIn(AddGroup(ts, g), c) = PairsIn(ts, c) \cup PairsFrom(g, c)
<1> DEFINE n == Len(g.value)
<1>1. /\ n \in Nat
      /\ \A k \in 1 .. n : g.value[k].name \in Codes /\ Item(g, g.value[k]) \in Items
  BY LenProperties DEF Grouped
<1>2. PICK h : /\ h[0] = ts /\ AddGroup(ts, g) = h[n]
               /\ \A k \in 1 .. n : h[k] = AddItem(h[k - 1], g.value[k].name, Item(g, g.value[k]))
  BY AddGroupRecursion
<1>3. \A c : PairsFrom(g, c) = PairsUpto(g, n, c)
  BY PairsFromPlaces
<1> HIDE DEF n
<1> DEFINE After(m) == /\ h[m] \in FullLists
                       /\ \A c : PairsIn(h[m], c) = PairsIn(ts, c) \cup PairsUpto(g, m, c)
           T == {m \in Nat : m <= n => After(m)}
<1>4. 0 \in T
  <2>1. \A c : PairsUpto(g, 0, c) = {}
    BY DEF PairsUpto
  <2>. QED
    BY <1>2, <2>1
<1>5. ASSUME NEW m \in Nat, After(m), m + 1 <= n PROVE After(m + 1)
  <2> DEFINE code == g.value[m + 1].name
             item == Item(g, g.value[m + 1])
  <2>1. m + 1 \in 1 .. n /\ (m + 1) - 1 = m /\ m + 1 \in 1 .. m + 1
    BY <1>1, <1>5
  <2>2. h[m + 1] = AddItem(h[m], code, item) /\ code \in Codes /\ item \in Items
    BY <1>1, <1>2, <2>1
  <2>3. \A k : k \in 1 .. m + 1 <=> (k \in 1 .. m \/ k = m + 1)
    BY <1>5
  <2>4. ASSUME NEW c
        PROVE  PairsUpto(g, m + 1, c)
                 = IF c = code THEN PairsUpto(g, m, c) \cup {item} ELSE PairsUpto(g, m, c)
    BY <2>3 DEF PairsUpto
  <2> HIDE DEF code, item
  <2>5. h[m] \in FullLists /\ \A c : PairsIn(h[m], c) = PairsIn(ts, c) \cup PairsUpto(g, m, c)
    BY <1>5
  <2>6. /\ AddItem(h[m], code, item) \in FullLists
        /\ \A c : PairsIn(AddItem(h[m], code, item), c)
                    = IF c = code THEN PairsIn(h[m], c) \cup {item} ELSE PairsIn(h[m], c)
    BY <2>2, <2>5, AddItemFacts, ZenonT(40)
  <2>7. ASSUME NEW c PROVE PairsIn(h[m + 1], c) = PairsIn(ts, c) \cup PairsUpto(g, m + 1, c)
    BY <2>2, <2>4, <2>5, <2>6
  <2>. QED
    BY <2>2, <2>6, <2>7
<1> HIDE DEF After
<1>6. \A m \in Nat : m \in T => m + 1 \in T
  BY <1>1, <1>5
<1>7. Nat \subseteq T
  BY <1>4, <1>6, NatInduct
<1>8. After(n)
  BY <1>1, <1>7
<1>. QED
  BY <1>2, <1>3, <1>8 DEF After

\* What the first m groups say.
GroupsUpto(groups, m, code) == UNION {PairsFrom(groups[i], code) : i \in 1 .. m}

FileOfGroups(f) == f \in Seq(Pairs(f)) /\ \A i \in 1 .. Len(f) : Grouped(f[i])

\* The lists of tables that the groups of a file make, one after the other.
LEMMA CollectedRecursion ==
  ASSUME NEW f, FileOfGroups(f)
  PROVE  \E h : /\ h[0] = <<>> /\ Collected(f) = h[Len(f)]
               /\ \A k \in 1 .. Len(f) : h[k] = AddGroup(h[k - 1], f[k])
<1> DEFINE n == Len(f)
           step == [k \in 1 .. n |-> [x \in FullLists |-> AddGroup(x, f[k])]]
           q == CHOOSE p : p = [k \in 0 .. n |-> IF k = 0 THEN <<>> ELSE AddGroup(p[k - 1], f[k])]
<1>1. n \in Nat /\ \A k \in 1 .. n : Grouped(f[k])
  BY LenProperties DEF FileOfGroups
<1>0. <<>> \in FullLists
  <2>1. <<>> \in Seq(TableEntry) /\ Len(<<>>) = 0
    BY EmptySeq
  <2>. QED
    BY <2>1 DEF FullLists, TableLists, OneEach
<1>8. Collected(f) = q[n]
  BY DEF Collected
<1> HIDE DEF n
<1>2. \A x \in FullLists : \A k \in 1 .. n : step[k][x] = AddGroup(x, f[k])
  OBVIOUS
<1>3. step \in [1 .. n -> [FullLists -> FullLists]]
  BY <1>1, AddGroupFacts
<1> HIDE DEF step
<1>4. PICK h \in [0 .. n -> FullLists] : h[0] = <<>> /\ \A k \in 1 .. n : h[k] = step[k][h[k - 1]]
  BY <1>0, <1>1, <1>3, Recursion
<1>5. ASSUME NEW k \in 0 .. n
      PROVE  h[k] = IF k = 0 THEN <<>> ELSE AddGroup(h[k - 1], f[k])
  <2>1. CASE k = 0
    BY <1>4, <2>1
  <2>2. CASE k # 0
    <3>1. k \in 1 .. n /\ k - 1 \in 0 .. n
      BY <1>1, <2>2
    <3>2. h[k - 1] \in FullLists
      BY <1>4, <3>1
    <3>. QED
      BY <1>2, <1>4, <2>2, <3>1, <3>2
  <2>. QED
    BY <2>1, <2>2
<1>6. h = [k \in 0 .. n |-> IF k = 0 THEN <<>> ELSE AddGroup(h[k - 1], f[k])]
  BY <1>4, <1>5
<1>7. q = [k \in 0 .. n |-> IF k = 0 THEN <<>> ELSE AddGroup(q[k - 1], f[k])]
  BY <1>6
<1> HIDE DEF q
<1>9. q[0] = <<>>
  BY <1>1, <1>7
<1>10. ASSUME NEW k \in 1 .. n PROVE q[k] = AddGroup(q[k - 1], f[k])
  <2>1. k \in 0 .. n /\ k # 0
    BY <1>1
  <2>. QED
    BY <1>7, <2>1
<1>. QED
  BY <1>8, <1>9, <1>10 DEF n

\* sw_translator_collect_source_groups: the tables say what the groups say, each in
\* its language, and none is empty.
LEMMA CollectedFacts ==
  ASSUME NEW f, FileOfGroups(f)
  PROVE  /\ Collected(f) \in FullLists
         /\ \A c : PairsIn(Collected(f), c) = PairsOf(f, c)
<1> DEFINE n == Len(f)
<1>1. n \in Nat /\ DOMAIN f = 1 .. n
  BY LenProperties DEF FileOfGroups
<1>2. PICK h : /\ h[0] = <<>> /\ Collected(f) = h[n]
               /\ \A k \in 1 .. n : h[k] = AddGroup(h[k - 1], f[k])
  BY CollectedRecursion
<1>3. ASSUME NEW c PROVE PairsOf(f, c) = GroupsUpto(f, n, c)
  BY <1>1 DEF PairsOf, GroupsUpto, PairsFrom, Item
<1>4. \A k \in 1 .. n : Grouped(f[k])
  BY DEF FileOfGroups
<1> HIDE DEF n
<1> DEFINE After(m) == /\ h[m] \in FullLists
                       /\ \A c : PairsIn(h[m], c) = GroupsUpto(f, m, c)
           T == {m \in Nat : m <= n => After(m)}
<1>5. 0 \in T
  <2>1. \A c : GroupsUpto(f, 0, c) = {}
    BY DEF GroupsUpto
  <2>2. <<>> \in Seq(TableEntry) /\ Len(<<>>) = 0
    BY EmptySeq
  <2>3. <<>> \in FullLists
    BY <2>2 DEF FullLists, TableLists, OneEach
  <2>4. \A c : PairsIn(<<>>, c) = {}
    <3>1. \A c : \A i \in 1 .. Len(<<>>) : <<>>[i].code # c
      BY <2>2
    <3>. QED
      BY <2>3, <3>1, PairsInFull
  <2>. QED
    BY <1>2, <2>1, <2>3, <2>4
<1>6. ASSUME NEW m \in Nat, After(m), m + 1 <= n PROVE After(m + 1)
  <2>1. m + 1 \in 1 .. n /\ (m + 1) - 1 = m
    BY <1>1, <1>6
  <2>2. h[m + 1] = AddGroup(h[m], f[m + 1]) /\ Grouped(f[m + 1])
    BY <1>2, <1>4, <2>1
  <2>3. \A k : k \in 1 .. m + 1 <=> (k \in 1 .. m \/ k = m + 1)
    BY <1>6
  <2>4. ASSUME NEW c
        PROVE  GroupsUpto(f, m + 1, c) = GroupsUpto(f, m, c) \cup PairsFrom(f[m + 1], c)
    BY <2>3 DEF GroupsUpto
  <2>5. h[m] \in FullLists /\ \A c : PairsIn(h[m], c) = GroupsUpto(f, m, c)
    BY <1>6
  <2>6. /\ AddGroup(h[m], f[m + 1]) \in FullLists
        /\ \A c : PairsIn(AddGroup(h[m], f[m + 1]), c) = PairsIn(h[m], c) \cup PairsFrom(f[m + 1], c)
    BY <2>2, <2>5, AddGroupFacts, Zenon
  <2>. QED
    BY <2>2, <2>4, <2>5, <2>6
<1> HIDE DEF After
<1>7. \A m \in Nat : m \in T => m + 1 \in T
  BY <1>1, <1>6
<1>8. Nat \subseteq T
  BY <1>5, <1>7, NatInduct
<1>9. After(n)
  BY <1>1, <1>8
<1>. QED
  BY <1>2, <1>3, <1>9 DEF After

-----------------------------------------------------------------------------
(* Files.                                                                   *)

\* No text has two values, and each value is a string.
Whole(pairs) == \A m, n \in pairs : m.value # Bad /\ (m.name = n.name => m = n)

\* A list of members is one of any set that holds them.
LEMMA ListOfMore ==
  ASSUME NEW s, s \in Seq(Pairs(s)), NEW S, Pairs(s) \subseteq S
  PROVE  s \in Seq(S)
<1>1. Len(s) \in Nat /\ DOMAIN s = 1 .. Len(s) /\ s = [i \in 1 .. Len(s) |-> s[i]]
  BY LenProperties
<1>2. \A i \in 1 .. Len(s) : s[i] \in S
  BY <1>1 DEF Pairs
<1>3. s \in [1 .. Len(s) -> S]
  BY <1>1, <1>2
<1>. QED
  BY <1>1, <1>3, SeqDef

\* sw_translator_build_flat_language: a file of one language is whole.
LEMMA FlatWhole ==
  ASSUME NEW members, FlatValid(members)
  PROVE  Whole(Pairs(members))
BY DEF FlatValid, Once, Whole, Pairs

\* What GroupsValid says of a file's groups.
LEMMA ValidGroups ==
  ASSUME NEW f \in ValidFiles
  PROVE  /\ f \in Seq(Pairs(f)) /\ Once(f)
         /\ \A g \in Pairs(f) :
              /\ g.value \in Seq(Pairs(g.value)) /\ FlatValid(g.value)
              /\ \A m \in Pairs(g.value) : m.name \in ValidCodes
<1>1. f \in GroupFiles /\ GroupsValid(f)
  BY DEF ValidFiles
<1>2. f \in Seq(Pairs(f)) /\ \A g \in Pairs(f) : g.object => g.value \in Seq(Pairs(g.value))
  BY <1>1, FilesAssumption
<1>3. /\ Once(f)
      /\ \A i \in DOMAIN f : f[i].object
      /\ \A i \in DOMAIN f : FlatValid(f[i].value)
      /\ \A i \in DOMAIN f : \A j \in DOMAIN f[i].value : f[i].value[j].name \in ValidCodes
  BY <1>1 DEF GroupsValid
<1>4. ASSUME NEW g \in Pairs(f)
      PROVE  /\ g.value \in Seq(Pairs(g.value)) /\ FlatValid(g.value)
             /\ \A m \in Pairs(g.value) : m.name \in ValidCodes
  <2>1. PICK i \in DOMAIN f : g = f[i]
    BY DEF Pairs
  <2>2. g.object
    BY <1>3, <2>1
  <2>3. g.value \in Seq(Pairs(g.value))
    BY <1>2, <2>2
  <2>4. FlatValid(g.value)
    BY <1>3, <2>1
  <2>5. \A j \in DOMAIN g.value : g.value[j].name \in ValidCodes
    BY <1>3, <2>1
  <2>6. \A m \in Pairs(g.value) : m.name \in ValidCodes
    BY <2>5 DEF Pairs
  <2>. QED
    BY <2>3, <2>4, <2>6
<1>. QED
  BY <1>2, <1>3, <1>4

\* The items are those of every valid file.
LEMMA ItemsHold ==
  ASSUME NEW f \in ValidFiles
  PROVE  GroupItems(f) \subseteq Items
BY DEF Items

\* The files of groups that programs load, or no file.
Loadable == {<<>>} \cup ValidFiles

\* A file that is loaded is one of groups.
LEMMA LoadableGroups ==
  ASSUME NEW f \in Loadable
  PROVE  FileOfGroups(f)
<1>1. CASE f = <<>>
  <2>1. <<>> \in Seq(Pairs(<<>>)) /\ Len(<<>>) = 0
    BY EmptySeq
  <2>. QED
    BY <1>1, <2>1 DEF FileOfGroups
<1>2. CASE f \in ValidFiles
  <2>1. /\ f \in Seq(Pairs(f))
        /\ \A g \in Pairs(f) :
             g.value \in Seq(Pairs(g.value)) /\ \A m \in Pairs(g.value) : m.name \in ValidCodes
    BY <1>2, ValidGroups
  <2>2. DOMAIN f = 1 .. Len(f)
    BY <2>1, LenProperties
  <2>3. ASSUME NEW i \in 1 .. Len(f) PROVE Grouped(f[i])
    <3> DEFINE g == f[i]
    <3>1. g \in Pairs(f)
      BY <2>2 DEF Pairs
    <3> HIDE DEF g
    <3>2. g.value \in Seq(Pairs(g.value)) /\ \A m \in Pairs(g.value) : m.name \in ValidCodes
      BY <2>1, <3>1
    <3>3. DOMAIN g.value = 1 .. Len(g.value)
      BY <3>2, LenProperties
    <3>4. ASSUME NEW j \in 1 .. Len(g.value)
          PROVE  g.value[j].name \in Codes /\ Item(g, g.value[j]) \in Items
      <4>1. g.value[j] \in Pairs(g.value)
        BY <3>3 DEF Pairs
      <4>2. g.value[j].name \in Codes
        BY <3>2, <4>1 DEF Codes
      <4>3. g.value[j] \in UNION {Pairs(x.value) : x \in Pairs(f)}
        BY <3>1, <4>1
      <4>4. Item(g, g.value[j]) \in GroupItems(f)
        BY <3>1, <4>3 DEF GroupItems
      <4>5. GroupItems(f) \subseteq Items
        BY <1>2, ItemsHold
      <4>. QED
        BY <4>2, <4>4, <4>5
    <3>. QED
      BY <3>2, <3>4 DEF Grouped, g
  <2>. QED
    BY <2>1, <2>3 DEF FileOfGroups
<1>. QED
  BY <1>1, <1>2 DEF Loadable

\* In each language a file that is loaded says one thing of a text, and it says
\* something only in a language whose code is valid.
LEMMA LoadableWhole ==
  ASSUME NEW f \in Loadable, NEW c
  PROVE  Whole(PairsOf(f, c)) /\ (PairsOf(f, c) # {} => c \in ValidCodes)
<1>1. CASE f = <<>>
  <2>1. DOMAIN <<>> = {}
    OBVIOUS
  <2>2. PairsOf(f, c) = {}
    BY <1>1, <2>1 DEF PairsOf
  <2>. QED
    BY <2>2 DEF Whole
<1>2. CASE f \in ValidFiles
  <2>1. /\ Once(f)
        /\ \A g \in Pairs(f) : FlatValid(g.value) /\ \A m \in Pairs(g.value) : m.name \in ValidCodes
    BY <1>2, ValidGroups
  <2>2. ASSUME NEW p \in PairsOf(f, c)
        PROVE  \E i \in DOMAIN f : \E j \in DOMAIN f[i].value :
                 /\ f[i].value[j].name = c
                 /\ p = Item(f[i], f[i].value[j])
    BY DEF PairsOf, Pairs, Item
  <2>3. ASSUME NEW i \in DOMAIN f
        PROVE  /\ Once(f[i].value)
               /\ \A j \in DOMAIN f[i].value : f[i].value[j].value # Bad /\ f[i].value[j].name \in ValidCodes
    <3>1. f[i] \in Pairs(f)
      BY DEF Pairs
    <3>. QED
      BY <2>1, <3>1 DEF FlatValid, Pairs
  <2>4. \A g, m : Item(g, m).name = g.name /\ Item(g, m).value = m.value
    BY DEF Item
  <2>5. ASSUME NEW p \in PairsOf(f, c), NEW q \in PairsOf(f, c)
        PROVE  p.value # Bad /\ c \in ValidCodes /\ (p.name = q.name => p = q)
    <3>1. PICK i \in DOMAIN f : \E j \in DOMAIN f[i].value :
            f[i].value[j].name = c /\ p = Item(f[i], f[i].value[j])
      BY <2>2
    <3>2. PICK j \in DOMAIN f[i].value : f[i].value[j].name = c /\ p = Item(f[i], f[i].value[j])
      BY <3>1
    <3>3. PICK k \in DOMAIN f : \E l \in DOMAIN f[k].value :
            f[k].value[l].name = c /\ q = Item(f[k], f[k].value[l])
      BY <2>2
    <3>4. PICK l \in DOMAIN f[k].value : f[k].value[l].name = c /\ q = Item(f[k], f[k].value[l])
      BY <3>3
    <3>5. p.value # Bad /\ c \in ValidCodes
      BY <2>3, <2>4, <3>2
    <3>6. ASSUME p.name = q.name PROVE p = q
      <4>1. f[i].name = f[k].name
        BY <2>4, <3>2, <3>4, <3>6
      <4>2. i = k
        BY <2>1, <4>1 DEF Once
      <4>3. Once(f[i].value)
        BY <2>3
      <4>4. j = l
        BY <3>2, <3>4, <4>2, <4>3 DEF Once
      <4>. QED
        BY <3>2, <3>4, <4>2, <4>4
    <3>. QED
      BY <3>5, <3>6
  <2>. QED
    BY <2>5 DEF Whole
<1>. QED
  BY <1>1, <1>2 DEF Loadable

\* A file's tables: one for each code the file says something in, and no other.
LEMMA LoadableTables ==
  ASSUME NEW f \in Loadable
  PROVE  /\ Collected(f) \in TableLists /\ Len(Collected(f)) \in Nat
         /\ \A k \in 1 .. Len(Collected(f)) :
              Pairs(Collected(f)[k].items) = PairsOf(f, Collected(f)[k].code)
         /\ \A c : (\A k \in 1 .. Len(Collected(f)) : Collected(f)[k].code # c) <=> PairsOf(f, c) = {}
<1> DEFINE K == Collected(f)
<1>1. K \in FullLists /\ \A c : PairsIn(K, c) = PairsOf(f, c)
  BY LoadableGroups, CollectedFacts
<1> HIDE DEF K
<1>2. K \in TableLists
  BY <1>1 DEF FullLists
<1>3. Len(K) \in Nat
  BY <1>2, LenProperties DEF TableLists
<1>4. \A k \in 1 .. Len(K) : Pairs(K[k].items) = PairsOf(f, K[k].code)
  BY <1>1, <1>2, PairsInIs
<1>5. \A c : (\A k \in 1 .. Len(K) : K[k].code # c) <=> PairsOf(f, c) = {}
  BY <1>1, PairsInFull
<1>. QED
  BY <1>2, <1>3, <1>4, <1>5 DEF K

-----------------------------------------------------------------------------
(* The calls.                                                               *)

\* The translator is sound and speaks, in each language, what the language was last
\* told; what a language is told is whole, and the language chosen is current.
TranslatorInv ==
  /\ translator \in Sounds
  /\ told = [c \in Codes |-> PairsIn(translator.translations, c)]
  /\ \A c \in Codes : Whole(told[c])
  /\ chosen \in Codes
  /\ Speaks(translator, chosen)

\* A language with its direction, or a table, as the calls pass it.
LEMMA Passed ==
  /\ Languages \subseteq LanguageEntry
  /\ \A t \in Tables : t \in Seq(Items)
  /\ \A l \in Languages : l.code \in Codes
<1>1. ASSUME NEW l \in Languages PROVE l \in LanguageEntry /\ l.code \in Codes
  <2>1. l \in [code : STRING, direction : STRING]
    BY LanguagesAssumption
  <2>2. l.code \in Codes /\ l.direction \in Directions
    BY DEF Codes, Directions
  <2>3. l = [code |-> l.code, direction |-> l.direction]
    BY <2>1
  <2>4. [code |-> l.code, direction |-> l.direction] \in LanguageEntry
    BY <2>2 DEF LanguageEntry
  <2>. QED
    BY <2>2, <2>3, <2>4
<1>2. ASSUME NEW t \in Tables PROVE t \in Seq(Items)
  <2>1. t \in Seq(Pairs(t))
    BY FilesAssumption
  <2>2. Pairs(t) \subseteq Items
    BY DEF Items
  <2>. QED
    BY <2>1, <2>2, ListOfMore
<1>. QED
  BY <1>1, <1>2

\* sw_translator_load_all_json_text: each language that the file says something in
\* now speaks that, the others what they spoke.
LEMMA StoreAllFacts ==
  ASSUME NEW t \in Sounds, NEW f \in Loadable
  PROVE  /\ StoredAll(t, Collected(f)) \in Sounds
         /\ \A c : Speaks(t, c) => Speaks(StoredAll(t, Collected(f)), c)
         /\ \A c : PairsIn(StoredAll(t, Collected(f)).translations, c)
                     = IF PairsOf(f, c) # {} THEN PairsOf(f, c) ELSE PairsIn(t.translations, c)
<1> DEFINE K == Collected(f)
           u == StoredAll(t, K)
<1>1. /\ K \in TableLists /\ Len(K) \in Nat
      /\ \A k \in 1 .. Len(K) : Pairs(K[k].items) = PairsOf(f, K[k].code)
      /\ \A c : (\A k \in 1 .. Len(K) : K[k].code # c) <=> PairsOf(f, c) = {}
  BY LoadableTables
<1> HIDE DEF K
<1>2. u = Stored(t, K, Len(K)) /\ Len(K) \in 0 .. Len(K)
  BY <1>1 DEF StoredAll
<1> HIDE DEF u
<1>3. /\ u \in Sounds
      /\ \A c : Speaks(t, c) => Speaks(u, c)
      /\ \A k \in 1 .. Len(K) : PairsIn(u.translations, K[k].code) = Pairs(K[k].items)
      /\ \A c : (\A k \in 1 .. Len(K) : K[k].code # c) =>
           PairsIn(u.translations, c) = PairsIn(t.translations, c)
  <2>1. /\ Stored(t, K, Len(K)) \in Sounds
        /\ \A c : Speaks(t, c) => Speaks(Stored(t, K, Len(K)), c)
        /\ \A k \in 1 .. Len(K) :
             PairsIn(Stored(t, K, Len(K)).translations, K[k].code) = Pairs(K[k].items)
        /\ \A c : (\A k \in 1 .. Len(K) : K[k].code # c) =>
             PairsIn(Stored(t, K, Len(K)).translations, c) = PairsIn(t.translations, c)
    <3>1. K \in TableLists /\ Len(K) \in 0 .. Len(K)
      BY <1>1, <1>2
    <3>. QED
      BY <3>1, StoredFacts, Zenon
  <2>. QED
    BY <1>2, <2>1
<1>4. ASSUME NEW c
      PROVE  PairsIn(u.translations, c)
               = IF PairsOf(f, c) # {} THEN PairsOf(f, c) ELSE PairsIn(t.translations, c)
  BY <1>1, <1>3
<1>. QED
  BY <1>3, <1>4 DEF u, K

\* A translator that is created speaks the language it was created with.
LEMMA InitTranslator == TranslatorInit => TranslatorInv
<1>1. SUFFICES ASSUME NEW f \in Loadable, CreatedFrom(f) PROVE TranslatorInv
  BY DEF TranslatorInit, Loadable, ValidFiles
<1>2. PICK l \in Languages :
        /\ translator = Created(l, f)
        /\ told = [c \in Codes |-> PairsOf(f, c)]
        /\ chosen = l.code
  BY <1>1 DEF CreatedFrom
<1>3. l \in LanguageEntry /\ l.code \in Codes
  BY Passed
<1>4. Empty \in Sounds /\ Empty.current = 0 /\ Empty.languages = <<>> /\ Empty.translations = <<>>
  <2>1. /\ <<>> \in Seq(LanguageEntry) /\ <<>> \in Seq(TableEntry) /\ Len(<<>>) = 0
    BY EmptySeq
  <2>2. OneEach(<<>>) /\ \A i \in 1 .. Len(<<>>) : Find(<<>>, <<>>[i].code) # 0
    BY <2>1 DEF OneEach
  <2>3. [languages |-> <<>>, current |-> 0, translations |-> <<>>] \in Sounds
    BY <2>1, <2>2, SoundFrom
  <2>. QED
    BY <2>3 DEF Empty
<1> DEFINE t == Upsert(Empty, l)
<1>5. t \in Sounds /\ t.translations = <<>> /\ Speaks(t, l.code)
  BY <1>3, <1>4, UpsertFacts
<1>6. translator = StoredAll(t, Collected(f))
  BY <1>2 DEF Created
<1> HIDE DEF t
<1>7. /\ translator \in Sounds
      /\ Speaks(translator, l.code)
      /\ \A c : PairsIn(translator.translations, c)
                  = IF PairsOf(f, c) # {} THEN PairsOf(f, c) ELSE PairsIn(<<>>, c)
  BY <1>5, <1>6, StoreAllFacts
<1>8. \A c : PairsIn(<<>>, c) = {}
  <2>1. <<>> \in Seq(TableEntry) /\ Len(<<>>) = 0
    BY EmptySeq
  <2>2. <<>> \in FullLists
    BY <2>1 DEF FullLists, TableLists, OneEach
  <2>3. \A c : \A i \in 1 .. Len(<<>>) : <<>>[i].code # c
    BY <2>1
  <2>. QED
    BY <2>2, <2>3, PairsInFull
<1>9. \A c \in Codes : PairsOf(f, c) = PairsIn(translator.translations, c)
  BY <1>7, <1>8
<1>10. told = [c \in Codes |-> PairsIn(translator.translations, c)]
  BY <1>2, <1>9
<1>11. \A c \in Codes : Whole(told[c])
  BY <1>2, LoadableWhole
<1>. QED
  BY <1>2, <1>3, <1>7, <1>10, <1>11 DEF TranslatorInv

\* sw_translator_add
LEMMA AddKeeps ==
  ASSUME TranslatorInv, Add PROVE TranslatorInv'
<1>1. PICK l \in Languages : translator' = Upsert(translator, l)
  BY DEF Add
<1>2. l \in LanguageEntry
  BY Passed
<1>3. /\ translator \in Sounds /\ told = [c \in Codes |-> PairsIn(translator.translations, c)]
      /\ (\A c \in Codes : Whole(told[c])) /\ chosen \in Codes /\ Speaks(translator, chosen)
  BY DEF TranslatorInv
<1>4. /\ Upsert(translator, l) \in Sounds
      /\ Upsert(translator, l).translations = translator.translations
      /\ \A c : Speaks(translator, c) => Speaks(Upsert(translator, l), c)
  BY <1>2, <1>3, UpsertFacts
<1>5. told' = told /\ chosen' = chosen
  BY DEF Add
<1>6. /\ translator' \in Sounds /\ translator'.translations = translator.translations
      /\ Speaks(translator', chosen)
  BY <1>1, <1>3, <1>4
<1>7. told' = [c \in Codes |-> PairsIn(translator'.translations, c)]
  BY <1>3, <1>5, <1>6
<1>8. Speaks(translator', chosen') /\ chosen' \in Codes /\ \A c \in Codes : Whole(told'[c])
  BY <1>3, <1>5, <1>6
<1>. QED
  BY <1>6, <1>7, <1>8 DEF TranslatorInv

\* sw_translator_load_json_text
LEMMA LoadTextKeeps ==
  ASSUME TranslatorInv, LoadText PROVE TranslatorInv'
<1>1. PICK code \in Codes, members \in {t \in Tables : FlatValid(t)} :
        /\ translator' = Store(translator, [code |-> code, items |-> members])
        /\ told' = [told EXCEPT ![code] = Pairs(members)]
  BY DEF LoadText
<1> DEFINE table == [code |-> code, items |-> members]
<1>2. table \in TableEntry /\ table.code = code /\ table.items = members
  BY Passed DEF TableEntry
<1>3. /\ translator \in Sounds /\ told = [c \in Codes |-> PairsIn(translator.translations, c)]
      /\ (\A c \in Codes : Whole(told[c])) /\ chosen \in Codes /\ Speaks(translator, chosen)
  BY DEF TranslatorInv
<1>4. translator' = Store(translator, table)
  BY <1>1
<1> HIDE DEF table
<1>5. /\ translator' \in Sounds
      /\ Speaks(translator', chosen)
      /\ \A c : PairsIn(translator'.translations, c)
                  = IF c = code THEN Pairs(members) ELSE PairsIn(translator.translations, c)
  BY <1>2, <1>3, <1>4, StoreFacts
<1>6. told' = [c \in Codes |-> IF c = code THEN Pairs(members) ELSE told[c]]
  BY <1>1, <1>3
<1>7. told' = [c \in Codes |-> PairsIn(translator'.translations, c)]
  BY <1>3, <1>5, <1>6
<1>8. Whole(Pairs(members))
  BY FlatWhole
<1>9. \A c \in Codes : Whole(told'[c])
  BY <1>3, <1>6, <1>8
<1>10. chosen' = chosen
  BY DEF LoadText
<1>11. chosen' \in Codes /\ Speaks(translator', chosen')
  BY <1>3, <1>5, <1>10
<1>. QED
  BY <1>5, <1>7, <1>9, <1>11 DEF TranslatorInv

\* sw_translator_load_all_json_text
LEMMA LoadAllKeeps ==
  ASSUME TranslatorInv, LoadAll PROVE TranslatorInv'
<1>1. PICK f \in GroupFiles :
        /\ GroupsValid(f)
        /\ translator' = StoredAll(translator, Collected(f))
        /\ told' = [c \in Codes |-> IF c \in Mentioned(f) THEN PairsOf(f, c) ELSE told[c]]
  BY DEF LoadAll
<1>2. f \in Loadable
  BY <1>1 DEF Loadable, ValidFiles
<1>3. /\ translator \in Sounds /\ told = [c \in Codes |-> PairsIn(translator.translations, c)]
      /\ (\A c \in Codes : Whole(told[c])) /\ chosen \in Codes /\ Speaks(translator, chosen)
  BY DEF TranslatorInv
<1>4. /\ translator' \in Sounds
      /\ Speaks(translator', chosen)
      /\ \A c : PairsIn(translator'.translations, c)
                  = IF PairsOf(f, c) # {} THEN PairsOf(f, c) ELSE PairsIn(translator.translations, c)
  BY <1>1, <1>2, <1>3, StoreAllFacts
<1>5. \A c : c \in Mentioned(f) <=> PairsOf(f, c) # {}
  BY <1>2, LoadableWhole DEF Mentioned
<1>6. told' = [c \in Codes |-> PairsIn(translator'.translations, c)]
  BY <1>1, <1>3, <1>4, <1>5
<1>7. \A c \in Codes : Whole(told'[c])
  BY <1>1, <1>2, <1>3, LoadableWhole
<1>8. chosen' = chosen
  BY DEF LoadAll
<1>9. chosen' \in Codes /\ Speaks(translator', chosen')
  BY <1>3, <1>4, <1>8
<1>. QED
  BY <1>4, <1>6, <1>7, <1>9 DEF TranslatorInv

\* The same, when it fails between two tables: the tables before it are stored.
LEMMA LoadAllFailsKeeps ==
  ASSUME TranslatorInv, LoadAllFails PROVE TranslatorInv'
<1>0. PICK f \in {g \in GroupFiles : GroupsValid(g)} :
        \E n \in 0 .. Len(Collected(f)) - 1 :
          /\ translator' = Stored(translator, Collected(f), n)
          /\ told' = [c \in Codes |->
                        IF c \in {Collected(f)[i].code : i \in 1 .. n} THEN PairsOf(f, c) ELSE told[c]]
  BY DEF LoadAllFails
<1>1. PICK n \in 0 .. Len(Collected(f)) - 1 :
        /\ translator' = Stored(translator, Collected(f), n)
        /\ told' = [c \in Codes |->
                      IF c \in {Collected(f)[i].code : i \in 1 .. n} THEN PairsOf(f, c) ELSE told[c]]
  BY <1>0
<1> DEFINE K == Collected(f)
<1>2. f \in Loadable
  BY DEF Loadable, ValidFiles
<1>3. /\ K \in TableLists /\ Len(K) \in Nat
      /\ \A k \in 1 .. Len(K) : Pairs(K[k].items) = PairsOf(f, K[k].code)
  BY <1>2, LoadableTables
<1>4. /\ translator \in Sounds /\ told = [c \in Codes |-> PairsIn(translator.translations, c)]
      /\ (\A c \in Codes : Whole(told[c])) /\ chosen \in Codes /\ Speaks(translator, chosen)
  BY DEF TranslatorInv
<1>5. translator' = Stored(translator, K, n) /\ n \in 0 .. Len(K) - 1
  BY <1>1
<1>6. told' = [c \in Codes |-> IF c \in {K[i].code : i \in 1 .. n} THEN PairsOf(f, c) ELSE told[c]]
  BY <1>1
<1> HIDE DEF K
<1>7. n \in 0 .. Len(K) /\ \A i \in 1 .. n : i \in 1 .. Len(K)
  BY <1>3, <1>5
<1>8. /\ translator' \in Sounds
      /\ Speaks(translator', chosen)
      /\ \A k \in 1 .. n : PairsIn(translator'.translations, K[k].code) = Pairs(K[k].items)
      /\ \A c : (\A k \in 1 .. n : K[k].code # c) =>
           PairsIn(translator'.translations, c) = PairsIn(translator.translations, c)
  BY <1>3, <1>4, <1>5, <1>7, StoredFacts
<1>9. ASSUME NEW c \in Codes
      PROVE  PairsIn(translator'.translations, c)
               = IF c \in {K[i].code : i \in 1 .. n} THEN PairsOf(f, c) ELSE told[c]
  <2>1. CASE c \in {K[i].code : i \in 1 .. n}
    <3>1. PICK k \in 1 .. n : c = K[k].code
      BY <2>1
    <3>. QED
      BY <1>3, <1>7, <1>8, <2>1, <3>1
  <2>2. CASE c \notin {K[i].code : i \in 1 .. n}
    <3>1. \A k \in 1 .. n : K[k].code # c
      BY <2>2
    <3>. QED
      BY <1>4, <1>8, <2>2, <3>1
  <2>. QED
    BY <2>1, <2>2
<1>10. told' = [c \in Codes |-> PairsIn(translator'.translations, c)]
  BY <1>6, <1>9
<1>11. \A c \in Codes : Whole(told'[c])
  BY <1>2, <1>4, <1>6, LoadableWhole
<1>12. chosen' = chosen
  BY DEF LoadAllFails
<1>13. chosen' \in Codes /\ Speaks(translator', chosen')
  BY <1>4, <1>8, <1>12
<1>. QED
  BY <1>8, <1>10, <1>11, <1>13 DEF TranslatorInv

\* sw_translator_set_language
LEMMA SetLanguageKeeps ==
  ASSUME TranslatorInv, SetLanguage PROVE TranslatorInv'
<1>1. PICK code \in Codes :
        /\ Find(translator.languages, code) # 0
        /\ translator' = [translator EXCEPT !.current = Find(translator.languages, code)]
        /\ chosen' = code
  BY DEF SetLanguage
<1>2. /\ translator \in Sounds /\ told = [c \in Codes |-> PairsIn(translator.translations, c)]
      /\ \A c \in Codes : Whole(told[c])
  BY DEF TranslatorInv
<1>3. PICK t \in Sounds : t = translator
  BY <1>2
<1> DEFINE at == Find(t.languages, code)
           u == [t EXCEPT !.current = at]
<1>4. /\ t \in [languages : Seq(LanguageEntry), current : Nat, translations : TableLists]
      /\ t.languages \in Seq(LanguageEntry) /\ OneEach(t.languages)
      /\ t.translations \in Seq(TableEntry) /\ OneEach(t.translations)
      /\ \A i \in 1 .. Len(t.translations) : Find(t.languages, t.translations[i].code) # 0
  BY SoundParts
<1>5. at \in 1 .. Len(t.languages) /\ t.languages[at].code = code
  BY <1>1, <1>3, <1>4, FindFacts
<1>6. at \in Nat
  BY <1>5
<1>7. translator' = u
  BY <1>1, <1>3
<1> HIDE DEF at
<1>8. u = [languages |-> t.languages, current |-> at, translations |-> t.translations]
  BY <1>4
<1> HIDE DEF u
<1>9. u \in Sounds
  BY <1>4, <1>6, <1>8, SoundFrom
<1>10. u.languages = t.languages /\ u.current = at /\ u.translations = t.translations
  BY <1>8
<1>11. Speaks(u, code)
  BY <1>5, <1>10 DEF Speaks
<1>12. told' = told
  BY DEF SetLanguage
<1>13. told' = [c \in Codes |-> PairsIn(u.translations, c)] /\ \A c \in Codes : Whole(told'[c])
  BY <1>2, <1>3, <1>10, <1>12
<1>. QED
  BY <1>1, <1>7, <1>9, <1>11, <1>13 DEF TranslatorInv

\* TranslatorInv holds of every state.
LEMMA StepTranslator == TranslatorInv /\ [TranslatorNext]_translatorVars => TranslatorInv'
<1>1. SUFFICES ASSUME TranslatorInv, [TranslatorNext]_translatorVars PROVE TranslatorInv'
  OBVIOUS
<1>2. CASE UNCHANGED translatorVars
  BY <1>1, <1>2 DEF translatorVars, TranslatorInv
<1>3. CASE Add
  BY <1>1, <1>3, AddKeeps
<1>4. CASE LoadText
  BY <1>1, <1>4, LoadTextKeeps
<1>5. CASE LoadAll
  BY <1>1, <1>5, LoadAllKeeps
<1>6. CASE LoadAllFails
  BY <1>1, <1>6, LoadAllFailsKeeps
<1>7. CASE LoadRefused
  BY <1>1, <1>7 DEF LoadRefused, TranslatorInv
<1>8. CASE SetLanguage
  BY <1>1, <1>8, SetLanguageKeeps
<1>. QED
  BY <1>1, <1>2, <1>3, <1>4, <1>5, <1>6, <1>7, <1>8 DEF TranslatorNext

\* The values that pairs have for a text.
ValuesOf(pairs, str) == {m.value : m \in {n \in pairs : n.name = str}}

\* What a list says of a text is the value of the first of its members with that name.
LEMMA Says ==
  ASSUME NEW t \in Sounds, NEW at \in 1 .. Len(t.languages), NEW code, t.languages[at].code = code,
         Whole(PairsIn(t.translations, code)), NEW str
  PROVE  TranslateIn(t, at, str)
           = IF ValuesOf(PairsIn(t.translations, code), str) = {} THEN str
             ELSE CHOOSE v \in ValuesOf(PairsIn(t.translations, code), str) : TRUE
<1> DEFINE said == PairsIn(t.translations, code)
           values == ValuesOf(said, str)
           k == Find(t.translations, code)
           s == t.translations[k].items
           hits == {i \in DOMAIN s : s[i].name = str}
<1>1. /\ t.translations \in Seq(TableEntry)
      /\ \A i \in 1 .. Len(t.translations) : t.translations[i] \in TableEntry
  BY SoundParts, ElementOfSeq
<1>2. at # 0 /\ Find(t.translations, t.languages[at].code) = k
  OBVIOUS
<1>3. CASE k = 0
  <2>1. said = {}
    BY <1>3 DEF PairsIn
  <2>2. values = {}
    BY <2>1 DEF ValuesOf
  <2>3. TranslateIn(t, at, str) = str
    BY <1>2, <1>3 DEF TranslateIn
  <2>. QED
    BY <2>2, <2>3
<1>4. CASE k # 0
  <2>1. said = Pairs(s)
    BY <1>4 DEF PairsIn
  <2>2. k \in 1 .. Len(t.translations)
    BY <1>1, <1>4, FindFacts
  <2>3. s \in Seq(Items)
    BY <1>1, <2>2 DEF TableEntry
  <2>4. DOMAIN s \subseteq Nat
    BY <2>3, LenProperties
  <2>5. TranslateIn(t, at, str) = IF hits = {} THEN str ELSE s[Min(hits)].value
    BY <1>2, <1>4 DEF TranslateIn
  <2> HIDE DEF k, s
  <2>6. CASE hits = {}
    <3>1. values = {}
      BY <2>1, <2>6 DEF Pairs, ValuesOf
    <3>. QED
      BY <2>5, <2>6, <3>1
  <2>7. CASE hits # {}
    <3>1. hits \subseteq Nat /\ \A i \in hits : i \in DOMAIN s /\ s[i].name = str
      BY <2>4
    <3> DEFINE i == Min(hits)
    <3> HIDE DEF hits
    <3>2. \E n \in hits : \A m \in hits : n <= m
      BY <2>7, <3>1, NatMinimum
    <3>3. i \in hits
      BY <3>2 DEF Min
    <3> HIDE DEF i
    <3>4. i \in DOMAIN s /\ s[i].name = str
      BY <3>1, <3>3
    <3>5. s[i] \in said
      BY <2>1, <3>4 DEF Pairs
    <3>6. \A m \in said : m.name = str => m = s[i]
      BY <3>4, <3>5 DEF Whole
    <3>7. values = {s[i].value}
      BY <3>4, <3>5, <3>6 DEF ValuesOf
    <3>8. (CHOOSE v \in {s[i].value} : TRUE) = s[i].value
      OBVIOUS
    <3>9. TranslateIn(t, at, str) = s[i].value
      BY <2>5, <2>7 DEF i
    <3> HIDE DEF values
    <3>10. values # {} /\ (CHOOSE v \in values : TRUE) = s[i].value
      BY <3>7, <3>8
    <3>. QED
      BY <3>9, <3>10 DEF values
  <2>. QED
    BY <2>6, <2>7
<1>. QED
  BY <1>3, <1>4

\* The invariant is what TranslationsWhole says, of every translator.
LEMMA InvTranslations == TranslatorInv => TranslationsWhole
<1>1. SUFFICES ASSUME TranslatorInv PROVE TranslationsWhole
  OBVIOUS
<1>2. /\ translator \in Sounds /\ told = [c \in Codes |-> PairsIn(translator.translations, c)]
      /\ (\A c \in Codes : Whole(told[c])) /\ chosen \in Codes /\ Speaks(translator, chosen)
  BY <1>1 DEF TranslatorInv
<1> DEFINE L == translator.languages
<1>3. /\ L \in Seq(LanguageEntry) /\ OneEach(L)
      /\ translator.translations \in Seq(TableEntry)
      /\ \A i \in 1 .. Len(translator.translations) : Find(L, translator.translations[i].code) # 0
  BY <1>2, SoundParts
<1>4. \A code \in Codes : \A m, n \in told[code] : m.value # Bad /\ (m.name = n.name => m = n)
  BY <1>2 DEF Whole
<1>5. translator.languages[translator.current].code = chosen
  BY <1>2 DEF Speaks
<1>6. ASSUME NEW code \in Codes, told[code] # {} PROVE Find(L, code) # 0
  <2>1. Find(translator.translations, code) # 0
    BY <1>2, <1>6 DEF PairsIn
  <2>2. /\ Find(translator.translations, code) \in 1 .. Len(translator.translations)
        /\ translator.translations[Find(translator.translations, code)].code = code
    BY <1>3, <2>1, FindFacts
  <2>. QED
    BY <1>3, <2>2
<1>7. ASSUME NEW code \in Codes
      PROVE  Cardinality({i \in DOMAIN L : L[i].code = code}) <= 1
  <2> DEFINE at == {i \in DOMAIN L : L[i].code = code}
  <2>1. DOMAIN L = 1 .. Len(L)
    BY <1>3, LenProperties
  <2>2. \A i, j \in at : i = j
    BY <1>3, <2>1 DEF OneEach
  <2> HIDE DEF at
  <2>3. CASE at = {}
    <3>1. Cardinality(at) = 0
      BY <2>3, FS_EmptySet
    <3>. QED
      BY <3>1 DEF at
  <2>4. CASE at # {}
    <3>1. PICK i : at = {i}
      BY <2>2, <2>4
    <3>2. Cardinality(at) = 1
      BY <3>1, FS_Singleton
    <3>. QED
      BY <3>2 DEF at
  <2>. QED
    BY <2>3, <2>4
<1>8. ASSUME NEW code \in Codes, Find(L, code) # 0, NEW str \in Names
      PROVE  TranslateIn(translator, Find(L, code), str) = ToldIn(code, str)
  <2>1. Find(L, code) \in 1 .. Len(L) /\ L[Find(L, code)].code = code
    BY <1>3, <1>8, FindFacts
  <2>2. told[code] = PairsIn(translator.translations, code) /\ Whole(told[code])
    BY <1>2
  <2>3. TranslateIn(translator, Find(L, code), str)
          = IF ValuesOf(told[code], str) = {} THEN str
            ELSE CHOOSE v \in ValuesOf(told[code], str) : TRUE
    <3>1. PICK at \in 1 .. Len(translator.languages) :
            at = Find(L, code) /\ translator.languages[at].code = code
      BY <2>1
    <3>2. TranslateIn(translator, at, str)
            = IF ValuesOf(PairsIn(translator.translations, code), str) = {} THEN str
              ELSE CHOOSE v \in ValuesOf(PairsIn(translator.translations, code), str) : TRUE
      <4>1. translator \in Sounds /\ Whole(PairsIn(translator.translations, code))
        BY <1>2, <2>2
      <4>. QED
        BY <3>1, <4>1, Says, Zenon
    <3>. QED
      BY <2>2, <3>1, <3>2
  <2>4. ToldIn(code, str) = IF ValuesOf(told[code], str) = {} THEN str
                            ELSE CHOOSE v \in ValuesOf(told[code], str) : TRUE
    BY DEF ToldIn, ValuesOf
  <2>. QED
    BY <2>3, <2>4
<1>. QED
  BY <1>4, <1>5, <1>6, <1>7, <1>8 DEF TranslationsWhole

\* Whatever the languages, tables and files of groups, and however often programs
\* register, load and choose: a translator speaks, in each language, exactly the
\* last table it was told, and the language chosen last is the current one.
THEOREM TranslationsAreWhole == TranslatorSpec => []TranslationsWhole
<1>1. TranslatorInit => TranslatorInv
  BY InitTranslator
<1>2. TranslatorInv /\ [TranslatorNext]_translatorVars => TranslatorInv'
  BY StepTranslator
<1>3. TranslatorInv => TranslationsWhole
  BY InvTranslations
<1>. QED
  BY <1>1, <1>2, <1>3, PTL DEF TranslatorSpec
=============================================================================
