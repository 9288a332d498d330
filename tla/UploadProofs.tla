---------------------------- MODULE UploadProofs ----------------------------
(***************************************************************************)
(* What MultipartUpload promises, for any forms, read from memory or from  *)
(* the socket in pieces of any size.                                       *)
(***************************************************************************)
EXTENDS MultipartUpload, ListProofs

-----------------------------------------------------------------------------
(* Texts.                                                                   *)

\* A text is its symbols, each in its place.
LEMMA TextFacts ==
  ASSUME NEW s \in Text
  PROVE  /\ Len(s) \in Nat /\ DOMAIN s = 1 .. Len(s)
         /\ \A i \in 1 .. Len(s) : s[i] \in Symbols
         /\ s # <<>> <=> Len(s) > 0
<1>1. Len(s) \in Nat /\ DOMAIN s = 1 .. Len(s) /\ s \in [1 .. Len(s) -> Symbols]
  BY LenProperties DEF Text
<1>2. s # <<>> <=> Len(s) > 0
  BY <1>1, EmptySeq DEF Text
<1>. QED
  BY <1>1, <1>2

\* Texts of the same symbols are the same.
LEMMA TextEqual ==
  ASSUME NEW s \in Text, NEW t \in Text, Len(s) = Len(t), \A i \in 1 .. Len(s) : s[i] = t[i]
  PROVE  s = t
BY SeqEqual DEF Text

\* The symbols of two texts, one after the other.
LEMMA JoinFacts ==
  ASSUME NEW s \in Text, NEW t \in Text
  PROVE  /\ s \o t \in Text
         /\ Len(s \o t) = Len(s) + Len(t)
         /\ \A i \in 1 .. Len(s) : (s \o t)[i] = s[i]
         /\ \A i \in 1 .. Len(t) : (s \o t)[Len(s) + i] = t[i]
<1>1. /\ s \o t \in Text /\ Len(s \o t) = Len(s) + Len(t)
      /\ \A i \in 1 .. Len(s) + Len(t) : (s \o t)[i] = IF i <= Len(s) THEN s[i] ELSE t[i - Len(s)]
  BY ConcatProperties DEF Text
<1>2. Len(s) \in Nat /\ Len(t) \in Nat
  BY TextFacts
<1>3. ASSUME NEW i \in 1 .. Len(s) PROVE (s \o t)[i] = s[i]
  <2>1. i \in 1 .. Len(s) + Len(t) /\ i <= Len(s)
    BY <1>2
  <2>. QED
    BY <1>1, <2>1
<1>4. ASSUME NEW i \in 1 .. Len(t) PROVE (s \o t)[Len(s) + i] = t[i]
  <2>1. Len(s) + i \in 1 .. Len(s) + Len(t) /\ ~(Len(s) + i <= Len(s)) /\ (Len(s) + i) - Len(s) = i
    BY <1>2
  <2>. QED
    BY <1>1, <2>1
<1>. QED
  BY <1>1, <1>3, <1>4

\* How texts are grouped does not matter.
LEMMA JoinAssociative ==
  ASSUME NEW s \in Text, NEW t \in Text, NEW u \in Text
  PROVE  (s \o t) \o u = s \o (t \o u)
BY ConcatAssociative DEF Text

\* An empty text adds nothing.
LEMMA JoinEmpty ==
  ASSUME NEW s \in Text
  PROVE  <<>> \in Text /\ Len(<<>>) = 0 /\ s \o <<>> = s /\ <<>> \o s = s
BY ConcatEmptySeq, EmptySeq DEF Text

\* What follows the same beginning is the same.
LEMMA JoinCancel ==
  ASSUME NEW s \in Text, NEW t \in Text, NEW u \in Text, s \o t = s \o u
  PROVE  t = u
BY ConcatSimplifications DEF Text

\* A piece of a text.
LEMMA PieceFacts ==
  ASSUME NEW s \in Text, NEW m \in Nat \ {0}, NEW n \in Nat, n <= Len(s)
  PROVE  /\ SubSeq(s, m, n) \in Text
         /\ Len(SubSeq(s, m, n)) = IF m <= n THEN n - m + 1 ELSE 0
         /\ \A i \in 1 .. n - m + 1 : SubSeq(s, m, n)[i] = s[m + i - 1]
<1>1. \A i \in m .. n : s[i] \in Symbols
  BY TextFacts
<1>. QED
  BY <1>1, SubSeqProperties DEF Text

\* What is left of a text from a place on.
LEMMA FromFacts ==
  ASSUME NEW s \in Text, NEW i \in 1 .. Len(s) + 1
  PROVE  /\ From(s, i) \in Text
         /\ Len(From(s, i)) = Len(s) - i + 1
         /\ \A j \in 1 .. Len(s) - i + 1 : From(s, i)[j] = s[i + j - 1]
<1>1. Len(s) \in Nat
  BY TextFacts
<1>2. i \in Nat \ {0}
  BY <1>1
<1>3. i <= Len(s) + 1
  BY <1>1
<1>. QED
  BY <1>1, <1>2, <1>3, PieceFacts DEF From

\* Its first symbol, and what is left after it.
LEMMA HeadFacts ==
  ASSUME NEW s \in Text, s # <<>>
  PROVE  /\ Head(s) = s[1] /\ Head(s) \in Symbols
         /\ Tail(s) \in Text /\ Len(Tail(s)) = Len(s) - 1
         /\ \A i \in 1 .. Len(s) - 1 : Tail(s)[i] = s[i + 1]
         /\ s = <<Head(s)>> \o Tail(s)
<1>1. Len(s) \in Nat /\ Len(s) > 0 /\ \A i \in 1 .. Len(s) : s[i] \in Symbols
  BY TextFacts
<1>2. /\ Head(s) \in Symbols /\ Tail(s) \in Text /\ Len(Tail(s)) = Len(s) - 1
      /\ \A i \in 1 .. Len(Tail(s)) : Tail(s)[i] = s[i + 1]
  BY HeadTailProperties DEF Text
<1>3. Head(s) = s[1]
  BY DEF Text
<1>4. <<Head(s)>> \in Text /\ Len(<<Head(s)>>) = 1 /\ <<Head(s)>>[1] = Head(s)
  BY <1>2 DEF Text
<1> DEFINE t == <<Head(s)>> \o Tail(s)
<1>5. /\ t \in Text /\ Len(t) = 1 + Len(Tail(s))
      /\ \A i \in 1 .. 1 : t[i] = <<Head(s)>>[i]
      /\ \A i \in 1 .. Len(Tail(s)) : t[1 + i] = Tail(s)[i]
  BY <1>2, <1>4, JoinFacts
<1> HIDE DEF t
<1>6. ASSUME NEW i \in 1 .. Len(s) PROVE s[i] = t[i]
  <2>1. CASE i = 1
    BY <1>3, <1>4, <1>5, <2>1
  <2>2. CASE i # 1
    <3>1. i - 1 \in 1 .. Len(Tail(s)) /\ 1 + (i - 1) = i /\ (i - 1) + 1 = i
      BY <1>1, <1>2, <2>2
    <3>. QED
      BY <1>2, <1>5, <3>1
  <2>. QED
    BY <2>1, <2>2
<1>7. s = t
  BY <1>1, <1>2, <1>5, <1>6, TextEqual
<1>. QED
  BY <1>1, <1>2, <1>3, <1>7 DEF t

\* A beginning of a text and what is left.
LEMMA SplitFacts ==
  ASSUME NEW s \in Text, NEW i \in 0 .. Len(s)
  PROVE  /\ SubSeq(s, 1, i) \in Text /\ Len(SubSeq(s, 1, i)) = i
         /\ \A j \in 1 .. i : SubSeq(s, 1, i)[j] = s[j]
         /\ SubSeq(s, 1, i) \o From(s, i + 1) = s
<1>1. Len(s) \in Nat /\ i \in Nat /\ i <= Len(s)
  BY TextFacts
<1>2. /\ SubSeq(s, 1, i) \in Text /\ Len(SubSeq(s, 1, i)) = i
      /\ \A j \in 1 .. i : SubSeq(s, 1, i)[j] = s[j]
  BY <1>1, PieceFacts
<1>3. SubSeq(s, 1, i) \o From(s, i + 1) = s
  <2>1. /\ 1 \in 1 .. Len(s) + 1 /\ i \in 1 - 1 .. Len(s) /\ Len(s) \in i .. Len(s)
    BY <1>1
  <2>2. SubSeq(s, 1, i) \o SubSeq(s, i + 1, Len(s)) = SubSeq(s, 1, Len(s))
    BY <2>1, ConcatAdjacentSubSeq DEF Text
  <2>. QED
    BY <2>2, SubSeqFull DEF From, Text
<1>. QED
  BY <1>2, <1>3

\* What is left of two texts, from a place in the first.
LEMMA FromJoin ==
  ASSUME NEW s \in Text, NEW t \in Text, NEW i \in 1 .. Len(s) + 1
  PROVE  From(s \o t, i) = From(s, i) \o t
<1> DEFINE st == s \o t
           fs == From(s, i)
           a == From(st, i)
           b == fs \o t
           m == Len(s) - i + 1
<1>1. Len(s) \in Nat /\ Len(t) \in Nat /\ i \in Nat \ {0} /\ i <= Len(s) + 1 /\ m \in Nat
  BY TextFacts
<1>2. /\ st \in Text /\ Len(st) = Len(s) + Len(t)
      /\ \A j \in 1 .. Len(s) : st[j] = s[j]
      /\ \A j \in 1 .. Len(t) : st[Len(s) + j] = t[j]
  BY JoinFacts
<1>5. fs \in Text /\ Len(fs) = m /\ \A j \in 1 .. m : fs[j] = s[i + j - 1]
  BY FromFacts
<1> HIDE DEF st, fs
<1>3. i \in 1 .. Len(st) + 1 /\ Len(st) - i + 1 = m + Len(t)
  BY <1>1, <1>2
<1>4. a \in Text /\ Len(a) = Len(st) - i + 1 /\ \A j \in 1 .. Len(st) - i + 1 : a[j] = st[i + j - 1]
  BY <1>2, <1>3, FromFacts
<1>6. /\ b \in Text /\ Len(b) = Len(fs) + Len(t)
      /\ \A j \in 1 .. Len(fs) : b[j] = fs[j]
      /\ \A j \in 1 .. Len(t) : b[Len(fs) + j] = t[j]
  BY <1>5, JoinFacts
<1> HIDE DEF a, b
<1>7. ASSUME NEW j \in 1 .. Len(a) PROVE a[j] = b[j]
  <2>1. j \in 1 .. m + Len(t) /\ a[j] = st[i + j - 1]
    BY <1>3, <1>4
  <2>2. CASE j <= m
    <3>1. j \in 1 .. m /\ i + j - 1 \in 1 .. Len(s)
      BY <1>1, <2>1, <2>2
    <3>. QED
      BY <1>2, <1>5, <1>6, <2>1, <3>1
  <2>3. CASE j > m
    <3>1. j - m \in 1 .. Len(t) /\ m + (j - m) = j /\ Len(s) + (j - m) = i + j - 1
      BY <1>1, <2>1, <2>3
    <3>2. b[m + (j - m)] = t[j - m] /\ st[Len(s) + (j - m)] = t[j - m]
      BY <1>2, <1>5, <1>6, <3>1
    <3>. QED
      BY <2>1, <3>1, <3>2
  <2>. QED
    BY <1>1, <2>1, <2>2, <2>3
<1>8. a = b
  BY <1>3, <1>4, <1>5, <1>6, <1>7, TextEqual
<1>. QED
  BY <1>8 DEF a, b, st, fs

\* The first symbol of two texts is the first one's.
LEMMA HeadJoin ==
  ASSUME NEW s \in Text, NEW t \in Text, s # <<>>
  PROVE  s \o t \in Text /\ s \o t # <<>> /\ Head(s \o t) = s[1] /\ Tail(s \o t) = Tail(s) \o t
<1> DEFINE u == s \o t
           h == <<Head(s)>>
<1>1. /\ Head(s) = s[1] /\ Head(s) \in Symbols /\ Tail(s) \in Text /\ s = h \o Tail(s)
      /\ Len(s) \in Nat /\ Len(s) > 0
  BY HeadFacts, TextFacts
<1>2. /\ u \in Text /\ Len(u) = Len(s) + Len(t) /\ \A i \in 1 .. Len(s) : u[i] = s[i]
  BY JoinFacts
<1>3. h \in Text
  BY <1>1 DEF Text
<1>4. u = h \o (Tail(s) \o t) /\ Tail(s) \o t \in Text
  <2>1. (h \o Tail(s)) \o t = h \o (Tail(s) \o t)
    BY <1>1, <1>3, JoinAssociative
  <2>. QED
    BY <1>1, <2>1, JoinFacts
<1> HIDE DEF u, h
<1>5. u # <<>> /\ u[1] = s[1]
  <2>1. Len(t) \in Nat
    BY TextFacts
  <2>2. Len(u) > 0 /\ 1 \in 1 .. Len(s)
    BY <1>1, <1>2, <2>1
  <2>. QED
    BY <1>2, <2>2, TextFacts
<1>6. Head(u) = u[1] /\ Tail(u) \in Text /\ u = <<Head(u)>> \o Tail(u)
  BY <1>2, <1>5, HeadFacts
<1>7. h \o Tail(u) = h \o (Tail(s) \o t)
  BY <1>1, <1>4, <1>5, <1>6 DEF h
<1>8. Tail(u) = Tail(s) \o t
  BY <1>3, <1>4, <1>6, <1>7, JoinCancel
<1>. QED
  BY <1>2, <1>5, <1>6, <1>8 DEF u

\* What is left after one symbol more.
LEMMA FromNext ==
  ASSUME NEW s \in Text, NEW i \in 1 .. Len(s)
  PROVE  /\ From(s, i) \in Text /\ From(s, i) # <<>>
         /\ Head(From(s, i)) = s[i] /\ Tail(From(s, i)) = From(s, i + 1)
<1>1. Len(s) \in Nat /\ i \in 1 .. Len(s) + 1 /\ Len(s) \in i .. Len(s)
  BY TextFacts
<1>2. From(s, i) \in Text /\ Len(From(s, i)) = Len(s) - i + 1
  BY <1>1, FromFacts
<1>3. Head(SubSeq(s, i, Len(s))) = s[i] /\ Tail(SubSeq(s, i, Len(s))) = SubSeq(s, i + 1, Len(s))
  BY <1>1, HeadTailOfSubSeq DEF Text
<1>4. Len(From(s, i)) > 0
  BY <1>1, <1>2
<1>. QED
  BY <1>2, <1>3, <1>4, TextFacts DEF From

\* All of a text is left at its beginning, and nothing at its end.
LEMMA FromEnds ==
  ASSUME NEW s \in Text
  PROVE  From(s, 1) = s /\ From(s, Len(s) + 1) = <<>>
<1>1. Len(s) \in Nat
  BY TextFacts
<1>2. SubSeq(s, 1, Len(s)) = s
  BY SubSeqFull DEF Text
<1>3. SubSeq(s, Len(s) + 1, Len(s)) = <<>>
  BY <1>1, SubSeqEmpty
<1>. QED
  BY <1>2, <1>3 DEF From

-----------------------------------------------------------------------------
(* The reader from the socket takes the bytes sent, each once.              *)

\* What is not read yet, of a buffer b of which u bytes are, of the chunk c and
\* of what the client has sent.
Left(b, u, c, n) == From(b, u + 1) \o (c \o n)
Unread == Left(buffer, used, chunk, net)

\* The reader has to read r bytes of the form f.
Input(f, b, u, c, n, r) ==
  /\ b \in Text /\ c \in Text /\ n \in Text
  /\ u \in 0 .. Len(b)
  /\ r \in 0 .. Announced(f)
  /\ Len(c) <= r
  /\ c # <<>> => u = Len(b)
  /\ Left(b, u, c, n) = From(Sent(f), Announced(f) - r + 1)

\* What is sent of a form, and how much of it the reader may take.
Sizes(f) ==
  /\ Sent(f) \in Text
  /\ Announced(f) \in Nat /\ f.cut \in Nat
  /\ Len(Sent(f)) = Announced(f) + f.cut + 2

\* A byte from the buffer.
LEMMA LeftBuffer ==
  ASSUME NEW b \in Text, NEW c \in Text, NEW n \in Text, NEW u \in Nat, u < Len(b)
  PROVE  /\ Left(b, u, c, n) \in Text /\ Left(b, u, c, n) # <<>>
         /\ Head(Left(b, u, c, n)) = b[u + 1]
         /\ Tail(Left(b, u, c, n)) = From(b, u + 2) \o (c \o n)
<1> DEFINE s == From(b, u + 1)
           t == c \o n
<1>1. Len(b) \in Nat /\ u + 1 \in 1 .. Len(b) /\ (u + 1) + 1 = u + 2
  BY TextFacts
<1>2. s \in Text /\ s # <<>> /\ Head(s) = b[u + 1] /\ Tail(s) = From(b, u + 2)
  BY <1>1, FromNext
<1>3. t \in Text
  BY JoinFacts
<1>4. Left(b, u, c, n) = s \o t
  BY DEF Left
<1> HIDE DEF s, t
<1>5. Head(s) = s[1]
  BY <1>2, HeadFacts
<1>6. s \o t \in Text /\ s \o t # <<>> /\ Head(s \o t) = s[1] /\ Tail(s \o t) = Tail(s) \o t
  BY <1>2, <1>3, HeadJoin
<1>. QED
  BY <1>2, <1>4, <1>5, <1>6 DEF t

\* When the buffer is read, what is left is the chunk and what follows.
LEMMA LeftChunk ==
  ASSUME NEW b \in Text, NEW c \in Text, NEW n \in Text
  PROVE  Left(b, Len(b), c, n) = c \o n /\ c \o n \in Text /\ Left(<<>>, 0, c, n) = c \o n
<1>1. c \o n \in Text
  BY JoinFacts
<1>2. <<>> \in Text /\ Len(<<>>) = 0 /\ <<>> \o (c \o n) = c \o n
  BY <1>1, JoinEmpty
<1>3. From(b, Len(b) + 1) = <<>> /\ From(<<>>, 1) = <<>>
  BY <1>2, FromEnds
<1>. QED
  BY <1>1, <1>2, <1>3, SMTT(60) DEF Left

\* Taking a byte takes the next one.
LEMMA TakeFacts ==
  ASSUME Sizes(form), Input(form, buffer, used, chunk, net, remaining), Take
  PROVE  /\ Input(form, buffer', used', chunk', net', remaining')
         /\ remaining > 0 /\ remaining' = remaining - 1
         /\ Unread \in Text /\ Unread # <<>> /\ Byte = Head(Unread)
         /\ Left(buffer', used', chunk', net') = Tail(Unread)
<1> DEFINE S == Sent(form)
           a == Announced(form)
           k == a - remaining + 1
<1>1. /\ buffer \in Text /\ chunk \in Text /\ net \in Text
      /\ used \in 0 .. Len(buffer) /\ remaining \in 0 .. a /\ Len(chunk) <= remaining
      /\ chunk # <<>> => used = Len(buffer)
      /\ Unread = From(S, k)
  BY DEF Input, Unread
<1>2. S \in Text /\ a \in Nat /\ Len(S) >= a + 2 /\ Len(S) \in Nat
  BY DEF Sizes
<1> HIDE DEF S, a
<1>3. remaining > 0 /\ remaining' = remaining - 1 /\ net' = net /\ Ready
  BY DEF Take
<1>4. Len(buffer) \in Nat /\ Len(chunk) \in Nat /\ used \in Nat /\ remaining \in Nat
  BY <1>1, <1>2, TextFacts
<1>5. /\ k \in 1 .. Len(S) /\ k + 1 = a - remaining' + 1 /\ remaining' \in 0 .. a
  BY <1>1, <1>2, <1>3, <1>4
<1> HIDE DEF k
<1>6. Tail(Unread) = From(S, k + 1)
  BY <1>1, <1>2, <1>5, FromNext
<1>7. /\ buffer' \in Text /\ chunk' \in Text /\ used' \in 0 .. Len(buffer')
      /\ Len(chunk') <= remaining' /\ (chunk' # <<>> => used' = Len(buffer'))
      /\ Unread \in Text /\ Unread # <<>> /\ Byte = Head(Unread)
      /\ Left(buffer', used', chunk', net) = Tail(Unread)
  <2>1. CASE used < Len(buffer)
    <3>1. /\ Unread \in Text /\ Unread # <<>> /\ Head(Unread) = buffer[used + 1]
          /\ Tail(Unread) = From(buffer, used + 2) \o (chunk \o net)
      BY <1>1, <1>4, <2>1, LeftBuffer DEF Unread
    <3>2. Byte = buffer[used + 1]
      BY <2>1 DEF Byte
    <3>3. chunk = <<>>
      BY <1>1, <1>4, <2>1
    <3>4. chunk' = chunk /\ Len(chunk') = 0
      BY <2>1, <3>3 DEF Take
    <3>7. Len(chunk') <= remaining' /\ chunk' = <<>> /\ chunk' \in Text
      BY <1>1, <1>3, <1>4, <3>3, <3>4
    <3>5. CASE used + 1 >= ReadChunk
      <4>1. used' = 0 /\ buffer' = From(buffer, used + 2)
        BY <2>1, <3>5 DEF Take, From
      <4>2. used + 2 \in 1 .. Len(buffer) + 1
        BY <1>4, <2>1
      <4>3. buffer' \in Text /\ From(buffer', 1) = buffer' /\ Len(buffer') \in Nat
        BY <1>1, <4>1, <4>2, FromFacts, FromEnds, TextFacts
      <4>4. Left(buffer', used', chunk', net) = buffer' \o (chunk \o net)
        BY <3>4, <4>1, <4>3 DEF Left
      <4>5. 0 \in 0 .. Len(buffer') /\ Len(buffer') \in Nat
        BY <4>3
      <4>6. Left(buffer', used', chunk', net) = Tail(Unread)
        BY <3>1, <4>1, <4>4
      <4>. QED
        BY <3>1, <3>2, <3>7, <4>1, <4>3, <4>5, <4>6
    <3>6. CASE ~(used + 1 >= ReadChunk)
      <4>1. used' = used + 1 /\ buffer' = buffer
        BY <2>1, <3>6 DEF Take
      <4>2. (used + 1) + 1 = used + 2 /\ used + 1 \in 0 .. Len(buffer)
        BY <1>4, <2>1
      <4>3. Left(buffer', used', chunk', net) = From(buffer, used + 2) \o (chunk \o net)
        BY <3>4, <4>1, <4>2 DEF Left
      <4>4. buffer' \in Text /\ used' \in 0 .. Len(buffer')
        BY <1>1, <4>1, <4>2
      <4>5. Left(buffer', used', chunk', net) = Tail(Unread)
        BY <3>1, <4>3
      <4>. QED
        BY <3>1, <3>2, <3>7, <4>4, <4>5
    <3>. QED
      BY <3>5, <3>6
  <2>2. CASE ~(used < Len(buffer))
    <3>1. used = Len(buffer) /\ chunk # <<>>
      BY <1>1, <1>3, <1>4, <2>2 DEF Ready
    <3>2. used' = 0 /\ buffer' = <<>> /\ chunk' = Tail(chunk) /\ Byte = Head(chunk)
      BY <2>2 DEF Take, Byte
    <3>3. /\ Head(chunk) = chunk[1] /\ Tail(chunk) \in Text /\ Len(Tail(chunk)) = Len(chunk) - 1
      BY <1>1, <3>1, HeadFacts
    <3>4. Unread = chunk \o net
      BY <1>1, <3>1, LeftChunk DEF Unread
    <3>5. /\ chunk \o net \in Text /\ chunk \o net # <<>> /\ Head(chunk \o net) = chunk[1]
          /\ Tail(chunk \o net) = Tail(chunk) \o net
      BY <1>1, <3>1, HeadJoin
    <3>6. Left(<<>>, 0, Tail(chunk), net) = Tail(chunk) \o net
      BY <1>1, <3>3, LeftChunk
    <3>7. <<>> \in Text /\ Len(<<>>) = 0
      BY <1>1, JoinEmpty
    <3>8. Len(chunk') <= remaining'
      BY <1>1, <1>3, <1>4, <3>2, <3>3
    <3>. QED
      BY <3>2, <3>3, <3>4, <3>5, <3>6, <3>7, <3>8
  <2>. QED
    BY <2>1, <2>2
<1>8. Input(form, buffer', used', chunk', net', remaining')
  BY <1>1, <1>3, <1>5, <1>6, <1>7 DEF Input, k, S, a
<1>. QED
  BY <1>3, <1>7, <1>8

\* Receiving moves bytes from what the client has sent to the chunk.
LEMMA ReceiveFacts ==
  ASSUME Sizes(form), Input(form, buffer, used, chunk, net, remaining), Receive
  PROVE  /\ Input(form, buffer', used', chunk', net', remaining')
         /\ Left(buffer', used', chunk', net') = Unread
<1>1. /\ buffer \in Text /\ chunk \in Text /\ net \in Text
      /\ used \in 0 .. Len(buffer) /\ remaining \in 0 .. Announced(form) /\ Announced(form) \in Nat
      /\ Left(buffer, used, chunk, net) = From(Sent(form), Announced(form) - remaining + 1)
  BY DEF Input, Sizes
<1>2. Len(buffer) \in Nat /\ Len(net) \in Nat /\ remaining \in Nat /\ ReadChunk \in Nat
  BY <1>1, TextFacts, LimitsAssumption
<1>3. PICK n \in 1 .. Receivable : chunk' = SubSeq(net, 1, n) /\ net' = SubSeq(net, n + 1, Len(net))
  BY DEF Receive
<1>4. Receivable \in Nat /\ Receivable <= remaining /\ Receivable <= Len(net)
  <2> DEFINE R == {remaining, ReadChunk, Len(net)}
  <2>1. R \subseteq Nat /\ R # {} /\ remaining \in R /\ Len(net) \in R
    BY <1>2
  <2>2. PICK m \in R : \A y \in R : m <= y
    BY <2>1, NatMinimum
  <2>3. Receivable = CHOOSE x \in R : \A y \in R : x =< y
    BY DEF Receivable, Min
  <2> HIDE DEF R
  <2>4. Receivable \in R /\ \A y \in R : Receivable =< y
    BY <2>2, <2>3
  <2>. QED
    BY <2>1, <2>4
<1>5. n \in 0 .. Len(net) /\ n <= remaining
  BY <1>2, <1>4
<1>6. /\ chunk' \in Text /\ Len(chunk') = n /\ chunk' \o net' = net
  BY <1>1, <1>3, <1>5, SplitFacts DEF From
<1>7. net' \in Text
  <2>1. n + 1 \in 1 .. Len(net) + 1
    BY <1>2, <1>5
  <2>. QED
    BY <1>1, <1>3, <2>1, FromFacts DEF From
<1>8. used = Len(buffer) /\ chunk = <<>> /\ buffer' = <<>> /\ used' = 0 /\ remaining' = remaining
  BY <1>1, <1>2 DEF Receive, Waits, Ready
<1>9. Unread = net
  <2>1. <<>> \o net = net
    BY <1>1, JoinEmpty
  <2>. QED
    BY <1>1, <1>8, <2>1, LeftChunk DEF Unread
<1>10. Left(buffer', used', chunk', net') = net
  <2>1. Left(<<>>, 0, chunk', net') = chunk' \o net'
    BY <1>6, <1>7, LeftChunk
  <2>. QED
    BY <1>6, <1>8, <2>1
<1>11. <<>> \in Text /\ Len(<<>>) = 0
  BY <1>1, JoinEmpty
<1>12. Len(chunk') <= remaining' /\ 0 \in 0 .. Len(buffer')
  BY <1>5, <1>6, <1>8, <1>11
<1>13. chunk' # <<>> => used' = Len(buffer')
  BY <1>8, <1>11
<1>14. Input(form, buffer', used', chunk', net', remaining')
  BY <1>1, <1>6, <1>7, <1>8, <1>9, <1>10, <1>11, <1>12, <1>13 DEF Input, Unread
<1>. QED
  BY <1>9, <1>10, <1>14

-----------------------------------------------------------------------------
(* Texts joined to one.                                                     *)

\* FlattenSeq adds one text after the other.
LEMMA FlattenIs ==
  ASSUME NEW ss \in Seq(Text)
  PROVE  \E g \in [0 .. Len(ss) -> Text] :
           /\ g[0] = <<>>
           /\ \A k \in 1 .. Len(ss) : g[k] = g[k - 1] \o ss[k]
           /\ FlattenSeq(ss) = g[Len(ss)]
<1> DEFINE n == Len(ss)
           step == [k \in 1 .. n |-> [x \in Text |-> x \o ss[k]]]
           q == CHOOSE p : p = [i \in 1 .. n |-> IF i = 1 THEN ss[i] ELSE p[i - 1] \o ss[i]]
<1>1. n \in Nat /\ \A k \in 1 .. n : ss[k] \in Text
  BY LenProperties
<1>2. FlattenSeq(ss) = IF n = 0 THEN ss ELSE q[n]
  BY DEF FlattenSeq
<1>3. n = 0 => ss = <<>>
  BY EmptySeq
<1>4. <<>> \in Text
  BY EmptySeq DEF Text
<1> HIDE DEF n, q
<1>5. step \in [1 .. n -> [Text -> Text]]
  BY <1>1, JoinFacts
<1>6. \A x \in Text : \A k \in 1 .. n : step[k][x] = x \o ss[k]
  OBVIOUS
<1> HIDE DEF step
<1> DEFINE e == <<>>
           D == Text
<1>16. n \in Nat /\ e \in D /\ step \in [1 .. n -> [D -> D]]
  BY <1>1, <1>4, <1>5
<1> HIDE DEF e, D
<1>17. PICK g \in [0 .. n -> D] : g[0] = e /\ \A k \in 1 .. n : g[k] = step[k][g[k - 1]]
  BY <1>16, Recursion
<1>7. g[0] = <<>> /\ g \in [0 .. n -> Text] /\ \A k \in 1 .. n : g[k] = step[k][g[k - 1]]
  BY <1>17 DEF e, D
<1>8. ASSUME NEW k \in 1 .. n PROVE g[k] = g[k - 1] \o ss[k]
  <2>1. k - 1 \in 0 .. n
    BY <1>1
  <2>. QED
    BY <1>6, <1>7, <2>1
<1> DEFINE h == [i \in 1 .. n |-> g[i]]
<1>9. ASSUME NEW i \in 1 .. n PROVE h[i] = IF i = 1 THEN ss[i] ELSE h[i - 1] \o ss[i]
  <2>1. CASE i = 1
    <3>1. i - 1 = 0
      BY <2>1
    <3>2. g[i] = <<>> \o ss[i]
      BY <1>7, <1>8, <3>1
    <3>. QED
      BY <1>1, <2>1, <3>2, JoinEmpty
  <2>2. CASE i # 1
    <3>1. i - 1 \in 1 .. n
      BY <1>1, <2>2
    <3>. QED
      BY <1>8, <2>2, <3>1
  <2>. QED
    BY <2>1, <2>2
<1>10. h = [i \in 1 .. n |-> IF i = 1 THEN ss[i] ELSE h[i - 1] \o ss[i]]
  BY <1>9
<1> HIDE DEF h
<1>11. q = [i \in 1 .. n |-> IF i = 1 THEN ss[i] ELSE q[i - 1] \o ss[i]]
  BY <1>10 DEF q
<1> DEFINE T == {k \in Nat : k \in 1 .. n => q[k] = g[k]}
<1>12. 0 \in T
  OBVIOUS
<1>13. ASSUME NEW k \in Nat, k \in T PROVE k + 1 \in T
  <2>1. SUFFICES ASSUME k + 1 \in 1 .. n PROVE q[k + 1] = g[k + 1]
    OBVIOUS
  <2>2. (k + 1) - 1 = k
    OBVIOUS
  <2>3. g[k + 1] = g[k] \o ss[k + 1]
    BY <1>8, <2>1, <2>2
  <2>4. CASE k = 0
    <3>1. k + 1 = 1
      BY <2>4
    <3>2. q[k + 1] = ss[k + 1]
      BY <1>11, <2>1, <3>1
    <3>3. g[k + 1] = ss[k + 1]
      BY <1>1, <1>7, <2>1, <2>3, <2>4, JoinEmpty
    <3>. QED
      BY <3>2, <3>3
  <2>5. CASE k # 0
    <3>1. k \in 1 .. n /\ k + 1 # 1
      BY <1>1, <2>1, <2>5
    <3>2. q[k + 1] = q[k] \o ss[k + 1]
      BY <1>11, <2>1, <2>2, <3>1
    <3>. QED
      BY <1>13, <2>3, <3>1, <3>2
  <2>. QED
    BY <2>4, <2>5
<1>14. Nat \subseteq T
  BY <1>12, <1>13, NatInduct
<1>15. FlattenSeq(ss) = g[n]
  <2>1. CASE n = 0
    BY <1>2, <1>3, <1>7, <2>1
  <2>2. CASE n # 0
    <3>1. n \in 1 .. n
      BY <1>1, <2>2
    <3>. QED
      BY <1>1, <1>2, <1>14, <2>2, <3>1
  <2>. QED
    BY <2>1, <2>2
<1>. QED
  BY <1>7, <1>8, <1>15 DEF n

\* The texts of ss after the first i, joined.
After(ss, i) == FlattenSeq(SubSeq(ss, i + 1, Len(ss)))

\* The first text comes first.
LEMMA FlattenFirst ==
  ASSUME NEW ss \in Seq(Text), ss # <<>>
  PROVE  FlattenSeq(ss) = ss[1] \o FlattenSeq(Tail(ss))
<1> DEFINE tt == Tail(ss)
           n == Len(ss)
<1>1. /\ n \in Nat /\ n > 0 /\ tt \in Seq(Text) /\ Len(tt) = n - 1
      /\ \A k \in 1 .. n - 1 : tt[k] = ss[k + 1]
      /\ \A k \in 1 .. n : ss[k] \in Text
  BY LenProperties, EmptySeq, HeadTailProperties
<1> HIDE DEF tt
<1>2. PICK g \in [0 .. n -> Text] :
        g[0] = <<>> /\ (\A k \in 1 .. n : g[k] = g[k - 1] \o ss[k]) /\ FlattenSeq(ss) = g[n]
  BY FlattenIs
<1>3. PICK h \in [0 .. Len(tt) -> Text] :
        /\ h[0] = <<>> /\ (\A k \in 1 .. Len(tt) : h[k] = h[k - 1] \o tt[k])
        /\ FlattenSeq(tt) = h[Len(tt)]
  BY <1>1, FlattenIs
<1> HIDE DEF n
<1> DEFINE Same(k) == k <= n - 1 => g[k + 1] = ss[1] \o h[k]
           T == {k \in Nat : Same(k)}
<1>4. Same(0)
  <2>1. 1 \in 1 .. n /\ 1 - 1 = 0 /\ 0 + 1 = 1
    BY <1>1
  <2>2. g[1] = <<>> \o ss[1]
    BY <1>2, <2>1
  <2>3. ss[1] \in Text
    BY <1>1, <2>1
  <2>4. g[0 + 1] = ss[1] \o h[0]
    BY <1>3, <2>1, <2>2, <2>3, JoinEmpty
  <2>. QED
    BY <2>4
<1>5. ASSUME NEW k \in Nat, Same(k) PROVE Same(k + 1)
  <2>1. SUFFICES ASSUME k + 1 <= n - 1 PROVE g[(k + 1) + 1] = ss[1] \o h[k + 1]
    OBVIOUS
  <2>2. /\ (k + 1) + 1 \in 1 .. n /\ ((k + 1) + 1) - 1 = k + 1 /\ k + 1 \in 1 .. n - 1
        /\ (k + 1) - 1 = k /\ k \in 0 .. n - 1 /\ 1 \in 1 .. n /\ k <= n - 1 /\ k + 1 \in 1 .. n
    BY <1>1, <2>1
  <2>3. g[(k + 1) + 1] = g[k + 1] \o ss[(k + 1) + 1]
    BY <1>2, <2>2
  <2>4. h[k + 1] = h[k] \o tt[k + 1] /\ tt[k + 1] = ss[(k + 1) + 1]
    BY <1>1, <1>3, <2>2
  <2>5. g[k + 1] = ss[1] \o h[k]
    BY <1>5, <2>2
  <2>6. ss[1] \in Text /\ h[k] \in Text /\ ss[(k + 1) + 1] \in Text
    BY <1>1, <1>3, <2>2
  <2>7. (ss[1] \o h[k]) \o ss[(k + 1) + 1] = ss[1] \o (h[k] \o ss[(k + 1) + 1])
    BY <2>6, JoinAssociative
  <2>. QED
    BY <2>3, <2>4, <2>5, <2>7
<1> HIDE DEF Same
<1>6. Nat \subseteq T
  <2>1. 0 \in T /\ \A k \in Nat : k \in T => k + 1 \in T
    BY <1>4, <1>5
  <2> HIDE DEF T
  <2>. QED
    BY <2>1, NatInduct
<1>7. n - 1 \in Nat /\ (n - 1) + 1 = n /\ n - 1 <= n - 1
  BY <1>1
<1>8. Same(n - 1)
  BY <1>6, <1>7
<1>9. g[n] = ss[1] \o h[n - 1]
  BY <1>7, <1>8 DEF Same
<1>. QED
  BY <1>1, <1>2, <1>3, <1>9 DEF tt

\* What is joined after i texts: all of them, one and the rest, or none.
LEMMA AfterFacts ==
  ASSUME NEW ss \in Seq(Text)
  PROVE  /\ After(ss, 0) = FlattenSeq(ss)
         /\ After(ss, Len(ss)) = <<>>
         /\ \A i \in 0 .. Len(ss) : After(ss, i) \in Text
         /\ \A i \in 0 .. Len(ss) - 1 : After(ss, i) = ss[i + 1] \o After(ss, i + 1)
<1> DEFINE n == Len(ss)
<1>1. n \in Nat /\ \A k \in 1 .. n : ss[k] \in Text
  BY LenProperties
<1>2. SubSeq(ss, 1, n) = ss
  BY SubSeqFull
<1>3. SubSeq(ss, n + 1, n) = <<>>
  BY <1>1, SubSeqEmpty
<1>4. FlattenSeq(<<>>) = <<>>
  BY DEF FlattenSeq
<1>5. ASSUME NEW i \in 0 .. n PROVE SubSeq(ss, i + 1, n) \in Seq(Text)
  <2>1. i + 1 \in Int /\ n \in Int /\ \A k \in i + 1 .. n : ss[k] \in Text
    BY <1>1
  <2>. QED
    BY <2>1, SubSeqProperties
<1>6. ASSUME NEW ts \in Seq(Text) PROVE FlattenSeq(ts) \in Text
  <2>1. Len(ts) \in Nat
    BY LenProperties
  <2>2. PICK g \in [0 .. Len(ts) -> Text] : FlattenSeq(ts) = g[Len(ts)]
    BY FlattenIs
  <2>. QED
    BY <2>1, <2>2
<1>7. ASSUME NEW i \in 0 .. n - 1 PROVE After(ss, i) = ss[i + 1] \o After(ss, i + 1)
  <2> DEFINE ts == SubSeq(ss, i + 1, n)
  <2>1. i + 1 \in 1 .. n /\ n \in i + 1 .. n /\ i \in 0 .. n
    BY <1>1
  <2>2. Head(ts) = ss[i + 1] /\ Tail(ts) = SubSeq(ss, (i + 1) + 1, n)
    BY <2>1, HeadTailOfSubSeq
  <2>3. Len(ts) = n - (i + 1) + 1 /\ ts \in Seq(Text)
    <3>1. i + 1 \in Int /\ n \in Int /\ i + 1 <= n /\ \A k \in i + 1 .. n : ss[k] \in Text
      BY <1>1, <2>1
    <3>. QED
      BY <3>1, SubSeqProperties
  <2>4. ts # <<>>
    <3>1. Len(ts) > 0
      BY <1>1, <2>1, <2>3
    <3>. QED
      BY <3>1, EmptySeq
  <2>5. Head(ts) = ts[1]
    BY <2>3
  <2>6. FlattenSeq(ts) = ts[1] \o FlattenSeq(Tail(ts))
    BY <2>3, <2>4, FlattenFirst
  <2>. QED
    BY <2>2, <2>5, <2>6 DEF After
<1>8. After(ss, 0) = FlattenSeq(ss)
  <2>1. 0 + 1 = 1
    OBVIOUS
  <2>. QED
    BY <1>2, <2>1 DEF After
<1>9. After(ss, n) = <<>>
  BY <1>3, <1>4 DEF After
<1>10. \A i \in 0 .. n : After(ss, i) \in Text
  BY <1>5, <1>6 DEF After
<1>. QED
  BY <1>7, <1>8, <1>9, <1>10

-----------------------------------------------------------------------------
(* A form, from each of its places on.                                      *)

\* The lines of a part's headers; what is left of them after q, with the empty line.
Lines(p) == [i \in DOMAIN p.headers |-> <<p.headers[i]>> \o CRLF]
Headers(p, q) == After(Lines(p), q) \o CRLF

\* What is left of a form when i of its parts, and the boundary after them, are read.
Encodings(f) == [i \in DOMAIN f.parts |-> Encoded(f.parts[i])]
Rest(f, i) == After(Encodings(f), i) \o (<<"-", "-">> \o (f.tail \o NextRequest))

\* A part's text before the text r.
PartText(p, q, r) == Headers(p, q) \o (p.data \o (Marker \o r))

\* The parts a form may have.
PartOf(p) ==
  /\ p.headers \in Text /\ p.data \in Text
  /\ \A i \in 1 .. Len(p.headers) : p.headers[i] # "CR" /\ p.headers[i] # "LF"
  /\ \A j \in 1 .. Len(p.data) : ~OccursAt(Marker, CRLF \o p.data, j)

\* Lists of two and of three elements.
LEMMA Two ==
  ASSUME NEW S, NEW x \in S, NEW y \in S
  PROVE  <<x, y>> \in Seq(S) /\ Len(<<x, y>>) = 2 /\ <<x, y>>[1] = x /\ <<x, y>>[2] = y
OBVIOUS

\* Three elements.
LEMMA Three ==
  ASSUME NEW S, NEW x \in S, NEW y \in S, NEW z \in S
  PROVE  /\ <<x, y, z>> \in Seq(S) /\ Len(<<x, y, z>>) = 3
         /\ <<x, y, z>>[1] = x /\ <<x, y, z>>[2] = y /\ <<x, y, z>>[3] = z
OBVIOUS

\* The texts every form has.
LEMMA Constants ==
  /\ CRLF \in Text /\ Len(CRLF) = 2 /\ CRLF[1] = "CR" /\ CRLF[2] = "LF"
  /\ BoundaryLine \in Text /\ Len(BoundaryLine) = 3
  /\ BoundaryLine[1] = "-" /\ BoundaryLine[2] = "-" /\ BoundaryLine[3] = "b"
  /\ <<"-", "-">> \in Text /\ Len(<<"-", "-">>) = 2
  /\ <<"-", "-">>[1] = "-" /\ <<"-", "-">>[2] = "-"
  /\ NextRequest \in Text /\ Len(NextRequest) = 2
<1>5. /\ "CR" \in Symbols /\ "LF" \in Symbols /\ "-" \in Symbols /\ "b" \in Symbols
      /\ "n" \in Symbols
  BY FormsAssumption
<1>1. CRLF \in Text /\ Len(CRLF) = 2 /\ CRLF[1] = "CR" /\ CRLF[2] = "LF"
  BY <1>5, Two, Zenon DEF CRLF, Text
<1>2. /\ BoundaryLine \in Text /\ Len(BoundaryLine) = 3
      /\ BoundaryLine[1] = "-" /\ BoundaryLine[2] = "-" /\ BoundaryLine[3] = "b"
  BY <1>5, Three, Zenon DEF BoundaryLine, Text
<1>3. /\ <<"-", "-">> \in Text /\ Len(<<"-", "-">>) = 2
      /\ <<"-", "-">>[1] = "-" /\ <<"-", "-">>[2] = "-"
  BY <1>5, Two, Zenon DEF Text
<1>4. NextRequest \in Text /\ Len(NextRequest) = 2
  BY <1>5, Two, Zenon DEF NextRequest, Text
<1>. QED
  BY <1>1, <1>2, <1>3, <1>4

\* What ends the data of a part: a line end and the boundary.
LEMMA MarkerIs ==
  /\ Marker \in Text /\ Len(Marker) = 5
  /\ Marker[1] = "CR" /\ Marker[2] = "LF" /\ Marker[3] = "-" /\ Marker[4] = "-" /\ Marker[5] = "b"
<1>1. /\ CRLF \in Text /\ Len(CRLF) = 2 /\ CRLF[1] = "CR" /\ CRLF[2] = "LF"
      /\ BoundaryLine \in Text /\ Len(BoundaryLine) = 3
      /\ BoundaryLine[1] = "-" /\ BoundaryLine[2] = "-" /\ BoundaryLine[3] = "b"
  BY Constants
<1>2. /\ Marker \in Text /\ Len(Marker) = 2 + 3
      /\ \A i \in 1 .. 2 : Marker[i] = CRLF[i]
      /\ \A i \in 1 .. 3 : Marker[2 + i] = BoundaryLine[i]
  <2> DEFINE c == CRLF
             b == BoundaryLine
  <2>1. c \in Text /\ b \in Text /\ Len(c) = 2 /\ Len(b) = 3 /\ Marker = c \o b
    BY <1>1 DEF Marker
  <2> HIDE DEF c, b
  <2>2. /\ c \o b \in Text /\ Len(c \o b) = Len(c) + Len(b)
        /\ \A i \in 1 .. Len(c) : (c \o b)[i] = c[i]
        /\ \A i \in 1 .. Len(b) : (c \o b)[Len(c) + i] = b[i]
    BY <2>1, JoinFacts
  <2>. QED
    BY <2>1, <2>2 DEF c, b
<1>3. Marker[2 + 1] = "-" /\ Marker[2 + 2] = "-" /\ Marker[2 + 3] = "b"
  BY <1>1, <1>2
<1>. QED
  BY <1>1, <1>2, <1>3

\* What the assumption on forms says of one.
LEMMA FormParts ==
  ASSUME NEW f \in Forms
  PROVE  /\ Len(f.parts) \in Nat /\ DOMAIN f.parts = 1 .. Len(f.parts)
         /\ \A i \in 1 .. Len(f.parts) : PartOf(f.parts[i])
         /\ f.tail \in Text /\ f.cut \in Nat /\ f.cut <= Len(Body(f))
         /\ f.wanted \subseteq {"F", "G"}
<1> DEFINE Parts == [headers : Text, data : Text]
<1>1. f.parts \in Seq(Parts) /\ f.tail \in Text /\ f.cut \in Nat /\ f.wanted \in SUBSET {"F", "G"}
  BY FormsAssumption DEF Text
<1>2. f.cut <= Len(Body(f))
  BY FormsAssumption
<1>3. Len(f.parts) \in Nat /\ DOMAIN f.parts = 1 .. Len(f.parts)
      /\ \A i \in 1 .. Len(f.parts) : f.parts[i] \in Parts
  BY <1>1, LenProperties
<1>4. \A i \in DOMAIN f.parts :
        /\ Range(f.parts[i].headers) \cap {"CR", "LF"} = {}
        /\ \A j \in 1 .. Len(f.parts[i].data) : ~OccursAt(Marker, CRLF \o f.parts[i].data, j)
  BY FormsAssumption
<1>5. ASSUME NEW i \in 1 .. Len(f.parts) PROVE PartOf(f.parts[i])
  <2> DEFINE p == f.parts[i]
  <2>1. /\ p.headers \in Text /\ p.data \in Text
        /\ Range(p.headers) \cap {"CR", "LF"} = {}
        /\ \A j \in 1 .. Len(p.data) : ~OccursAt(Marker, CRLF \o p.data, j)
    BY <1>3, <1>4
  <2> HIDE DEF p
  <2>2. ASSUME NEW j \in 1 .. Len(p.headers) PROVE p.headers[j] # "CR" /\ p.headers[j] # "LF"
    <3>1. p.headers[j] \in Range(p.headers)
      BY <2>1, TextFacts DEF Range
    <3>. QED
      BY <2>1, <3>1
  <2>3. PartOf(p)
    BY <2>1, <2>2 DEF PartOf
  <2>. QED
    BY <2>3 DEF p
<1>. QED
  BY <1>1, <1>2, <1>3, <1>5

\* A part's headers, one after the other.
LEMMA HeadersFacts ==
  ASSUME NEW p, PartOf(p)
  PROVE  /\ Len(p.headers) \in Nat
         /\ \A q \in 0 .. Len(p.headers) : Headers(p, q) \in Text
         /\ Headers(p, Len(p.headers)) = CRLF
         /\ \A q \in 0 .. Len(p.headers) - 1 :
              Headers(p, q) = <<p.headers[q + 1]>> \o (CRLF \o Headers(p, q + 1))
<1> DEFINE n == Len(p.headers)
           L == Lines(p)
<1>1. /\ p.headers \in Text /\ n \in Nat /\ DOMAIN p.headers = 1 .. n
      /\ \A i \in 1 .. n : p.headers[i] \in Symbols
  BY TextFacts DEF PartOf
<1>2. \A i \in 1 .. n : <<p.headers[i]>> \in Text
  BY <1>1 DEF Text
<1>3. CRLF \in Text
  BY Constants
<1>4. \A i \in 1 .. n : <<p.headers[i]>> \o CRLF \in Text
  BY <1>2, <1>3, JoinFacts
<1> HIDE DEF n
<1>5. L = [i \in 1 .. n |-> <<p.headers[i]>> \o CRLF]
  BY <1>1 DEF Lines
<1>6. L \in Seq(Text) /\ Len(L) = n
  <2>1. L \in [1 .. n -> Text]
    BY <1>4, <1>5
  <2>. QED
    BY <1>1, <2>1
<1> HIDE DEF L
<1>7. /\ After(L, n) = <<>> /\ \A i \in 0 .. n : After(L, i) \in Text
      /\ \A i \in 0 .. n - 1 : After(L, i) = L[i + 1] \o After(L, i + 1)
  BY <1>6, AfterFacts
<1>8. \A q : Headers(p, q) = After(L, q) \o CRLF
  BY DEF Headers, L
<1>9. ASSUME NEW q \in 0 .. n PROVE Headers(p, q) \in Text
  <2>1. After(L, q) \in Text
    BY <1>7
  <2>. QED
    BY <1>3, <1>8, <2>1, JoinFacts
<1>10. Headers(p, n) = CRLF
  BY <1>3, <1>7, <1>8, JoinEmpty
<1>11. ASSUME NEW q \in 0 .. n - 1
       PROVE  Headers(p, q) = <<p.headers[q + 1]>> \o (CRLF \o Headers(p, q + 1))
  <2>1. q + 1 \in 1 .. n /\ q + 1 \in 0 .. n
    BY <1>1
  <2> DEFINE h == <<p.headers[q + 1]>>
             a == After(L, q + 1)
  <2>2. h \in Text /\ a \in Text /\ h \o CRLF \in Text /\ CRLF \o a \in Text
    BY <1>2, <1>3, <1>7, <2>1, JoinFacts
  <2>3. After(L, q) = (h \o CRLF) \o a
    BY <1>5, <1>7, <2>1
  <2>4. Headers(p, q) = ((h \o CRLF) \o a) \o CRLF /\ Headers(p, q + 1) = a \o CRLF
    BY <1>8, <2>3
  <2> HIDE DEF h, a
  <2>5. (h \o CRLF) \o a = h \o (CRLF \o a)
    BY <1>3, <2>2, JoinAssociative, SMTT(60)
  <2>6. (h \o (CRLF \o a)) \o CRLF = h \o ((CRLF \o a) \o CRLF)
    BY <1>3, <2>2, JoinAssociative, SMTT(60)
  <2>7. (CRLF \o a) \o CRLF = CRLF \o (a \o CRLF)
    BY <1>3, <2>2, JoinAssociative
  <2>. QED
    BY <2>4, <2>5, <2>6, <2>7 DEF h
<1>. QED
  BY <1>1, <1>9, <1>10, <1>11 DEF n

\* How a part is written, seen from its end.
LEMMA EncodedIs ==
  ASSUME NEW p, PartOf(p), NEW r \in Text
  PROVE  Encoded(p) \in Text /\ Encoded(p) \o r = CRLF \o PartText(p, 0, r)
         /\ \A q \in 0 .. Len(p.headers) : PartText(p, q, r) \in Text
<1> DEFINE F == FlattenSeq(Lines(p))
           d == p.data
<1>1. CRLF \in Text /\ Marker \in Text /\ d \in Text
  BY Constants, MarkerIs DEF PartOf
<1>2. F \in Text /\ Headers(p, 0) = F \o CRLF
  <2>1. /\ p.headers \in Text /\ Len(p.headers) \in Nat /\ DOMAIN p.headers = 1 .. Len(p.headers)
        /\ \A i \in 1 .. Len(p.headers) : p.headers[i] \in Symbols
    BY TextFacts DEF PartOf
  <2>2. \A i \in 1 .. Len(p.headers) : <<p.headers[i]>> \in Text
    BY <2>1 DEF Text
  <2>3. \A i \in 1 .. Len(p.headers) : <<p.headers[i]>> \o CRLF \in Text
    BY <1>1, <2>2, JoinFacts
  <2>4. Lines(p) \in [1 .. Len(p.headers) -> Text]
    BY <2>1, <2>3 DEF Lines
  <2>5. Lines(p) \in Seq(Text)
    BY <2>1, <2>4
  <2>6. Len(Lines(p)) \in Nat
    BY <2>5, LenProperties
  <2>7. 0 \in 0 .. Len(Lines(p))
    BY <2>6
  <2>. QED
    BY <2>5, <2>7, AfterFacts DEF Headers
<1>3. Encoded(p) = (((CRLF \o F) \o CRLF) \o d) \o Marker
  BY DEF Encoded, Lines
<1> HIDE DEF F, d
<1>4. /\ CRLF \o F \in Text /\ (CRLF \o F) \o CRLF \in Text /\ F \o CRLF \in Text
      /\ ((CRLF \o F) \o CRLF) \o d \in Text /\ Encoded(p) \in Text /\ Marker \o r \in Text
      /\ d \o (Marker \o r) \in Text
  <2>1. CRLF \o F \in Text /\ F \o CRLF \in Text /\ Marker \o r \in Text
    BY <1>1, <1>2, JoinFacts
  <2>2. (CRLF \o F) \o CRLF \in Text /\ d \o (Marker \o r) \in Text
    BY <1>1, <2>1, JoinFacts
  <2>3. ((CRLF \o F) \o CRLF) \o d \in Text
    BY <1>1, <2>2, JoinFacts
  <2>4. (((CRLF \o F) \o CRLF) \o d) \o Marker \in Text
    BY <1>1, <2>3, JoinFacts
  <2>. QED
    BY <1>3, <2>1, <2>2, <2>3, <2>4
<1> DEFINE c == (CRLF \o F) \o CRLF
           m == Marker \o r
           h == F \o CRLF
<1>10. /\ c \in Text /\ m \in Text /\ h \in Text /\ Encoded(p) = (c \o d) \o Marker
       /\ c \o d \in Text /\ d \o m \in Text
  BY <1>3, <1>4
<1>7. c = CRLF \o h
  BY <1>1, <1>2, JoinAssociative
<1>11. m = Marker \o r /\ h = Headers(p, 0)
  BY <1>2
<1> HIDE DEF c, m, h
<1>5. Encoded(p) \o r = (c \o d) \o m
  <2>1. c \o d \in Text /\ Marker \in Text
    BY <1>1, <1>10
  <2>2. ((c \o d) \o Marker) \o r = (c \o d) \o (Marker \o r)
    BY <2>1, JoinAssociative
  <2>. QED
    BY <1>10, <1>11, <2>2
<1>6. (c \o d) \o m = c \o (d \o m)
  <2>1. c \in Text /\ d \in Text /\ m \in Text
    BY <1>1, <1>10
  <2>. QED
    BY <2>1, JoinAssociative
<1>8. (CRLF \o h) \o (d \o m) = CRLF \o (h \o (d \o m))
  <2> DEFINE e == CRLF
             x == d \o m
  <2>1. e \in Text /\ h \in Text /\ x \in Text
    BY <1>1, <1>10
  <2> HIDE DEF e, x
  <2>2. (e \o h) \o x = e \o (h \o x)
    BY <2>1, JoinAssociative
  <2>. QED
    BY <2>2 DEF e, x
<1>9. ASSUME NEW q \in 0 .. Len(p.headers) PROVE PartText(p, q, r) \in Text
  <2>1. Headers(p, q) \in Text
    BY HeadersFacts
  <2>2. Headers(p, q) \o (d \o (Marker \o r)) \in Text
    BY <1>4, <2>1, JoinFacts
  <2>. QED
    BY <2>2 DEF PartText, d
<1>. QED
  BY <1>4, <1>5, <1>6, <1>7, <1>8, <1>9, <1>11 DEF PartText, d

\* A form is its first boundary, its parts, and its end.
LEMMA RestFacts ==
  ASSUME NEW f \in Forms
  PROVE  /\ Len(f.parts) \in Nat
         /\ \A i \in 0 .. Len(f.parts) : Rest(f, i) \in Text
         /\ Rest(f, Len(f.parts)) = <<"-", "-">> \o (f.tail \o NextRequest)
         /\ \A i \in 1 .. Len(f.parts) : Rest(f, i - 1) = CRLF \o PartText(f.parts[i], 0, Rest(f, i))
         /\ Sent(f) = BoundaryLine \o Rest(f, 0)
         /\ Sizes(f)
<1> DEFINE n == Len(f.parts)
           E == Encodings(f)
           dd == <<"-", "-">>
           end == dd \o (f.tail \o NextRequest)
<1>1. /\ n \in Nat /\ DOMAIN f.parts = 1 .. n /\ (\A i \in 1 .. n : PartOf(f.parts[i]))
      /\ f.tail \in Text /\ f.cut \in Nat /\ f.cut <= Len(Body(f))
  BY FormParts
<1>2. BoundaryLine \in Text /\ dd \in Text /\ NextRequest \in Text /\ Len(NextRequest) = 2
  BY Constants
<1>3. f.tail \o NextRequest \in Text /\ end \in Text
  <2>1. f.tail \o NextRequest \in Text
    BY <1>1, <1>2, JoinFacts
  <2>. QED
    BY <1>2, <2>1, JoinFacts
<1> HIDE DEF n, dd
<1>4. \A i \in 1 .. n : Encoded(f.parts[i]) \in Text
  <2>1. <<>> \in Text
    BY EmptySeq DEF Text
  <2>. QED
    BY <1>1, <2>1, EncodedIs
<1>5. E = [i \in 1 .. n |-> Encoded(f.parts[i])]
  BY <1>1 DEF Encodings
<1>6. E \in Seq(Text) /\ Len(E) = n
  <2>1. E \in [1 .. n -> Text]
    BY <1>4, <1>5
  <2>. QED
    BY <1>1, <2>1
<1>7. /\ After(E, 0) = FlattenSeq(E) /\ After(E, n) = <<>>
      /\ \A i \in 0 .. n : After(E, i) \in Text
      /\ \A i \in 0 .. n - 1 : After(E, i) = E[i + 1] \o After(E, i + 1)
  BY <1>6, AfterFacts
<1>8. \A i : Rest(f, i) = After(E, i) \o end
  BY DEF Rest, dd
<1>9. Body(f) = ((BoundaryLine \o After(E, 0)) \o dd) \o f.tail
  BY <1>7 DEF Body, Encodings, dd
<1> HIDE DEF E, end
<1>10. ASSUME NEW i \in 0 .. n PROVE Rest(f, i) \in Text
  <2>1. After(E, i) \in Text
    BY <1>7
  <2>. QED
    BY <1>3, <1>8, <2>1, JoinFacts
<1>11. Rest(f, n) = end
  BY <1>3, <1>7, <1>8, JoinEmpty
<1>12. ASSUME NEW i \in 1 .. n PROVE Rest(f, i - 1) = CRLF \o PartText(f.parts[i], 0, Rest(f, i))
  <2>1. i - 1 \in 0 .. n - 1 /\ (i - 1) + 1 = i /\ i \in 0 .. n
    BY <1>1
  <2>2. After(E, i - 1) = E[i] \o After(E, i)
    BY <1>7, <2>1
  <2>3. E[i] = Encoded(f.parts[i]) /\ E[i] \in Text
    BY <1>4, <1>5
  <2>4. (E[i] \o After(E, i)) \o end = E[i] \o (After(E, i) \o end)
    BY <1>3, <1>7, <2>1, <2>3, JoinAssociative
  <2>5. Rest(f, i - 1) = Encoded(f.parts[i]) \o Rest(f, i)
    BY <1>8, <2>2, <2>3, <2>4
  <2>6. PartOf(f.parts[i]) /\ Rest(f, i) \in Text
    BY <1>1, <1>10, <2>1
  <2>. QED
    BY <2>5, <2>6, EncodedIs
<1> DEFINE a == After(E, 0)
<1>13. a \in Text
  BY <1>1, <1>7
<1>14. Body(f) = ((BoundaryLine \o a) \o dd) \o f.tail
  BY <1>9
<1>15. Rest(f, 0) = a \o end
  BY <1>8
<1> HIDE DEF a
<1>16. BoundaryLine \o a \in Text /\ (BoundaryLine \o a) \o dd \in Text /\ Body(f) \in Text
  <2>1. BoundaryLine \o a \in Text
    BY <1>2, <1>13, JoinFacts
  <2>2. (BoundaryLine \o a) \o dd \in Text
    BY <1>2, <2>1, JoinFacts
  <2>. QED
    BY <1>1, <1>14, <2>1, <2>2, JoinFacts
<1>17. Sent(f) = BoundaryLine \o Rest(f, 0)
  <2>1. Sent(f) = (((BoundaryLine \o a) \o dd) \o f.tail) \o NextRequest
    BY <1>14 DEF Sent
  <2>2. Sent(f) = ((BoundaryLine \o a) \o dd) \o (f.tail \o NextRequest)
    <3> DEFINE h == (BoundaryLine \o a) \o dd
               g == f.tail
               k == NextRequest
    <3>1. h \in Text /\ g \in Text /\ k \in Text
      BY <1>1, <1>2, <1>16
    <3>2. (h \o g) \o k = h \o (g \o k)
      <4> HIDE DEF h, g, k
      <4>. QED
        BY <3>1, JoinAssociative
    <3>. QED
      BY <2>1, <3>2
  <2> DEFINE t == f.tail \o NextRequest
             b == BoundaryLine \o a
  <2>5. t \in Text /\ b \in Text /\ Sent(f) = (b \o dd) \o t /\ end = dd \o t
    BY <1>3, <1>16, <2>2 DEF end
  <2>3. Sent(f) = (BoundaryLine \o a) \o end
    <3> HIDE DEF t, b
    <3>1. (b \o dd) \o t = b \o (dd \o t)
      BY <1>2, <2>5, JoinAssociative
    <3>. QED
      BY <2>5, <3>1 DEF b
  <2>4. Sent(f) = BoundaryLine \o (a \o end)
    BY <1>2, <1>3, <1>13, <2>3, JoinAssociative
  <2>. QED
    BY <1>15, <2>4
<1>18. Sizes(f)
  <2> DEFINE B == Body(f)
  <2>2. B \in Text /\ Sent(f) = B \o NextRequest
    BY <1>16 DEF Sent
  <2> HIDE DEF B
  <2>3. B \o NextRequest \in Text /\ Len(B \o NextRequest) = Len(B) + Len(NextRequest)
    BY <1>2, <2>2, JoinFacts
  <2>4. Len(B) \in Nat
    BY <2>2, TextFacts
  <2>1. Sent(f) \in Text /\ Len(Sent(f)) = Len(Body(f)) + 2 /\ Len(Body(f)) \in Nat
    BY <1>2, <2>2, <2>3, <2>4 DEF B
  <2>. QED
    BY <1>1, <2>1 DEF Sizes, Announced
<1>. QED
  BY <1>1, <1>10, <1>11, <1>12, <1>17, <1>18 DEF n, end, dd

-----------------------------------------------------------------------------
(* Lines.                                                                   *)

NoCR(l) == \A i \in 1 .. Len(l) : l[i] # "CR"

\* The text s is read to the place where u is left; l of its line is read, and if c
\* its CR.
AtLine(l, c, u, s) ==
  /\ l \in Text /\ NoCR(l) /\ c \in BOOLEAN /\ u \in Text
  /\ s = IF c THEN l \o (<<"CR">> \o u) ELSE l \o u

\* A symbol and a text.
LEMMA OneFacts ==
  ASSUME NEW x \in Symbols, NEW u \in Text
  PROVE  /\ <<x>> \in Text /\ <<x>> \o u \in Text /\ Len(<<x>> \o u) = Len(u) + 1
         /\ (<<x>> \o u)[1] = x /\ Head(<<x>> \o u) = x /\ Tail(<<x>> \o u) = u
         /\ <<x>> \o u # <<>>
<1> DEFINE s == <<x>>
<1>1. s \in Text /\ Len(s) = 1 /\ s[1] = x /\ s # <<>>
  BY DEF Text
<1>2. Tail(s) = <<>>
  OBVIOUS
<1> HIDE DEF s
<1>3. /\ s \o u \in Text /\ Len(s \o u) = Len(s) + Len(u)
      /\ \A i \in 1 .. Len(s) : (s \o u)[i] = s[i]
  BY <1>1, JoinFacts
<1>4. /\ s \o u # <<>> /\ Head(s \o u) = s[1] /\ Tail(s \o u) = Tail(s) \o u
  BY <1>1, HeadJoin
<1>5. <<>> \o u = u
  BY JoinEmpty
<1>6. Len(u) \in Nat /\ 1 \in 1 .. Len(s)
  BY <1>1, TextFacts
<1>7. Len(s \o u) = Len(u) + 1
  BY <1>1, <1>3, <1>6
<1>8. (s \o u)[1] = x /\ Head(s \o u) = x
  BY <1>1, <1>3, <1>4, <1>6
<1>9. Tail(s \o u) = u
  BY <1>2, <1>4, <1>5 DEF s
<1>. QED
  BY <1>1, <1>3, <1>4, <1>7, <1>8, <1>9 DEF s

\* Reading one byte of a line.
LEMMA LineReads ==
  ASSUME NEW l, NEW u, NEW s, AtLine(l, FALSE, u, s), u # <<>>
  PROVE  IF Head(u) = "CR" THEN AtLine(l, TRUE, Tail(u), s)
         ELSE AtLine(Append(l, Head(u)), FALSE, Tail(u), s)
<1> DEFINE b == Head(u)
           t == Tail(u)
<1>1. l \in Text /\ NoCR(l) /\ u \in Text /\ s = l \o u
  BY DEF AtLine
<1>2. b \in Symbols /\ t \in Text /\ u = <<b>> \o t
  BY <1>1, HeadFacts
<1> HIDE DEF b, t
<1>3. CASE b = "CR"
  BY <1>1, <1>2, <1>3 DEF AtLine, b, t
<1>4. CASE b # "CR"
  <2>1. <<b>> \in Text /\ Len(l) \in Nat
    BY <1>1, <1>2, OneFacts, TextFacts
  <2>2. /\ Append(l, b) \in Text /\ Append(l, b) = l \o <<b>> /\ Len(Append(l, b)) = Len(l) + 1
        /\ \A i \in 1 .. Len(l) : Append(l, b)[i] = l[i]
        /\ Append(l, b)[Len(l) + 1] = b
    BY <1>1, <1>2, AppendProperties, AppendIsConcat DEF Text
  <2>3. NoCR(Append(l, b))
    <3>1. ASSUME NEW i \in 1 .. Len(Append(l, b)) PROVE Append(l, b)[i] # "CR"
      <4>1. i \in 1 .. Len(l) \/ i = Len(l) + 1
        BY <2>1, <2>2
      <4>. QED
        BY <1>1, <1>4, <2>2, <4>1 DEF NoCR
    <3>. QED
      BY <3>1 DEF NoCR
  <2>4. s = Append(l, b) \o t
    <3>1. (l \o <<b>>) \o t = l \o (<<b>> \o t)
      BY <1>1, <1>2, <2>1, JoinAssociative
    <3>. QED
      BY <1>1, <1>2, <2>2, <3>1
  <2>. QED
    BY <1>2, <1>4, <2>2, <2>3, <2>4 DEF AtLine, b, t
<1>. QED
  BY <1>3, <1>4

\* A line ends at its first CR: not before what has none.
LEMMA LineNotAfter ==
  ASSUME NEW l \in Text, NEW b \in Text, NEW u \in Text, NEW v \in Text, NoCR(l),
         l \o u = b \o (<<"CR">> \o v)
  PROVE  Len(l) <= Len(b)
<1>1. "CR" \in Symbols
  BY FormsAssumption
<1> DEFINE w == <<"CR">> \o v
<1>2. w \in Text /\ w[1] = "CR" /\ Len(w) = Len(v) + 1
  BY <1>1, OneFacts
<1>3. l \o u = b \o w
  OBVIOUS
<1> HIDE DEF w
<1>4. Len(l) \in Nat /\ Len(b) \in Nat /\ Len(v) \in Nat /\ Len(w) \in Nat
  BY <1>2, TextFacts
<1>5. \A i \in 1 .. Len(l) : (l \o u)[i] = l[i]
  BY JoinFacts
<1>6. \A i \in 1 .. Len(w) : (b \o w)[Len(b) + i] = w[i]
  BY <1>2, JoinFacts
<1>7. (b \o w)[Len(b) + 1] = "CR"
  BY <1>2, <1>4, <1>6
<1>8. SUFFICES ASSUME Len(l) > Len(b) PROVE FALSE
  BY <1>4
<1>9. Len(b) + 1 \in 1 .. Len(l)
  BY <1>4, <1>8
<1>. QED
  BY <1>3, <1>5, <1>7, <1>9 DEF NoCR

\* Texts with the same beginning, of which one is as long as the other, are the same.
LEMMA SameBeginning ==
  ASSUME NEW l \in Text, NEW b \in Text, NEW u \in Text, NEW v \in Text,
         l \o u = b \o v, Len(l) = Len(b)
  PROVE  l = b /\ u = v
<1>1. \A i \in 1 .. Len(l) : (l \o u)[i] = l[i]
  BY JoinFacts
<1>2. \A i \in 1 .. Len(b) : (b \o v)[i] = b[i]
  BY JoinFacts
<1>3. l = b
  BY <1>1, <1>2, TextEqual
<1>. QED
  BY <1>3, JoinCancel

\* Where a line whose text is known is read to.
LEMMA LineMatches ==
  ASSUME NEW l, NEW c, NEW u, NEW s, AtLine(l, c, u, s),
         NEW b \in Text, NEW t \in Text, NoCR(b), s = b \o (CRLF \o t)
  PROVE  /\ c => l = b /\ u = <<"LF">> \o t
         /\ ~c => /\ Len(l) <= Len(b) /\ Len(u) = (Len(b) - Len(l)) + (Len(t) + 2)
                  /\ u # <<>>
                  /\ Head(u) = "CR" => l = b
                  /\ Head(u) # "CR" => Len(l) < Len(b)
<1>1. l \in Text /\ NoCR(l) /\ u \in Text
  BY DEF AtLine
<1>2. "CR" \in Symbols /\ "LF" \in Symbols
  BY FormsAssumption
<1> DEFINE v == <<"LF">> \o t
           w == <<"CR">> \o v
<1>3. v \in Text /\ w \in Text /\ Len(v) = Len(t) + 1 /\ Len(w) = Len(v) + 1 /\ w[1] = "CR"
  BY <1>2, OneFacts
<1>4. CRLF \o t = w
  <2>1. CRLF = <<"CR">> \o <<"LF">>
    BY DEF CRLF
  <2>2. <<"CR">> \in Text /\ <<"LF">> \in Text
    <3>1. <<>> \in Text
      BY EmptySeq DEF Text
    <3>. QED
      BY <1>2, <3>1, OneFacts
  <2>3. (<<"CR">> \o <<"LF">>) \o t = <<"CR">> \o (<<"LF">> \o t)
    BY <2>2, JoinAssociative
  <2>. QED
    BY <2>1, <2>3
<1>5. s = b \o w
  BY <1>4
<1>6. Len(l) \in Nat /\ Len(b) \in Nat /\ Len(u) \in Nat /\ Len(t) \in Nat /\ Len(w) = Len(t) + 2
  BY <1>1, <1>3, TextFacts
<1>7. ASSUME c PROVE l = b /\ u = v
  <2>1. l \o (<<"CR">> \o u) = b \o w
    BY <1>5, <1>7 DEF AtLine
  <2>2. <<"CR">> \o u \in Text
    BY <1>1, <1>2, OneFacts
  <2>3. Len(l) <= Len(b)
    BY <1>1, <1>3, <2>1, <2>2, LineNotAfter
  <2>4. Len(b) <= Len(l)
    BY <1>1, <1>3, <2>1, LineNotAfter
  <2>5. l = b /\ <<"CR">> \o u = w
    <3> HIDE DEF w
    <3>1. Len(l) = Len(b)
      BY <1>6, <2>3, <2>4
    <3> DEFINE x == <<"CR">> \o u
    <3>2. x \in Text /\ l \o x = b \o w
      BY <2>1, <2>2
    <3>3. l = b /\ x = w
      <4> HIDE DEF x
      <4>. QED
        BY <1>1, <1>3, <3>1, <3>2, SameBeginning
    <3>. QED
      BY <3>3
  <2>6. <<"CR">> \in Text
    BY <1>1, <1>2, OneFacts
  <2>7. u = v
    BY <1>1, <1>3, <2>5, <2>6, JoinCancel
  <2>. QED
    BY <2>5, <2>7
<1> HIDE DEF v
<1>8. ASSUME ~c
      PROVE  /\ Len(l) <= Len(b) /\ Len(u) = (Len(b) - Len(l)) + (Len(t) + 2)
             /\ u # <<>>
             /\ Head(u) = "CR" => l = b
             /\ Head(u) # "CR" => Len(l) < Len(b)
  <2>1. l \o u = b \o w
    BY <1>5, <1>8 DEF AtLine
  <2>2. Len(l) <= Len(b)
    BY <1>1, <1>3, <2>1, LineNotAfter
  <2> HIDE DEF w
  <2>3. /\ Len(l \o u) = Len(l) + Len(u) /\ \A i \in 1 .. Len(u) : (l \o u)[Len(l) + i] = u[i]
    BY <1>1, JoinFacts
  <2>4. /\ Len(b \o w) = Len(b) + Len(w) /\ \A i \in 1 .. Len(b) : (b \o w)[i] = b[i]
        /\ \A i \in 1 .. Len(w) : (b \o w)[Len(b) + i] = w[i]
    BY <1>3, JoinFacts
  <2>5. Len(u) = (Len(b) - Len(l)) + (Len(t) + 2)
    BY <1>6, <2>1, <2>3, <2>4
  <2>6. u # <<>> /\ 1 \in 1 .. Len(u)
    BY <1>1, <1>6, <2>2, <2>5, TextFacts
  <2>7. Head(u) = u[1]
    BY <1>1, <2>6, HeadFacts
  <2>8. Head(u) = (b \o w)[Len(l) + 1]
    BY <2>1, <2>3, <2>6, <2>7
  <2>9. CASE Len(l) < Len(b)
    <3>1. Len(l) + 1 \in 1 .. Len(b)
      BY <1>6, <2>9
    <3>2. Head(u) # "CR"
      BY <2>4, <2>8, <3>1 DEF NoCR
    <3>. QED
      BY <2>2, <2>5, <2>6, <2>9, <3>2
  <2>10. CASE Len(l) = Len(b)
    <3>1. 1 \in 1 .. Len(w)
      BY <1>6
    <3>2. Head(u) = "CR"
      BY <1>3, <2>4, <2>8, <2>10, <3>1
    <3>3. l = b
      BY <1>1, <1>3, <2>1, <2>10, SameBeginning
    <3>. QED
      BY <2>2, <2>5, <2>6, <3>2, <3>3
  <2>. QED
    BY <1>6, <2>2, <2>9, <2>10
<1>. QED
  BY <1>7, <1>8 DEF v

-----------------------------------------------------------------------------
(* Places in texts.                                                         *)

\* A set of naturals with a bound has a greatest member, which Max picks.
LEMMA NatMaximum ==
  ASSUME NEW T, T \subseteq Nat, T # {}, NEW n \in Nat, \A m \in T : m <= n
  PROVE  Max(T) \in T /\ \A m \in T : m <= Max(T)
<1> DEFINE U == {x \in Nat : \E m \in T : x = n - m}
<1>1. U # {}
  <2>1. PICK m \in T : TRUE
    OBVIOUS
  <2>2. n - m \in Nat
    BY <2>1
  <2>3. n - m \in U
    BY <2>1, <2>2
  <2>. QED
    BY <2>3
<1>2. PICK x \in U : \A y \in U : x <= y
  <2>1. U \subseteq Nat
    OBVIOUS
  <2> HIDE DEF U
  <2>. QED
    BY <1>1, <2>1, NatMinimum
<1>3. PICK k \in T : x = n - k
  BY <1>2
<1>4. ASSUME NEW m \in T PROVE m <= k
  <2>1. n - m \in U
    OBVIOUS
  <2>2. x <= n - m
    BY <1>2, <2>1
  <2>3. m \in Nat /\ k \in Nat
    BY <1>3
  <2>. QED
    BY <1>3, <2>2, <2>3
<1>5. Max(T) = CHOOSE y \in T : \A m \in T : y >= m
  BY DEF Max
<1>6. \A m \in T : k >= m
  BY <1>3, <1>4
<1>7. Max(T) \in T /\ \A m \in T : Max(T) >= m
  BY <1>3, <1>5, <1>6
<1>. QED
  BY <1>7

\* Min picks the least.
LEMMA MinIs ==
  ASSUME NEW T, T \subseteq Nat, NEW k \in T, \A m \in T : k <= m
  PROVE  Min(T) = k
<1>1. Min(T) = CHOOSE y \in T : \A m \in T : y <= m
  BY DEF Min
<1>2. Min(T) \in T /\ \A m \in T : Min(T) <= m
  BY <1>1
<1>3. Min(T) <= k /\ k <= Min(T) /\ Min(T) \in Nat /\ k \in Nat
  BY <1>2
<1>. QED
  BY <1>3

\* Max picks the greatest.
LEMMA MaxIs ==
  ASSUME NEW T, T \subseteq Nat, NEW k \in T, \A m \in T : m <= k
  PROVE  Max(T) = k
<1>1. k \in Nat /\ T # {}
  OBVIOUS
<1>2. Max(T) \in T /\ \A m \in T : m <= Max(T)
  BY <1>1, NatMaximum
<1>3. Max(T) <= k /\ k <= Max(T) /\ Max(T) \in Nat
  BY <1>2
<1>. QED
  BY <1>1, <1>3

\* A prefix has the same symbols.
LEMMA PrefixIs ==
  ASSUME NEW s \in Text, NEW t \in Text
  PROVE  IsPrefix(s, t) <=> Len(s) <= Len(t) /\ \A i \in 1 .. Len(s) : t[i] = s[i]
<1>1. Len(s) \in Nat /\ Len(t) \in Nat
  BY TextFacts
<1>2. SubSeq(s, 1, Len(s)) = s
  BY SubSeqFull DEF Text
<1>3. ASSUME Len(s) <= Len(t)
      PROVE  SubSeq(t, 1, Len(s)) = s <=> \A i \in 1 .. Len(s) : t[i] = s[i]
  <2> DEFINE u == SubSeq(t, 1, Len(s))
  <2>1. Len(s) \in 0 .. Len(t)
    BY <1>1, <1>3
  <2>2. u \in Text /\ Len(u) = Len(s) /\ \A j \in 1 .. Len(s) : u[j] = t[j]
    BY <2>1, SplitFacts
  <2> HIDE DEF u
  <2>3. ASSUME \A i \in 1 .. Len(s) : t[i] = s[i] PROVE u = s
    BY <2>2, <2>3, TextEqual
  <2>4. u = s <=> \A i \in 1 .. Len(s) : t[i] = s[i]
    BY <2>2, <2>3
  <2>. QED
    BY <2>4 DEF u
<1>. QED
  BY <1>2, <1>3 DEF IsPrefix

\* A text occurs where its symbols are.
LEMMA OccursIs ==
  ASSUME NEW s \in Text, NEW t \in Text, NEW i \in 1 .. Len(t) + 1
  PROVE  OccursAt(s, t, i) <=> /\ i + Len(s) <= Len(t) + 1
                               /\ \A j \in 1 .. Len(s) : t[i + j - 1] = s[j]
<1> DEFINE u == From(t, i)
<1>1. Len(s) \in Nat /\ Len(t) \in Nat /\ i \in Nat /\ i >= 1
  BY TextFacts
<1>2. u \in Text /\ Len(u) = Len(t) - i + 1 /\ \A j \in 1 .. Len(t) - i + 1 : u[j] = t[i + j - 1]
  BY FromFacts
<1>3. OccursAt(s, t, i) <=> IsPrefix(s, u)
  BY <1>1 DEF OccursAt
<1> HIDE DEF u
<1>4. IsPrefix(s, u) <=> Len(s) <= Len(u) /\ \A j \in 1 .. Len(s) : u[j] = s[j]
  BY <1>2, PrefixIs
<1>5. Len(s) <= Len(u) <=> i + Len(s) <= Len(t) + 1
  BY <1>1, <1>2
<1>6. ASSUME Len(s) <= Len(u), NEW j \in 1 .. Len(s) PROVE u[j] = t[i + j - 1]
  <2>1. j \in 1 .. Len(t) - i + 1
    BY <1>1, <1>2, <1>6
  <2>. QED
    BY <1>2, <2>1
<1>. QED
  BY <1>3, <1>4, <1>5, <1>6

-----------------------------------------------------------------------------
(* What stays pending of a part's data.                                     *)

\* The last k symbols of a text.
Suffix(t, k) == SubSeq(t, Len(t) - k + 1, Len(t))

\* The last k symbols of t may begin a marker.
MayBegin(t, k) ==
  /\ k \in 0 .. Len(t) /\ k <= 5
  /\ \A j \in 1 .. k : t[Len(t) - k + j] = Marker[j]

\* The last symbols of a text, one by one.
LEMMA SuffixFacts ==
  ASSUME NEW t \in Text, NEW k \in 0 .. Len(t)
  PROVE  /\ Suffix(t, k) \in Text /\ Len(Suffix(t, k)) = k
         /\ \A j \in 1 .. k : Suffix(t, k)[j] = t[Len(t) - k + j]
<1> DEFINE i == Len(t) - k + 1
           u == From(t, i)
<1>1. Len(t) \in Nat /\ i \in 1 .. Len(t) + 1 /\ Len(t) - i + 1 = k
  BY TextFacts
<1>2. u \in Text /\ Len(u) = Len(t) - i + 1 /\ \A j \in 1 .. Len(t) - i + 1 : u[j] = t[i + j - 1]
  BY <1>1, FromFacts
<1>3. u = Suffix(t, k)
  BY DEF Suffix, From
<1> HIDE DEF u
<1>4. ASSUME NEW j \in 1 .. k PROVE u[j] = t[Len(t) - k + j]
  <2>1. i + j - 1 = Len(t) - k + j
    BY <1>1
  <2>. QED
    BY <1>1, <1>2, <2>1
<1>. QED
  BY <1>1, <1>2, <1>3, <1>4

\* Whether they may begin a marker.
LEMMA MayBeginIs ==
  ASSUME NEW t \in Text, NEW k \in 0 .. Len(t)
  PROVE  IsPrefix(Suffix(t, k), Marker) <=> MayBegin(t, k)
<1> DEFINE u == Suffix(t, k)
<1>1. u \in Text /\ Len(u) = k /\ \A j \in 1 .. k : u[j] = t[Len(t) - k + j]
  BY SuffixFacts
<1>2. Marker \in Text /\ Len(Marker) = 5
  BY MarkerIs
<1> HIDE DEF u
<1>3. IsPrefix(u, Marker) <=> Len(u) <= Len(Marker) /\ \A j \in 1 .. Len(u) : Marker[j] = u[j]
  BY <1>1, <1>2, PrefixIs
<1>4. IsPrefix(u, Marker) <=> MayBegin(t, k)
  BY <1>1, <1>2, <1>3 DEF MayBegin
<1>. QED
  BY <1>4 DEF u

\* The longest of them is what is pending.
LEMMA PendingIs ==
  ASSUME NEW t \in Text
  PROVE  \E k \in 0 .. Len(t) :
           /\ MayBegin(t, k) /\ \A m \in Nat : MayBegin(t, m) => m <= k
           /\ StillPending(t) = Suffix(t, k)
<1> DEFINE T == {k \in 0 .. Len(t) : IsPrefix(SubSeq(t, Len(t) - k + 1, Len(t)), Marker)}
<1>1. Len(t) \in Nat
  BY TextFacts
<1>2. \A k \in 0 .. Len(t) : k \in T <=> MayBegin(t, k)
  BY MayBeginIs DEF Suffix
<1>3. MayBegin(t, 0)
  BY <1>1 DEF MayBegin
<1>4. StillPending(t) = Suffix(t, Max(T))
  BY DEF StillPending, Suffix
<1>5. T \subseteq 0 .. Len(t)
  OBVIOUS
<1> HIDE DEF T
<1>6. T \subseteq Nat /\ T # {} /\ \A m \in T : m <= Len(t)
  BY <1>1, <1>2, <1>3, <1>5
<1>7. Max(T) \in T /\ \A m \in T : m <= Max(T)
  BY <1>1, <1>6, NatMaximum
<1>8. Max(T) \in 0 .. Len(t) /\ MayBegin(t, Max(T))
  BY <1>2, <1>5, <1>7
<1>9. ASSUME NEW m \in Nat, MayBegin(t, m) PROVE m <= Max(T)
  <2>1. m \in 0 .. Len(t)
    BY <1>9 DEF MayBegin
  <2>. QED
    BY <1>2, <1>7, <1>9, <2>1
<1>. QED
  BY <1>4, <1>8, <1>9

\* It is the beginning of a marker, and the end of the text.
LEMMA PendingFacts ==
  ASSUME NEW t \in Text
  PROVE  /\ StillPending(t) \in Text /\ Len(StillPending(t)) \in 0 .. Len(t)
         /\ Len(StillPending(t)) <= 5
         /\ StillPending(t) = Suffix(t, Len(StillPending(t)))
         /\ IsPrefix(StillPending(t), Marker)
         /\ MayBegin(t, Len(StillPending(t)))
         /\ \A m \in Nat : MayBegin(t, m) => m <= Len(StillPending(t))
         /\ StillPending(t) = Marker <=> Len(StillPending(t)) = 5
<1>1. PICK k \in 0 .. Len(t) : /\ MayBegin(t, k) /\ \A m \in Nat : MayBegin(t, m) => m <= k
                               /\ StillPending(t) = Suffix(t, k)
  BY PendingIs
<1> DEFINE s == StillPending(t)
<1>2. s \in Text /\ Len(s) = k /\ \A j \in 1 .. k : s[j] = t[Len(t) - k + j]
  BY <1>1, SuffixFacts
<1>3. IsPrefix(s, Marker)
  BY <1>1, MayBeginIs
<1>4. k <= 5 /\ k \in Nat
  BY <1>1 DEF MayBegin
<1>5. Marker \in Text /\ Len(Marker) = 5
  BY MarkerIs
<1>6. \A j \in 1 .. k : Marker[j] = t[Len(t) - k + j]
  BY <1>1 DEF MayBegin
<1> HIDE DEF s
<1>7. s = Marker <=> Len(s) = 5
  <2>1. s = Marker => Len(s) = 5
    BY <1>5
  <2>2. Len(s) = 5 => s = Marker
    BY <1>2, <1>5, <1>6, TextEqual, SMTT(60)
  <2>. QED
    BY <2>1, <2>2
<1>. QED
  BY <1>1, <1>2, <1>3, <1>4, <1>7 DEF s

\* One symbol after a text.
LEMMA AppendFacts ==
  ASSUME NEW t \in Text, NEW x \in Symbols
  PROVE  /\ Append(t, x) \in Text /\ Len(Append(t, x)) = Len(t) + 1
         /\ \A i \in 1 .. Len(t) : Append(t, x)[i] = t[i]
         /\ Append(t, x)[Len(t) + 1] = x
BY AppendProperties, TextFacts DEF Text

\* What is pending decides, with the next byte, what is pending then: the bytes
\* that are no longer pending are not needed.
LEMMA PendingStep ==
  ASSUME NEW t \in Text, NEW x \in Symbols
  PROVE  /\ StillPending(Append(StillPending(t), x)) = StillPending(Append(t, x))
         /\ Append(StillPending(t), x) = Suffix(Append(t, x), Len(StillPending(t)) + 1)
         /\ Len(StillPending(Append(t, x))) <= Len(StillPending(t)) + 1
<1> DEFINE p == StillPending(t)
           n == Len(p)
           u == Append(t, x)
           v == Append(p, x)
<1>1. /\ p \in Text /\ n \in 0 .. Len(t) /\ p = Suffix(t, n) /\ Len(t) \in Nat /\ n \in Nat /\ n <= 5
      /\ MayBegin(t, n) /\ \A m \in Nat : MayBegin(t, m) => m <= n
  BY PendingFacts, TextFacts
<1>2. \A j \in 1 .. n : p[j] = t[Len(t) - n + j]
  BY <1>1, SuffixFacts
<1> HIDE DEF p
<1>3. /\ u \in Text /\ Len(u) = Len(t) + 1 /\ \A i \in 1 .. Len(t) : u[i] = t[i]
      /\ u[Len(t) + 1] = x
  BY AppendFacts
<1>4. /\ v \in Text /\ Len(v) = n + 1 /\ \A i \in 1 .. n : v[i] = p[i]
      /\ v[n + 1] = x
  BY <1>1, AppendFacts
<1> HIDE DEF u, v, n
<1>5. ASSUME NEW j \in 1 .. n + 1 PROVE v[j] = u[Len(u) - (n + 1) + j]
  <2>1. CASE j = n + 1
    <3>1. Len(u) - (n + 1) + j = Len(t) + 1
      BY <1>1, <1>3, <2>1
    <3>. QED
      BY <1>3, <1>4, <2>1, <3>1
  <2>2. CASE j # n + 1
    <3>1. j \in 1 .. n /\ Len(u) - (n + 1) + j = Len(t) - n + j /\ Len(t) - n + j \in 1 .. Len(t)
      BY <1>1, <1>3, <2>2
    <3>. QED
      BY <1>2, <1>3, <1>4, <3>1
  <2>. QED
    BY <2>1, <2>2
<1>6. n + 1 \in 0 .. Len(u)
  BY <1>1, <1>3
<1>7. v = Suffix(u, n + 1)
  <2> DEFINE w == Suffix(u, n + 1)
  <2>1. w \in Text /\ Len(w) = n + 1 /\ \A j \in 1 .. n + 1 : w[j] = u[Len(u) - (n + 1) + j]
    BY <1>3, <1>6, SuffixFacts
  <2> HIDE DEF w
  <2>2. v = w
    BY <1>4, <1>5, <2>1, TextEqual
  <2>. QED
    BY <2>2 DEF w
<1>8. ASSUME NEW m \in Nat, MayBegin(u, m) PROVE m <= n + 1
  <2>1. CASE m = 0
    BY <1>1, <2>1
  <2>2. CASE m # 0
    <3>1. m - 1 \in Nat /\ m - 1 \in 0 .. Len(t) /\ m - 1 <= 5
      BY <1>1, <1>3, <1>8, <2>2 DEF MayBegin
    <3>2. ASSUME NEW j \in 1 .. m - 1 PROVE t[Len(t) - (m - 1) + j] = Marker[j]
      <4>1. /\ j \in 1 .. m /\ Len(t) - (m - 1) + j = Len(u) - m + j
            /\ Len(u) - m + j \in 1 .. Len(t)
        BY <1>1, <1>3, <3>1
      <4>2. u[Len(u) - m + j] = Marker[j]
        BY <1>8, <4>1 DEF MayBegin
      <4>. QED
        BY <1>3, <4>1, <4>2
    <3>3. MayBegin(t, m - 1)
      BY <3>1, <3>2 DEF MayBegin
    <3>. QED
      BY <1>1, <3>1, <3>3
  <2>. QED
    BY <2>1, <2>2
<1>9. ASSUME NEW m \in Nat, m <= n + 1 PROVE MayBegin(v, m) <=> MayBegin(u, m)
  <2>1. m \in 0 .. Len(v) /\ m \in 0 .. Len(u)
    BY <1>1, <1>3, <1>4, <1>9
  <2>2. ASSUME NEW j \in 1 .. m PROVE v[Len(v) - m + j] = u[Len(u) - m + j]
    <3>1. /\ Len(v) - m + j \in 1 .. n + 1
          /\ Len(u) - (n + 1) + (Len(v) - m + j) = Len(u) - m + j
      BY <1>1, <1>3, <1>4, <1>9
    <3>. QED
      BY <1>5, <3>1
  <2>. QED
    BY <2>1, <2>2 DEF MayBegin
<1>10. ASSUME NEW m \in Nat, MayBegin(v, m) PROVE m <= n + 1
  BY <1>4, <1>10 DEF MayBegin
<1>11. PICK k \in 0 .. Len(u) : /\ MayBegin(u, k) /\ \A m \in Nat : MayBegin(u, m) => m <= k
                                /\ StillPending(u) = Suffix(u, k)
  BY <1>3, PendingIs
<1>12. PICK l \in 0 .. Len(v) : /\ MayBegin(v, l) /\ \A m \in Nat : MayBegin(v, m) => m <= l
                                /\ StillPending(v) = Suffix(v, l)
  BY <1>4, PendingIs
<1>13. k \in Nat /\ l \in Nat /\ k <= n + 1 /\ l <= n + 1
  BY <1>1, <1>3, <1>4, <1>8, <1>10, <1>11, <1>12
<1>14. k = l
  <2>1. MayBegin(v, k) /\ MayBegin(u, l)
    BY <1>9, <1>11, <1>12, <1>13
  <2>2. k <= l /\ l <= k
    BY <1>11, <1>12, <1>13, <2>1
  <2>. QED
    BY <1>13, <2>2
<1>15. Suffix(u, k) = Suffix(v, k)
  <2> DEFINE a == Suffix(u, k)
             b == Suffix(v, k)
  <2>1. a \in Text /\ Len(a) = k /\ \A j \in 1 .. k : a[j] = u[Len(u) - k + j]
    BY <1>3, <1>11, SuffixFacts
  <2>2. b \in Text /\ Len(b) = k /\ \A j \in 1 .. k : b[j] = v[Len(v) - k + j]
    BY <1>4, <1>12, <1>14, SuffixFacts
  <2> HIDE DEF a, b
  <2>3. ASSUME NEW j \in 1 .. k PROVE a[j] = b[j]
    <3>1. /\ Len(v) - k + j \in 1 .. n + 1
          /\ Len(u) - (n + 1) + (Len(v) - k + j) = Len(u) - k + j
      BY <1>1, <1>3, <1>4, <1>13
    <3>2. v[Len(v) - k + j] = u[Len(u) - k + j]
      BY <1>5, <3>1
    <3>. QED
      BY <2>1, <2>2, <3>2
  <2>4. a = b
    BY <2>1, <2>2, <2>3, TextEqual
  <2>. QED
    BY <2>4 DEF a, b
<1>16. StillPending(v) = StillPending(u)
  BY <1>11, <1>12, <1>14, <1>15
<1>17. Len(StillPending(u)) = k
  BY <1>3, <1>11, SuffixFacts
<1>. QED
  BY <1>7, <1>13, <1>16, <1>17 DEF u, v, n, p

-----------------------------------------------------------------------------
(* Where the data of a part ends.                                           *)

\* The symbols of a text w from j on are a marker.
MarkerIn(w, j) == \A a \in 1 .. 5 : w[j + a - 1] = Marker[a]

\* A part's data, the line end before it and the marker after it have one marker.
LEMMA MarkerOnce ==
  ASSUME NEW p, PartOf(p), NEW w,
         \A i \in 1 .. Len(p.data) + 2 : w[i] = (CRLF \o p.data)[i],
         \A a \in 1 .. 5 : w[Len(p.data) + 2 + a] = Marker[a],
         NEW j \in 1 .. Len(p.data) + 3
  PROVE  MarkerIn(w, j) <=> j = Len(p.data) + 3
<1> DEFINE n == Len(p.data)
           c == CRLF \o p.data
<1>1. p.data \in Text /\ n \in Nat /\ \A i \in 1 .. n : ~OccursAt(Marker, c, i)
  BY TextFacts DEF PartOf
<1>2. CRLF \in Text /\ Len(CRLF) = 2
  BY Constants
<1>3. c \in Text /\ Len(c) = 2 + n
  <2> DEFINE d == p.data
             e == CRLF
  <2>1. e \in Text /\ d \in Text /\ Len(e) = 2 /\ Len(d) = n
    BY <1>1, <1>2
  <2>2. e \o d \in Text /\ Len(e \o d) = Len(e) + Len(d)
    <3> HIDE DEF d, e
    <3>. QED
      BY <2>1, JoinFacts
  <2>. QED
    BY <2>1, <2>2
<1>4. /\ Marker \in Text /\ Len(Marker) = 5
      /\ Marker[1] = "CR" /\ Marker[2] = "LF" /\ Marker[3] = "-" /\ Marker[4] = "-" /\ Marker[5] = "b"
  BY MarkerIs
<1>9. \A i \in 1 .. n + 2 : w[i] = c[i]
  OBVIOUS
<1>10. \A a \in 1 .. 5 : w[n + 2 + a] = Marker[a]
  OBVIOUS
<1>11. j \in 1 .. n + 3
  OBVIOUS
<1> HIDE DEF n, c
<1>5. ASSUME j = n + 3 PROVE MarkerIn(w, j)
  <2>1. ASSUME NEW a \in 1 .. 5 PROVE w[j + a - 1] = Marker[a]
    <3>1. j + a - 1 = n + 2 + a
      BY <1>1, <1>5
    <3>. QED
      BY <1>10, <3>1
  <2>. QED
    BY <2>1 DEF MarkerIn
<1>6. ASSUME MarkerIn(w, j), j + 4 <= n + 2 PROVE FALSE
  <2>1. j \in 1 .. n /\ j \in 1 .. Len(c) + 1 /\ j + Len(Marker) <= Len(c) + 1
    BY <1>1, <1>3, <1>4, <1>6, <1>11
  <2>2. ASSUME NEW a \in 1 .. Len(Marker) PROVE c[j + a - 1] = Marker[a]
    <3>1. a \in 1 .. 5 /\ j + a - 1 \in 1 .. n + 2
      BY <1>1, <1>4, <1>6, <2>1
    <3>. QED
      BY <1>6, <1>9, <3>1 DEF MarkerIn
  <2>3. OccursAt(Marker, c, j)
    BY <1>3, <1>4, <2>1, <2>2, OccursIs
  <2>. QED
    BY <1>1, <2>1, <2>3
<1>7. ASSUME MarkerIn(w, j), ~(j + 4 <= n + 2), j # n + 3 PROVE FALSE
  <2> DEFINE a == n + 4 - j
  <2>1. a \in 2 .. 5 /\ j + a - 1 = n + 2 + 1
    BY <1>1, <1>7, <1>11
  <2>2. w[n + 2 + 1] = Marker[1]
    BY <1>10
  <2>3. w[j + a - 1] = Marker[a]
    BY <1>7, <2>1 DEF MarkerIn
  <2>4. a = 2 \/ a = 3 \/ a = 4 \/ a = 5
    BY <2>1
  <2> HIDE DEF a
  <2>. QED
    BY <1>4, <2>1, <2>2, <2>3, <2>4
<1>8. MarkerIn(w, j) <=> j = n + 3
  BY <1>5, <1>6, <1>7
<1>. QED
  BY <1>8 DEF n

\* The data of a part and the marker it ends with.
Marked(p) == p.data \o Marker

\* The symbols of a part's data and the marker.
LEMMA MarkedFacts ==
  ASSUME NEW p, PartOf(p)
  PROVE  /\ p.data \in Text /\ Len(p.data) \in Nat
         /\ Marked(p) \in Text /\ Len(Marked(p)) = Len(p.data) + 5
         /\ \A i \in 1 .. Len(p.data) : Marked(p)[i] = p.data[i]
         /\ \A a \in 1 .. 5 : Marked(p)[Len(p.data) + a] = Marker[a]
<1>1. p.data \in Text
  BY DEF PartOf
<1>2. Marker \in Text /\ Len(Marker) = 5
  BY MarkerIs
<1> DEFINE d == p.data
           m == Marker
<1>3. d \in Text /\ m \in Text /\ Len(m) = 5 /\ Marked(p) = d \o m
  BY <1>1, <1>2 DEF Marked
<1> HIDE DEF d, m
<1>4. /\ d \o m \in Text /\ Len(d \o m) = Len(d) + Len(m)
      /\ \A i \in 1 .. Len(d) : (d \o m)[i] = d[i]
      /\ \A i \in 1 .. Len(m) : (d \o m)[Len(d) + i] = m[i]
  BY <1>3, JoinFacts
<1>5. Len(d) \in Nat
  BY <1>3, TextFacts
<1>. QED
  BY <1>3, <1>4, <1>5 DEF d, m

\* Of the first k bytes, what is pending: all of the marker only at its end, and
\* from the marker's first byte on at least what is read of it.
LEMMA PendingData ==
  ASSUME NEW p, PartOf(p), NEW k \in 0 .. Len(p.data) + 5
  PROVE  /\ StillPending(SubSeq(Marked(p), 1, k)) = Marker <=> k = Len(p.data) + 5
         /\ Len(StillPending(SubSeq(Marked(p), 1, k))) \in 0 .. k
         /\ k - Len(StillPending(SubSeq(Marked(p), 1, k))) <= Len(p.data)
<1> DEFINE n == Len(p.data)
           D == Marked(p)
           t == SubSeq(D, 1, k)
           s == StillPending(t)
<1>1. /\ n \in Nat /\ D \in Text /\ Len(D) = n + 5 /\ p.data \in Text
      /\ \A i \in 1 .. n : D[i] = p.data[i]
      /\ \A a \in 1 .. 5 : D[n + a] = Marker[a]
  BY MarkedFacts
<1>11. k \in 0 .. n + 5 /\ k \in Nat
  BY <1>1
<1> HIDE DEF n, D
<1>2. t \in Text /\ Len(t) = k /\ \A j \in 1 .. k : t[j] = D[j]
  BY <1>1, <1>11, SplitFacts
<1> HIDE DEF t
<1>3. /\ s \in Text /\ Len(s) \in 0 .. k /\ Len(s) <= 5 /\ MayBegin(t, Len(s))
      /\ \A m \in Nat : MayBegin(t, m) => m <= Len(s)
      /\ s = Marker <=> Len(s) = 5
  BY <1>2, PendingFacts
<1> HIDE DEF s
<1> DEFINE c == CRLF \o p.data
           w == CRLF \o D
<1>4. CRLF \in Text /\ Len(CRLF) = 2
  BY Constants
<1>5. /\ c \in Text /\ Len(c) = 2 + n /\ (\A i \in 1 .. 2 : c[i] = CRLF[i])
      /\ \A i \in 1 .. n : c[2 + i] = p.data[i]
  <2> DEFINE d == p.data
             e == CRLF
  <2>1. e \in Text /\ d \in Text /\ Len(e) = 2 /\ Len(d) = n /\ c = e \o d
    BY <1>1, <1>4 DEF n
  <2>2. /\ e \o d \in Text /\ Len(e \o d) = Len(e) + Len(d)
        /\ \A i \in 1 .. Len(e) : (e \o d)[i] = e[i]
        /\ \A i \in 1 .. Len(d) : (e \o d)[Len(e) + i] = d[i]
    <3> HIDE DEF d, e
    <3>. QED
      BY <2>1, JoinFacts
  <2>. QED
    BY <2>1, <2>2
<1>6. /\ w \in Text /\ Len(w) = n + 7 /\ (\A i \in 1 .. 2 : w[i] = CRLF[i])
      /\ \A i \in 1 .. n + 5 : w[2 + i] = D[i]
  <2>1. /\ w \in Text /\ Len(w) = 2 + (n + 5) /\ (\A i \in 1 .. 2 : w[i] = CRLF[i])
        /\ \A i \in 1 .. n + 5 : w[2 + i] = D[i]
    <3> DEFINE e == CRLF
    <3>1. e \in Text /\ Len(e) = 2 /\ w = e \o D
      BY <1>4
    <3>2. /\ e \o D \in Text /\ Len(e \o D) = Len(e) + Len(D)
          /\ \A i \in 1 .. Len(e) : (e \o D)[i] = e[i]
          /\ \A i \in 1 .. Len(D) : (e \o D)[Len(e) + i] = D[i]
      <4> HIDE DEF e
      <4>. QED
        BY <1>1, <3>1, JoinFacts
    <3>. QED
      BY <1>1, <3>1, <3>2
  <2>. QED
    BY <1>1, <2>1
<1> HIDE DEF c, w
<1>7. ASSUME NEW i \in 1 .. n + 2 PROVE w[i] = c[i]
  <2>1. CASE i \in 1 .. 2
    BY <1>5, <1>6, <2>1
  <2>2. CASE i \notin 1 .. 2
    <3>1. i - 2 \in 1 .. n /\ i - 2 \in 1 .. n + 5 /\ 2 + (i - 2) = i
      BY <1>1, <2>2
    <3>2. w[2 + (i - 2)] = D[i - 2] /\ c[2 + (i - 2)] = p.data[i - 2]
      BY <1>5, <1>6, <3>1
    <3>. QED
      BY <1>1, <3>1, <3>2
  <2>. QED
    BY <2>1, <2>2
<1>8. ASSUME NEW a \in 1 .. 5 PROVE w[n + 2 + a] = Marker[a]
  <2>1. n + a \in 1 .. n + 5 /\ 2 + (n + a) = n + 2 + a
    BY <1>1
  <2>. QED
    BY <1>1, <1>6, <2>1
<1>9. ASSUME k = n + 5 PROVE Len(s) = 5
  <2>1. MayBegin(t, 5)
    <3>1. ASSUME NEW j \in 1 .. 5 PROVE t[Len(t) - 5 + j] = Marker[j]
      <4>1. Len(t) - 5 + j = n + j /\ n + j \in 1 .. k
        BY <1>1, <1>2, <1>9
      <4>. QED
        BY <1>1, <1>2, <4>1
    <3>2. 5 \in 0 .. Len(t)
      BY <1>1, <1>2, <1>9
    <3>. QED
      BY <3>1, <3>2 DEF MayBegin
  <2>2. 5 \in Nat
    OBVIOUS
  <2>3. 5 <= Len(s)
    BY <1>3, <2>1, <2>2
  <2>4. Len(s) \in Nat /\ Len(s) <= 5
    BY <1>3, <1>11
  <2>5. \A l \in Nat : l <= 5 /\ 5 <= l => l = 5
    OBVIOUS
  <2>. QED
    BY <2>3, <2>4, <2>5, Zenon
<1>10. ASSUME Len(s) = 5 PROVE k = n + 5
  <2>1. MayBegin(t, 5) /\ k >= 5
    BY <1>3, <1>10, <1>11
  <2>2. k - 2 \in 1 .. n + 3
    BY <1>1, <1>11, <2>1
  <2>3. ASSUME NEW a \in 1 .. 5 PROVE w[(k - 2) + a - 1] = Marker[a]
    <3>1. /\ (k - 2) + a - 1 = 2 + (k - 5 + a) /\ k - 5 + a \in 1 .. n + 5
          /\ k - 5 + a \in 1 .. k
      BY <1>1, <1>11, <2>1
    <3>2. t[k - 5 + a] = Marker[a]
      BY <1>2, <2>1 DEF MayBegin
    <3>3. w[2 + (k - 5 + a)] = D[k - 5 + a] /\ t[k - 5 + a] = D[k - 5 + a]
      BY <1>2, <1>6, <3>1
    <3>. QED
      BY <3>1, <3>2, <3>3
  <2>4. MarkerIn(w, k - 2)
    BY <2>3 DEF MarkerIn
  <2>5. MarkerIn(w, k - 2) <=> k - 2 = n + 3
    BY <1>7, <1>8, <2>2, MarkerOnce DEF n, c
  <2>. QED
    BY <1>1, <1>11, <2>4, <2>5
<1>12. k - Len(s) <= n
  <2>1. CASE k <= n
    BY <1>1, <1>3, <1>11, <2>1
  <2>2. CASE k > n
    <3>1. k - n \in 0 .. Len(t) /\ k - n <= 5 /\ k - n \in Nat
      BY <1>1, <1>2, <1>11, <2>2
    <3>2. ASSUME NEW j \in 1 .. k - n PROVE t[Len(t) - (k - n) + j] = Marker[j]
      <4>1. Len(t) - (k - n) + j = n + j /\ n + j \in 1 .. k /\ j \in 1 .. 5
        BY <1>1, <1>2, <1>11, <3>1
      <4>. QED
        BY <1>1, <1>2, <4>1
    <3>3. k - n <= Len(s)
      BY <1>3, <3>1, <3>2 DEF MayBegin
    <3>. QED
      BY <1>1, <1>3, <1>11, <3>3
  <2>. QED
    BY <1>1, <1>11, <2>1, <2>2
<1>. QED
  BY <1>3, <1>9, <1>10, <1>12 DEF s, t, D, n

-----------------------------------------------------------------------------
(* What is kept of the parts read.                                          *)

\* What is kept when the first i parts are read: the first wanted file, and the last
\* note's data.
NotesTo(f, i) == {j \in Notes(f) : j <= i}
NoteTo(f, i) == IF NotesTo(f, i) = {} THEN <<>> ELSE f.parts[Max(NotesTo(f, i))].data
FileKept(f, i, s, fl) ==
  /\ s <=> \E j \in Files(f) : j <= i
  /\ s => fl = FileOf(f)

\* The note of the first i parts is that of the part i, or of those before.
LEMMA NoteNext ==
  ASSUME NEW f \in Forms, NEW i \in 1 .. Len(f.parts)
  PROVE  NoteTo(f, i) = IF Meant(f.parts[i]) = "N" THEN f.parts[i].data ELSE NoteTo(f, i - 1)
<1>1. Len(f.parts) \in Nat /\ DOMAIN f.parts = 1 .. Len(f.parts)
  BY FormParts
<1>2. i \in Nat /\ i - 1 \in Nat /\ Notes(f) \subseteq Nat
  BY <1>1 DEF Notes
<1>3. CASE Meant(f.parts[i]) = "N"
  <2>1. i \in NotesTo(f, i) /\ NotesTo(f, i) \subseteq Nat
    BY <1>1, <1>2, <1>3 DEF NotesTo, Notes
  <2>2. \A m \in NotesTo(f, i) : m <= i
    BY DEF NotesTo
  <2>3. Max(NotesTo(f, i)) = i
    BY <2>1, <2>2, MaxIs
  <2>. QED
    BY <1>3, <2>1, <2>3 DEF NoteTo
<1>4. CASE Meant(f.parts[i]) # "N"
  <2>1. i \notin Notes(f)
    BY <1>4 DEF Notes
  <2>2. \A j \in Notes(f) : j <= i <=> j <= i - 1
    BY <1>2, <2>1
  <2>3. NotesTo(f, i) = NotesTo(f, i - 1)
    BY <2>2 DEF NotesTo
  <2>. QED
    BY <1>4, <2>3 DEF NoteTo
<1>. QED
  BY <1>3, <1>4

\* Before the first part there is none; after the last it is the form's.
LEMMA NoteEnds ==
  ASSUME NEW f \in Forms
  PROVE  /\ NoteTo(f, 0) = <<>> /\ NoteTo(f, Len(f.parts)) = NoteOf(f)
         /\ \A i \in 0 .. Len(f.parts) : NoteTo(f, i) \in Text
<1>1. /\ Len(f.parts) \in Nat /\ DOMAIN f.parts = 1 .. Len(f.parts)
      /\ \A i \in 1 .. Len(f.parts) : PartOf(f.parts[i])
  BY FormParts
<1>2. Notes(f) \subseteq 1 .. Len(f.parts)
  BY <1>1 DEF Notes
<1>3. NoteTo(f, 0) = <<>>
  <2>1. NotesTo(f, 0) = {}
    BY <1>1, <1>2 DEF NotesTo
  <2>. QED
    BY <2>1 DEF NoteTo
<1>4. NoteTo(f, Len(f.parts)) = NoteOf(f)
  <2>1. NotesTo(f, Len(f.parts)) = Notes(f)
    BY <1>1, <1>2 DEF NotesTo
  <2>. QED
    BY <2>1 DEF NoteTo, NoteOf
<1>5. ASSUME NEW i \in 0 .. Len(f.parts) PROVE NoteTo(f, i) \in Text
  <2>1. CASE NotesTo(f, i) = {}
    <3>1. <<>> \in Text
      BY EmptySeq DEF Text
    <3>. QED
      BY <2>1, <3>1 DEF NoteTo
  <2>2. CASE NotesTo(f, i) # {}
    <3>1. NotesTo(f, i) \subseteq Nat /\ i \in Nat /\ \A m \in NotesTo(f, i) : m <= i
      BY <1>1, <1>2 DEF NotesTo
    <3>2. Max(NotesTo(f, i)) \in NotesTo(f, i)
      BY <2>2, <3>1, NatMaximum
    <3>3. PartOf(f.parts[Max(NotesTo(f, i))])
      BY <1>1, <1>2, <3>2 DEF NotesTo
    <3>. QED
      BY <2>2, <3>3 DEF NoteTo, PartOf
  <2>. QED
    BY <2>1, <2>2
<1>. QED
  BY <1>3, <1>4, <1>5

\* A part that is wanted is kept when none was, and no other is.
LEMMA FileNext ==
  ASSUME NEW f \in Forms, NEW i \in 1 .. Len(f.parts), NEW s, NEW fl, FileKept(f, i - 1, s, fl)
  PROVE  /\ i \in Files(f) /\ ~s => FileKept(f, i, TRUE, f.parts[i].data)
         /\ i \notin Files(f) \/ s => FileKept(f, i, s, fl)
         /\ i \in Files(f) <=> IsFile(Meant(f.parts[i])) /\ Meant(f.parts[i]) \in f.wanted
<1>1. Len(f.parts) \in Nat /\ DOMAIN f.parts = 1 .. Len(f.parts)
  BY FormParts
<1>2. i \in Nat /\ Files(f) \subseteq Nat
  BY <1>1 DEF Files
<1>3. s <=> \E j \in Files(f) : j <= i - 1
  BY DEF FileKept
<1>4. s => fl = FileOf(f)
  BY DEF FileKept
<1>5. ASSUME i \in Files(f), ~s PROVE FileKept(f, i, TRUE, f.parts[i].data)
  <2>1. \A j \in Files(f) : i <= j
    BY <1>2, <1>3, <1>5
  <2>2. Min(Files(f)) = i
    BY <1>2, <1>5, <2>1, MinIs
  <2>3. FileOf(f) = f.parts[i].data
    BY <2>2 DEF FileOf
  <2>4. \E j \in Files(f) : j <= i
    BY <1>2, <1>5
  <2>. QED
    BY <2>3, <2>4 DEF FileKept
<1>6. ASSUME i \notin Files(f) \/ s PROVE FileKept(f, i, s, fl)
  <2>1. s <=> \E j \in Files(f) : j <= i
    <3>1. ASSUME s PROVE \E j \in Files(f) : j <= i
      <4>1. PICK j \in Files(f) : j <= i - 1
        BY <1>3, <3>1
      <4>2. j <= i
        BY <1>2, <4>1
      <4>. QED
        BY <4>2
    <3>2. ASSUME NEW j \in Files(f), j <= i PROVE s
      <4>1. CASE j = i
        BY <1>6, <4>1
      <4>2. CASE j # i
        <5>1. j <= i - 1
          BY <1>2, <3>2, <4>2
        <5>. QED
          BY <1>3, <5>1
      <4>. QED
        BY <4>1, <4>2
    <3>. QED
      BY <3>1, <3>2
  <2>. QED
    BY <1>4, <2>1 DEF FileKept
<1>7. i \in Files(f) <=> IsFile(Meant(f.parts[i])) /\ Meant(f.parts[i]) \in f.wanted
  BY <1>1 DEF Files
<1>. QED
  BY <1>5, <1>6, <1>7

\* Before the first part there is none; after the last, it is kept if there is one.
LEMMA FileEnds ==
  ASSUME NEW f \in Forms
  PROVE  /\ \A fl : FileKept(f, 0, FALSE, fl)
         /\ \A s, fl : FileKept(f, Len(f.parts), s, fl) => (s <=> Files(f) # {})
<1>1. Len(f.parts) \in Nat /\ DOMAIN f.parts = 1 .. Len(f.parts)
  BY FormParts
<1>2. Files(f) \subseteq 1 .. Len(f.parts)
  BY <1>1 DEF Files
<1>3. ~ \E j \in Files(f) : j <= 0
  BY <1>1, <1>2
<1>4. Files(f) # {} <=> \E j \in Files(f) : j <= Len(f.parts)
  BY <1>1, <1>2
<1>. QED
  BY <1>3, <1>4 DEF FileKept

\* Where the symbols of a set last are.
LEMMA LastIs ==
  ASSUME NEW t \in Text, NEW k \in 1 .. Len(t), t[k] \in Dispositions,
         \A j \in 1 .. Len(t) : j > k => t[j] \notin Dispositions
  PROVE  LastDisposition(t) = t[k]
<1> DEFINE at == {i \in DOMAIN t : t[i] \in Dispositions}
<1>1. Len(t) \in Nat /\ DOMAIN t = 1 .. Len(t)
  BY TextFacts
<1>2. at \subseteq Nat /\ k \in at
  BY <1>1
<1>3. \A m \in at : m <= k
  BY <1>1
<1>4. LastDisposition(t) = IF at = {} THEN "none" ELSE t[Max(at)]
  BY DEF LastDisposition
<1> HIDE DEF at
<1>5. Max(at) = k
  BY <1>2, <1>3, MaxIs
<1>. QED
  BY <1>2, <1>4, <1>5

\* A text without them.
LEMMA LastNone ==
  ASSUME NEW t \in Text, \A j \in 1 .. Len(t) : t[j] \notin Dispositions
  PROVE  LastDisposition(t) = "none"
<1>1. DOMAIN t = 1 .. Len(t)
  BY TextFacts
<1>2. {i \in DOMAIN t : t[i] \in Dispositions} = {}
  BY <1>1
<1>. QED
  BY <1>2 DEF LastDisposition

\* A text with them has a last.
LEMMA LastExists ==
  ASSUME NEW t \in Text, \E j \in 1 .. Len(t) : t[j] \in Dispositions
  PROVE  \E k \in 1 .. Len(t) : /\ t[k] \in Dispositions
                                /\ \A j \in 1 .. Len(t) : j > k => t[j] \notin Dispositions
<1> DEFINE at == {i \in 1 .. Len(t) : t[i] \in Dispositions}
<1>1. Len(t) \in Nat
  BY TextFacts
<1>2. at \subseteq Nat /\ at # {} /\ \A m \in at : m <= Len(t)
  BY <1>1
<1>3. Max(at) \in at /\ \A m \in at : m <= Max(at)
  <2> HIDE DEF at
  <2>. QED
    BY <1>1, <1>2, NatMaximum
<1>4. Max(at) \in 1 .. Len(t) /\ t[Max(at)] \in Dispositions
  BY <1>3
<1>5. ASSUME NEW j \in 1 .. Len(t), j > Max(at) PROVE t[j] \notin Dispositions
  <2>1. j \in at => j <= Max(at)
    BY <1>3
  <2>2. Max(at) \in Nat /\ j \in Nat
    BY <1>1, <1>4
  <2>3. j \notin at
    BY <1>5, <2>1, <2>2
  <2>. QED
    BY <2>3
<1>. QED
  BY <1>4, <1>5

\* One header more.
LEMMA LastNext ==
  ASSUME NEW t \in Text, NEW q \in 0 .. Len(t) - 1
  PROVE  LastDisposition(SubSeq(t, 1, q + 1))
           = IF t[q + 1] \in Dispositions THEN t[q + 1] ELSE LastDisposition(SubSeq(t, 1, q))
<1> DEFINE a == SubSeq(t, 1, q)
           b == SubSeq(t, 1, q + 1)
<1>1. Len(t) \in Nat /\ q \in 0 .. Len(t) /\ q + 1 \in 0 .. Len(t) /\ q \in Nat
  BY TextFacts
<1>2. a \in Text /\ Len(a) = q /\ \A j \in 1 .. q : a[j] = t[j]
  BY <1>1, SplitFacts
<1>3. b \in Text /\ Len(b) = q + 1 /\ \A j \in 1 .. q + 1 : b[j] = t[j]
  BY <1>1, SplitFacts
<1> HIDE DEF a, b
<1>4. CASE t[q + 1] \in Dispositions
  <2>1. q + 1 \in 1 .. Len(b) /\ b[q + 1] = t[q + 1]
    BY <1>1, <1>3
  <2>2. \A j \in 1 .. Len(b) : ~(j > q + 1)
    BY <1>1, <1>3
  <2>3. LastDisposition(b) = b[q + 1]
    BY <1>3, <1>4, <2>1, <2>2, LastIs
  <2>. QED
    BY <1>4, <2>1, <2>3 DEF b
<1>5. CASE t[q + 1] \notin Dispositions
  <2>1. CASE \E j \in 1 .. Len(a) : a[j] \in Dispositions
    <3>1. PICK k \in 1 .. Len(a) : /\ a[k] \in Dispositions
                                   /\ \A j \in 1 .. Len(a) : j > k => a[j] \notin Dispositions
      BY <1>2, <2>1, LastExists
    <3>2. LastDisposition(a) = a[k]
      BY <1>2, <3>1, LastIs
    <3>3. k \in 1 .. Len(b) /\ b[k] = a[k]
      BY <1>1, <1>2, <1>3, <3>1
    <3>4. ASSUME NEW j \in 1 .. Len(b), j > k PROVE b[j] \notin Dispositions
      <4>1. CASE j = q + 1
        BY <1>3, <1>5, <4>1
      <4>2. CASE j # q + 1
        <5>1. j \in 1 .. q
          BY <1>1, <1>3, <4>2
        <5>. QED
          BY <1>2, <1>3, <3>1, <3>4, <5>1
      <4>. QED
        BY <4>1, <4>2
    <3>5. LastDisposition(b) = b[k]
      BY <1>3, <3>1, <3>3, <3>4, LastIs
    <3>. QED
      BY <1>5, <3>2, <3>3, <3>5 DEF a, b
  <2>2. CASE \A j \in 1 .. Len(a) : a[j] \notin Dispositions
    <3>1. LastDisposition(a) = "none"
      BY <1>2, <2>2, LastNone
    <3>2. ASSUME NEW j \in 1 .. Len(b) PROVE b[j] \notin Dispositions
      <4>1. CASE j = q + 1
        BY <1>3, <1>5, <4>1
      <4>2. CASE j # q + 1
        <5>1. j \in 1 .. q /\ j \in 1 .. q + 1
          BY <1>1, <1>3, <4>2
        <5>. QED
          BY <1>2, <1>3, <2>2, <5>1
      <4>. QED
        BY <4>1, <4>2
    <3>3. LastDisposition(b) = "none"
      BY <1>3, <3>2, LastNone
    <3>. QED
      BY <1>5, <3>1, <3>3 DEF a, b
  <2>. QED
    BY <2>1, <2>2
<1>. QED
  BY <1>4, <1>5

\* What of a part is known to be data when k bytes are read and pd is pending.
Written(p, k, pd) == SubSeq(p.data, 1, k - Len(pd))

\* What of a text is known to be data when np is pending.
Known(text, np) == SubSeq(text, 1, Len(text) - Len(np))

\* Of the part p, k bytes are read and pd is pending; with one byte more np is.
ReadsOn(p, k, pd, text, np, data) ==
  /\ pd = StillPending(SubSeq(Marked(p), 1, k))
  /\ text = Append(pd, Marked(p)[k + 1])
  /\ np = StillPending(text)
  /\ data = Known(text, np)

\* A beginning one symbol longer.
LEMMA LongerBeginning ==
  ASSUME NEW t \in Text, NEW k \in 0 .. Len(t) - 1
  PROVE  /\ SubSeq(t, 1, k) \in Text /\ t[k + 1] \in Symbols
         /\ SubSeq(t, 1, k + 1) = Append(SubSeq(t, 1, k), t[k + 1])
<1> DEFINE a == SubSeq(t, 1, k)
           b == SubSeq(t, 1, k + 1)
           x == t[k + 1]
           c == Append(a, x)
<1>1. Len(t) \in Nat /\ k \in 0 .. Len(t) /\ k + 1 \in 0 .. Len(t) /\ k + 1 \in 1 .. Len(t) /\ k \in Nat
  BY TextFacts
<1>2. a \in Text /\ Len(a) = k /\ \A j \in 1 .. k : a[j] = t[j]
  BY <1>1, SplitFacts
<1>3. b \in Text /\ Len(b) = k + 1 /\ \A j \in 1 .. k + 1 : b[j] = t[j]
  BY <1>1, SplitFacts
<1>4. x \in Symbols
  BY <1>1, TextFacts
<1>9. x = t[k + 1]
  OBVIOUS
<1> HIDE DEF a, b, x
<1>5. /\ c \in Text /\ Len(c) = k + 1 /\ \A i \in 1 .. k : c[i] = a[i]
      /\ c[k + 1] = x
  BY <1>2, <1>4, AppendFacts
<1> HIDE DEF c
<1>6. ASSUME NEW j \in 1 .. k + 1 PROVE b[j] = c[j]
  <2>1. j = k + 1 \/ j \in 1 .. k
    BY <1>1
  <2>. QED
    BY <1>2, <1>3, <1>5, <1>9, <2>1
<1>7. b = c
  BY <1>3, <1>5, <1>6, TextEqual
<1>. QED
  BY <1>2, <1>4, <1>7 DEF a, b, c, x

\* What a byte of a part makes known to be data is what follows in the part.
LEMMA DataStep ==
  ASSUME NEW p, PartOf(p), NEW k \in 0 .. Len(p.data) + 4,
         NEW pd, NEW text, NEW np, NEW data, ReadsOn(p, k, pd, text, np, data)
  PROVE  /\ np = StillPending(SubSeq(Marked(p), 1, k + 1))
         /\ data \in Text /\ Written(p, k, pd) \in Text /\ Len(Written(p, k, pd)) <= Len(p.data)
         /\ Written(p, k, pd) \o data = Written(p, k + 1, np)
         /\ Len(Written(p, k + 1, np)) <= Len(p.data)
         /\ np = Marker <=> k + 1 = Len(p.data) + 5
         /\ np = Marker => Written(p, k + 1, np) = p.data
         /\ IsPrefix(np, Marker)
<1> DEFINE n == Len(p.data)
           d == p.data
           D == Marked(p)
           t == SubSeq(D, 1, k)
           u == SubSeq(D, 1, k + 1)
           x == D[k + 1]
<1>1. /\ n \in Nat /\ D \in Text /\ Len(D) = n + 5 /\ d \in Text /\ Len(d) = n
      /\ \A i \in 1 .. n : D[i] = d[i]
  BY MarkedFacts
<1>2. k \in Nat /\ k + 1 \in 0 .. n + 5 /\ k \in 0 .. n + 5 /\ k \in 0 .. Len(D) - 1
  BY <1>1
<1>3. t \in Text /\ x \in Symbols /\ u = Append(t, x)
  BY <1>1, <1>2, LongerBeginning
<1>4. u \in Text /\ Len(u) = k + 1 /\ \A j \in 1 .. k + 1 : u[j] = D[j]
  BY <1>1, <1>2, SplitFacts
<1>5. /\ StillPending(t) = Marker <=> k = n + 5
      /\ Len(StillPending(t)) \in 0 .. k /\ k - Len(StillPending(t)) <= n
  BY <1>2, PendingData
<1>6. /\ StillPending(u) = Marker <=> k + 1 = n + 5
      /\ Len(StillPending(u)) \in 0 .. k + 1 /\ (k + 1) - Len(StillPending(u)) <= n
  BY <1>2, PendingData
<1>7. /\ pd = StillPending(t) /\ text = Append(pd, x) /\ np = StillPending(text)
      /\ data = Known(text, np)
  BY DEF ReadsOn
<1> HIDE DEF n, d, D, t, u, x
<1>8. /\ StillPending(Append(StillPending(t), x)) = StillPending(Append(t, x))
      /\ Append(StillPending(t), x) = Suffix(Append(t, x), Len(StillPending(t)) + 1)
      /\ Len(StillPending(Append(t, x))) <= Len(StillPending(t)) + 1
  BY <1>3, PendingStep
<1>9. np = StillPending(u) /\ text = Suffix(u, Len(pd) + 1) /\ Len(np) <= Len(pd) + 1
  BY <1>3, <1>7, <1>8
<1>10. /\ Len(pd) \in 0 .. k /\ k - Len(pd) <= n
       /\ Len(np) \in 0 .. k + 1 /\ (k + 1) - Len(np) <= n
       /\ np = Marker <=> k + 1 = n + 5
  BY <1>5, <1>6, <1>7, <1>9
<1> DEFINE y == Len(pd)
           z == Len(np)
           m == y + 1 - z
<1>11. /\ y \in 0 .. k /\ k - y <= n /\ z \in 0 .. k + 1 /\ (k + 1) - z <= n /\ z <= y + 1
       /\ text = Suffix(u, y + 1)
  BY <1>9, <1>10
<1> HIDE DEF y, z
<1>12. y + 1 \in 0 .. Len(u)
  BY <1>2, <1>4, <1>11
<1>13. text \in Text /\ Len(text) = y + 1 /\ \A j \in 1 .. y + 1 : text[j] = u[Len(u) - (y + 1) + j]
  BY <1>4, <1>11, <1>12, SuffixFacts
<1>14. m \in 0 .. Len(text) /\ data = SubSeq(text, 1, m)
  <2>1. Len(text) - Len(np) = m
    <3>1. Len(text) = y + 1 /\ Len(np) = z
      BY <1>13 DEF z
    <3>. QED
      BY <1>2, <1>11, <3>1
  <2>2. data = SubSeq(text, 1, m)
    BY <1>7, <2>1 DEF Known
  <2>3. m \in 0 .. y + 1
    BY <1>2, <1>11
  <2>. QED
    BY <1>13, <2>2, <2>3
<1> HIDE DEF m
<1>15. data \in Text /\ Len(data) = m /\ \A j \in 1 .. m : data[j] = text[j]
  BY <1>13, <1>14, SplitFacts
<1> DEFINE a == SubSeq(d, 1, k - y)
           b == SubSeq(d, 1, (k + 1) - z)
           c == a \o data
<1>16. k - y \in 0 .. Len(d) /\ (k + 1) - z \in 0 .. Len(d)
  BY <1>1, <1>2, <1>11
<1>17. a \in Text /\ Len(a) = k - y /\ \A j \in 1 .. k - y : a[j] = d[j]
  BY <1>1, <1>16, SplitFacts
<1>18. b \in Text /\ Len(b) = (k + 1) - z /\ \A j \in 1 .. (k + 1) - z : b[j] = d[j]
  BY <1>1, <1>16, SplitFacts
<1>19. Written(p, k, pd) = a /\ Written(p, k + 1, np) = b
  BY DEF Written, d, y, z
<1> HIDE DEF a, b
<1>20. /\ c \in Text /\ Len(c) = Len(a) + Len(data)
       /\ \A i \in 1 .. Len(a) : c[i] = a[i]
       /\ \A i \in 1 .. Len(data) : c[Len(a) + i] = data[i]
  BY <1>15, <1>17, JoinFacts
<1> HIDE DEF c
<1>21. m = y + 1 - z /\ Len(c) = (k + 1) - z
  BY <1>2, <1>11, <1>15, <1>17, <1>20 DEF m
<1>22. ASSUME NEW j \in 1 .. (k + 1) - z PROVE c[j] = b[j]
  <2>1. b[j] = d[j]
    BY <1>18
  <2>2. CASE j <= k - y
    <3>1. j \in 1 .. k - y
      BY <1>2, <1>11, <2>2
    <3>. QED
      BY <1>17, <1>20, <2>1, <3>1
  <2>3. CASE j > k - y
    <3> DEFINE i == j - (k - y)
    <3>1. i \in 1 .. m /\ Len(a) + i = j /\ i \in 1 .. y + 1
      BY <1>2, <1>11, <1>17, <1>21, <2>3
    <3>2. Len(u) - (y + 1) + i = j /\ j \in 1 .. k + 1 /\ j \in 1 .. n
      BY <1>1, <1>2, <1>4, <1>11
    <3> HIDE DEF i
    <3>3. c[j] = data[i] /\ data[i] = text[i]
      BY <1>15, <1>20, <3>1
    <3>4. text[i] = u[j]
      BY <1>13, <3>1, <3>2
    <3>. QED
      BY <1>1, <1>4, <2>1, <3>2, <3>3, <3>4
  <2>. QED
    BY <1>2, <1>11, <2>2, <2>3
<1>23. c = b
  BY <1>18, <1>20, <1>21, <1>22, TextEqual
<1>24. ASSUME np = Marker PROVE b = d
  <2>1. k + 1 = n + 5 /\ Len(np) = 5
    BY <1>10, <1>24, MarkerIs
  <2>2. (k + 1) - z = n
    <3>1. z = 5
      BY <2>1 DEF z
    <3>. QED
      BY <1>1, <1>2, <2>1, <3>1
  <2>. QED
    BY <1>1, <1>18, <2>2, TextEqual
<1>25. IsPrefix(np, Marker)
  BY <1>4, <1>9, PendingFacts
<1>26. Len(a) <= n /\ Len(b) <= n
  BY <1>11, <1>17, <1>18
<1>. QED
  BY <1>9, <1>10, <1>15, <1>17, <1>19, <1>23, <1>24, <1>25, <1>26 DEF a, b, c, d, n, u, D

\* The most that fits is stored: all of it, or the rest does not fit.
LEMMA StoredFacts ==
  ASSUME NEW v \in Text, NEW data \in Text, Len(v) < FieldCap,
         NEW stored, stored = Max({n \in 0 .. Len(data) : n = 0 \/ Fits(v \o SubSeq(data, 1, n))})
  PROVE  /\ v \o SubSeq(data, 1, stored) \in Text
         /\ Len(v \o SubSeq(data, 1, stored)) < FieldCap
         /\ ~(stored < Len(data)) => v \o SubSeq(data, 1, stored) = v \o data
         /\ stored < Len(data) => v \o data \in Text /\ ~(Len(v \o data) < FieldCap)
<1> DEFINE T == {n \in 0 .. Len(data) : n = 0 \/ Fits(v \o SubSeq(data, 1, n))}
<1>1. Len(v) \in Nat /\ Len(data) \in Nat /\ FieldCap \in Nat
  BY TextFacts, LimitsAssumption
<1>2. T \subseteq Nat /\ 0 \in T /\ \A m \in T : m <= Len(data)
  BY <1>1
<1>3. stored \in T /\ \A m \in T : m <= stored
  <2>1. stored = Max(T)
    OBVIOUS
  <2> HIDE DEF T
  <2>2. T # {}
    BY <1>2
  <2>. QED
    BY <1>1, <1>2, <2>1, <2>2, NatMaximum
<1>4. stored \in 0 .. Len(data) /\ (stored = 0 \/ Fits(v \o SubSeq(data, 1, stored)))
  BY <1>3
<1> DEFINE a == SubSeq(data, 1, stored)
<1>5. a \in Text /\ Len(a) = stored
  BY <1>4, SplitFacts
<1>8. a = SubSeq(data, 1, stored)
  OBVIOUS
<1> HIDE DEF a
<1>6. v \o a \in Text /\ Len(v \o a) = Len(v) + Len(a)
  BY <1>5, JoinFacts
<1>7. Len(v \o a) < FieldCap
  <2>1. CASE stored = 0
    BY <1>1, <1>5, <1>6, <2>1
  <2>2. CASE Fits(v \o SubSeq(data, 1, stored))
    BY <1>8, <2>2 DEF Fits
  <2>. QED
    BY <1>4, <2>1, <2>2
<1>9. v \o data \in Text /\ Len(v \o data) = Len(v) + Len(data)
  BY JoinFacts
<1>10. SubSeq(data, 1, Len(data)) = data
  BY SubSeqFull DEF Text
<1>11. ASSUME ~(stored < Len(data)) PROVE a = data
  <2>1. stored = Len(data)
    BY <1>1, <1>4, <1>11
  <2>. QED
    BY <1>8, <1>10, <2>1
<1>12. ASSUME stored < Len(data) PROVE ~(Len(v \o data) < FieldCap)
  <2>1. Len(data) \notin T
    BY <1>1, <1>3, <1>4, <1>12
  <2>2. ~Fits(v \o SubSeq(data, 1, Len(data)))
    BY <1>1, <2>1
  <2>. QED
    BY <1>10, <2>2 DEF Fits
<1>. QED
  BY <1>6, <1>7, <1>8, <1>9, <1>11, <1>12

-----------------------------------------------------------------------------
(* The lines of a form.                                                     *)

\* The text s begins with the line b, which t follows; t is longer than what is read of
\* the next request can be.
Begins(s, b, t) ==
  /\ b \in Text /\ t \in Text /\ NoCR(b)
  /\ s = b \o (CRLF \o t)
  /\ Len(b) <= 3 /\ Len(t) >= 2

\* While such a line is read it is no longer, and bytes of the form are left.
LEMMA LineLeft ==
  ASSUME NEW l, NEW c, NEW u, NEW s, AtLine(l, c, u, s), NEW b, NEW t, Begins(s, b, t)
  PROVE  /\ Len(l) <= 3 /\ Len(u) >= 3
         /\ c => l = b /\ Head(u) = "LF" /\ Tail(u) = t
<1>1. /\ b \in Text /\ t \in Text /\ NoCR(b) /\ s = b \o (CRLF \o t)
      /\ Len(b) <= 3 /\ Len(t) >= 2
  BY DEF Begins
<1>2. l \in Text /\ u \in Text /\ c \in BOOLEAN
  BY DEF AtLine
<1>3. /\ c => l = b /\ u = <<"LF">> \o t
      /\ ~c => Len(l) <= Len(b) /\ Len(u) = (Len(b) - Len(l)) + (Len(t) + 2)
  <2>1. AtLine(l, c, u, s)
    OBVIOUS
  <2>2. /\ c => l = b /\ u = <<"LF">> \o t
        /\ ~c => /\ Len(l) <= Len(b) /\ Len(u) = (Len(b) - Len(l)) + (Len(t) + 2)
                 /\ u # <<>>
                 /\ Head(u) = "CR" => l = b
                 /\ Head(u) # "CR" => Len(l) < Len(b)
    BY <1>1, <2>1, LineMatches, ZenonT(40)
  <2>. QED
    BY <2>2
<1>4. Len(l) \in Nat /\ Len(u) \in Nat /\ Len(b) \in Nat /\ Len(t) \in Nat
  BY <1>1, <1>2, TextFacts
<1>5. "LF" \in Symbols
  BY FormsAssumption
<1>6. CASE c
  <2>1. Len(<<"LF">> \o t) = Len(t) + 1 /\ Head(<<"LF">> \o t) = "LF" /\ Tail(<<"LF">> \o t) = t
    BY <1>1, <1>5, OneFacts
  <2>2. l = b /\ u = <<"LF">> \o t
    BY <1>3, <1>6
  <2>3. Len(u) = Len(t) + 1 /\ Head(u) = "LF" /\ Tail(u) = t
    BY <2>1, <2>2
  <2>. QED
    BY <1>1, <1>4, <2>2, <2>3
<1>7. CASE ~c
  BY <1>1, <1>3, <1>4, <1>7
<1>. QED
  BY <1>6, <1>7

\* A line of which nothing is read.
LEMMA LineStarts ==
  ASSUME NEW s \in Text
  PROVE  AtLine(<<>>, FALSE, s, s)
<1>1. <<>> \in Text /\ Len(<<>>) = 0 /\ <<>> \o s = s
  BY JoinEmpty
<1>2. NoCR(<<>>)
  BY <1>1 DEF NoCR
<1>. QED
  BY <1>1, <1>2 DEF AtLine

\* What follows a part's headers, its data and the marker, is longer than a line's end.
LEMMA PartTextFacts ==
  ASSUME NEW p, PartOf(p), NEW r \in Text
  PROVE  /\ Marked(p) \o r \in Text /\ Len(Marked(p) \o r) >= 2
         /\ PartText(p, Len(p.headers), r) = CRLF \o (Marked(p) \o r)
         /\ Begins(PartText(p, Len(p.headers), r), <<>>, Marked(p) \o r)
         /\ \A q \in 0 .. Len(p.headers) :
              PartText(p, q, r) \in Text /\ Len(PartText(p, q, r)) >= 2
         /\ \A q \in 0 .. Len(p.headers) - 1 :
              /\ p.headers[q + 1] \in Symbols
              /\ Begins(PartText(p, q, r), <<p.headers[q + 1]>>, PartText(p, q + 1, r))
<1> DEFINE m == Len(p.headers)
           d == p.data
           D == Marked(p)
           t == D \o r
           h == p.headers
<1>1. /\ m \in Nat /\ (\A q \in 0 .. m : Headers(p, q) \in Text)
      /\ Headers(p, m) = CRLF
      /\ \A q \in 0 .. m - 1 : Headers(p, q) = <<h[q + 1]>> \o (CRLF \o Headers(p, q + 1))
  BY HeadersFacts
<1>2. /\ d \in Text /\ h \in Text /\ m = Len(h)
      /\ \A i \in 1 .. m : h[i] # "CR" /\ h[i] # "LF"
  BY DEF PartOf
<1>3. D \in Text /\ Len(D) = Len(d) + 5 /\ Len(d) \in Nat
  BY MarkedFacts
<1>4. Marker \in Text /\ CRLF \in Text /\ Len(CRLF) = 2
  BY MarkerIs, Constants
<1>5. d \o (Marker \o r) = t
  <2> DEFINE mk == Marker
  <2>1. mk \in Text /\ D = d \o mk
    BY <1>4 DEF Marked
  <2> HIDE DEF mk, d
  <2>2. (d \o mk) \o r = d \o (mk \o r)
    BY <1>2, <2>1, JoinAssociative
  <2>. QED
    BY <2>1, <2>2 DEF mk
<1>6. \A q : PartText(p, q, r) = Headers(p, q) \o t
  BY <1>5 DEF PartText
<1>7. \A i \in 1 .. m : h[i] \in Symbols
  BY <1>2, TextFacts
<1> HIDE DEF m, d, D, h
<1>8. t \in Text /\ Len(t) = Len(D) + Len(r) /\ Len(r) \in Nat
  BY <1>3, JoinFacts, TextFacts
<1>9. Len(t) >= 2
  BY <1>3, <1>8
<1> HIDE DEF t
<1>10. ASSUME NEW q \in 0 .. m PROVE PartText(p, q, r) \in Text /\ Len(PartText(p, q, r)) >= 2
  <2> DEFINE a == Headers(p, q)
  <2>1. a \in Text /\ PartText(p, q, r) = a \o t
    BY <1>1, <1>6
  <2> HIDE DEF a
  <2>2. a \o t \in Text /\ Len(a \o t) = Len(a) + Len(t) /\ Len(a) \in Nat /\ Len(t) \in Nat
    BY <1>8, <2>1, JoinFacts, TextFacts
  <2>3. Len(a \o t) >= 2
    BY <1>9, <2>2
  <2>. QED
    BY <2>1, <2>2, <2>3
<1>11. PartText(p, m, r) = CRLF \o t
  BY <1>1, <1>6
<1>12. Begins(PartText(p, m, r), <<>>, t)
  <2> DEFINE x == CRLF \o t
  <2>1. x \in Text
    BY <1>4, <1>8, JoinFacts
  <2>2. <<>> \in Text /\ Len(<<>>) = 0 /\ <<>> \o x = x
    <3> HIDE DEF x
    <3>. QED
      BY <2>1, JoinEmpty
  <2>3. NoCR(<<>>)
    BY <2>2 DEF NoCR
  <2>. QED
    BY <1>8, <1>9, <1>11, <2>2, <2>3 DEF Begins
<1>13. ASSUME NEW q \in 0 .. m - 1
       PROVE  h[q + 1] \in Symbols /\ Begins(PartText(p, q, r), <<h[q + 1]>>, PartText(p, q + 1, r))
  <2> DEFINE b == <<h[q + 1]>>
             a == Headers(p, q + 1)
  <2>1. q + 1 \in 1 .. m /\ q + 1 \in 0 .. m
    BY <1>1
  <2>2. h[q + 1] \in Symbols /\ h[q + 1] # "CR"
    BY <1>2, <1>7, <2>1
  <2>3. b \in Text /\ Len(b) = 1 /\ b[1] = h[q + 1]
    BY <2>2 DEF Text
  <2>4. NoCR(b)
    BY <2>2, <2>3 DEF NoCR
  <2>5. a \in Text /\ PartText(p, q + 1, r) = a \o t /\ PartText(p, q, r) = (b \o (CRLF \o a)) \o t
    BY <1>1, <1>6, <2>1
  <2> HIDE DEF a, b
  <2>6. (b \o (CRLF \o a)) \o t = b \o ((CRLF \o a) \o t)
    <3>1. CRLF \o a \in Text
      BY <1>4, <2>5, JoinFacts
    <3>. QED
      BY <1>8, <2>3, <3>1, JoinAssociative
  <2>7. (CRLF \o a) \o t = CRLF \o (a \o t)
    BY <1>4, <1>8, <2>5, JoinAssociative
  <2>8. PartText(p, q + 1, r) \in Text /\ Len(PartText(p, q + 1, r)) >= 2
    BY <1>10, <2>1
  <2>9. Begins(PartText(p, q, r), b, PartText(p, q + 1, r))
    <3>1. PartText(p, q, r) = b \o (CRLF \o PartText(p, q + 1, r))
      BY <2>5, <2>6, <2>7
    <3>. QED
      BY <2>3, <2>4, <2>8, <3>1 DEF Begins
  <2>. QED
    BY <2>2, <2>9 DEF b
<1>. QED
  BY <1>8, <1>9, <1>10, <1>11, <1>12, <1>13 DEF m, h, t, D

\* The first line of a form that has parts is the boundary.
LEMMA FirstLineIs ==
  ASSUME NEW f \in Forms, Len(f.parts) >= 1
  PROVE  Begins(Sent(f), BoundaryLine, PartText(f.parts[1], 0, Rest(f, 1)))
<1> DEFINE t == PartText(f.parts[1], 0, Rest(f, 1))
<1>1. /\ Len(f.parts) \in Nat /\ (\A i \in 0 .. Len(f.parts) : Rest(f, i) \in Text)
      /\ \A i \in 1 .. Len(f.parts) : Rest(f, i - 1) = CRLF \o PartText(f.parts[i], 0, Rest(f, i))
      /\ Sent(f) = BoundaryLine \o Rest(f, 0)
  BY RestFacts
<1>2. 1 \in 1 .. Len(f.parts) /\ 1 \in 0 .. Len(f.parts) /\ 1 - 1 = 0
  BY <1>1
<1>3. PartOf(f.parts[1]) /\ Rest(f, 1) \in Text
  BY <1>1, <1>2, FormParts
<1>4. 0 \in 0 .. Len(f.parts[1].headers)
  BY <1>3, HeadersFacts
<1>5. t \in Text /\ Len(t) >= 2
  BY <1>3, <1>4, PartTextFacts
<1>6. Rest(f, 0) = CRLF \o t
  BY <1>1, <1>2
<1>7. BoundaryLine \in Text /\ Len(BoundaryLine) = 3 /\ NoCR(BoundaryLine)
  <2>1. /\ BoundaryLine \in Text /\ Len(BoundaryLine) = 3
        /\ BoundaryLine[1] = "-" /\ BoundaryLine[2] = "-" /\ BoundaryLine[3] = "b"
    BY Constants
  <2>2. ASSUME NEW i \in 1 .. 3 PROVE BoundaryLine[i] # "CR"
    <3>1. i = 1 \/ i = 2 \/ i = 3
      OBVIOUS
    <3>. QED
      BY <2>1, <3>1
  <2>. QED
    BY <2>1, <2>2 DEF NoCR
<1>8. Sent(f) = BoundaryLine \o (CRLF \o t)
  BY <1>1, <1>6
<1> HIDE DEF t
<1>9. Begins(Sent(f), BoundaryLine, t)
  BY <1>5, <1>7, <1>8 DEF Begins
<1>. QED
  BY <1>9 DEF t

\* After a boundary that another part follows, an empty line.
LEMMA AfterLineIs ==
  ASSUME NEW f \in Forms, NEW i \in 1 .. Len(f.parts) - 1
  PROVE  Begins(Rest(f, i), <<>>, PartText(f.parts[i + 1], 0, Rest(f, i + 1)))
<1> DEFINE t == PartText(f.parts[i + 1], 0, Rest(f, i + 1))
<1>1. /\ Len(f.parts) \in Nat /\ (\A j \in 0 .. Len(f.parts) : Rest(f, j) \in Text)
      /\ \A j \in 1 .. Len(f.parts) : Rest(f, j - 1) = CRLF \o PartText(f.parts[j], 0, Rest(f, j))
  BY RestFacts
<1>2. i + 1 \in 1 .. Len(f.parts) /\ i + 1 \in 0 .. Len(f.parts) /\ (i + 1) - 1 = i
  BY <1>1
<1>3. PartOf(f.parts[i + 1]) /\ Rest(f, i + 1) \in Text
  BY <1>1, <1>2, FormParts
<1>4. 0 \in 0 .. Len(f.parts[i + 1].headers)
  BY <1>3, HeadersFacts
<1>5. t \in Text /\ Len(t) >= 2
  BY <1>3, <1>4, PartTextFacts
<1>6. Rest(f, i) = CRLF \o t
  BY <1>1, <1>2
<1> HIDE DEF t
<1> DEFINE x == CRLF \o t
<1>7. x \in Text
  BY <1>5, Constants, JoinFacts
<1>8. <<>> \in Text /\ Len(<<>>) = 0 /\ <<>> \o x = x
  <2> HIDE DEF x
  <2>. QED
    BY <1>7, JoinEmpty
<1>9. NoCR(<<>>)
  BY <1>8 DEF NoCR
<1>10. Begins(Rest(f, i), <<>>, t)
  BY <1>5, <1>6, <1>8, <1>9 DEF Begins
<1>. QED
  BY <1>10 DEF t

\* What the end of a form both readers must take is.
LEMMA AcceptableFacts ==
  ASSUME NEW f \in Forms, Acceptable(f)
  PROVE  /\ f.cut = 0 /\ Len(f.parts) >= 1
         /\ \A i \in Notes(f) : Len(f.parts[i].data) < FieldCap
         /\ Files(f) # {}
         /\ \E t : f.tail = CRLF \o t /\ t \in Text
<1>1. Len(f.parts) \in Nat /\ DOMAIN f.parts = 1 .. Len(f.parts) /\ f.tail \in Text
  BY FormParts
<1>2. f.cut = 0 /\ IsPrefix(CRLF, f.tail) /\ Files(f) # {}
  BY DEF Acceptable
<1>3. Len(f.parts) >= 1
  BY <1>1, <1>2 DEF Files
<1>4. \A i \in Notes(f) : Len(f.parts[i].data) < FieldCap
  BY DEF Acceptable, Fits
<1>5. \E t : f.tail = CRLF \o t /\ t \in Text
  <2> DEFINE x == f.tail
             c == CRLF
  <2>1. c \in Text /\ Len(c) = 2 /\ x \in Text /\ Len(x) \in Nat
    BY <1>1, Constants, TextFacts
  <2>2. Len(c) <= Len(x) /\ SubSeq(c, 1, Len(c)) = SubSeq(x, 1, Len(c))
    BY <1>2 DEF IsPrefix
  <2> HIDE DEF x, c
  <2>3. 2 \in 0 .. Len(x) /\ 2 + 1 \in 1 .. Len(x) + 1
    BY <2>1, <2>2
  <2>4. SubSeq(c, 1, Len(c)) = c
    BY <2>1, SubSeqFull DEF Text
  <2>5. SubSeq(x, 1, 2) \o From(x, 2 + 1) = x
    BY <2>1, <2>3, SplitFacts
  <2>6. From(x, 2 + 1) \in Text
    BY <2>1, <2>3, FromFacts
  <2>7. SubSeq(x, 1, 2) = c
    BY <2>1, <2>2, <2>4
  <2>8. x = c \o From(x, 2 + 1) /\ From(x, 2 + 1) \in Text
    BY <2>5, <2>6, <2>7
  <2>9. \E t : x = c \o t /\ t \in Text
    BY <2>8
  <2>. QED
    BY <2>9 DEF x, c
<1>. QED
  BY <1>2, <1>3, <1>4, <1>5

\* After its last boundary, "--".
LEMMA EndLineIs ==
  ASSUME NEW f \in Forms, Acceptable(f)
  PROVE  \E t : Begins(Rest(f, Len(f.parts)), <<"-", "-">>, t)
<1> DEFINE dd == <<"-", "-">>
           nr == NextRequest
<1>1. Rest(f, Len(f.parts)) = dd \o (f.tail \o nr)
  BY RestFacts
<1>2. PICK t : f.tail = CRLF \o t /\ t \in Text
  BY AcceptableFacts
<1>3. dd \in Text /\ Len(dd) = 2 /\ dd[1] = "-" /\ dd[2] = "-" /\ nr \in Text /\ Len(nr) = 2
  BY Constants
<1>4. CRLF \in Text
  BY Constants
<1> HIDE DEF dd, nr
<1>5. (CRLF \o t) \o nr = CRLF \o (t \o nr)
  BY <1>2, <1>3, <1>4, JoinAssociative
<1>6. t \o nr \in Text /\ Len(t \o nr) = Len(t) + Len(nr) /\ Len(t) \in Nat
  BY <1>2, <1>3, JoinFacts, TextFacts
<1>7. Len(t \o nr) >= 2
  BY <1>3, <1>6
<1>8. NoCR(dd)
  <2>1. ASSUME NEW i \in 1 .. Len(dd) PROVE dd[i] # "CR"
    <3>1. i = 1 \/ i = 2
      BY <1>3
    <3>. QED
      BY <1>3, <3>1
  <2>. QED
    BY <2>1 DEF NoCR
<1>9. Rest(f, Len(f.parts)) = dd \o (CRLF \o (t \o nr))
  BY <1>1, <1>2, <1>5
<1>10. Begins(Rest(f, Len(f.parts)), dd, t \o nr)
  BY <1>3, <1>6, <1>7, <1>8, <1>9 DEF Begins
<1>. QED
  BY <1>10 DEF dd

\* It is no empty line, and the first line of a form without parts no boundary.
LEMMA EndIsDash ==
  ASSUME NEW f \in Forms
  PROVE  /\ \A u : ~AtLine(<<>>, TRUE, u, Rest(f, Len(f.parts)))
         /\ Len(f.parts) = 0 => \A u : ~AtLine(BoundaryLine, TRUE, u, Sent(f))
<1> DEFINE dd == <<"-", "-">>
           e == f.tail \o NextRequest
           r == Rest(f, Len(f.parts))
<1>1. r = dd \o e /\ Sent(f) = BoundaryLine \o Rest(f, 0) /\ r \in Text
  <2>1. /\ Len(f.parts) \in Nat /\ (\A i \in 0 .. Len(f.parts) : Rest(f, i) \in Text)
        /\ Rest(f, Len(f.parts)) = <<"-", "-">> \o (f.tail \o NextRequest)
        /\ Sent(f) = BoundaryLine \o Rest(f, 0)
    BY RestFacts
  <2>2. Len(f.parts) \in 0 .. Len(f.parts)
    BY <2>1
  <2>. QED
    BY <2>1, <2>2
<1>2. dd \in Text /\ dd # <<>> /\ dd[1] = "-" /\ e \in Text
  <2>1. f.tail \in Text /\ dd \in Text /\ dd[1] = "-" /\ NextRequest \in Text /\ Len(dd) = 2
    BY Constants, FormParts
  <2>2. dd # <<>>
    BY <2>1, TextFacts
  <2>. QED
    BY <2>1, <2>2, JoinFacts
<1> HIDE DEF dd, e, r
<1>3. Head(r) = "-"
  BY <1>1, <1>2, HeadJoin
<1>4. ASSUME NEW u \in Text PROVE <<"CR">> \o u # r /\ <<"CR">> \o u \in Text
  <2>1. Head(<<"CR">> \o u) = "CR" /\ <<"CR">> \o u \in Text
    BY FormsAssumption, OneFacts
  <2>. QED
    BY <1>3, <2>1
<1>5. ASSUME NEW u, AtLine(<<>>, TRUE, u, r) PROVE FALSE
  <2>1. u \in Text /\ r = <<>> \o (<<"CR">> \o u)
    BY <1>5 DEF AtLine
  <2>2. <<"CR">> \o u \in Text
    BY <1>4, <2>1
  <2>3. <<>> \o (<<"CR">> \o u) = <<"CR">> \o u
    BY <2>2, JoinEmpty
  <2>. QED
    BY <1>4, <2>1, <2>3
<1>6. ASSUME Len(f.parts) = 0, NEW u, AtLine(BoundaryLine, TRUE, u, Sent(f)) PROVE FALSE
  <2>1. u \in Text /\ Sent(f) = BoundaryLine \o (<<"CR">> \o u)
    BY <1>6 DEF AtLine
  <2>2. Rest(f, 0) = r
    BY <1>6 DEF r
  <2>3. BoundaryLine \o (<<"CR">> \o u) = BoundaryLine \o r /\ BoundaryLine \in Text
    BY <1>1, <2>1, <2>2, Constants
  <2>4. <<"CR">> \o u \in Text
    BY <1>4, <2>1
  <2>5. <<"CR">> \o u = r
    BY <1>1, <2>3, <2>4, JoinCancel
  <2>. QED
    BY <1>4, <2>1, <2>5
<1>. QED
  BY <1>5, <1>6 DEF r

-----------------------------------------------------------------------------
(* The inductive invariant: where each reader is in the form, and what it   *)
(* has kept of the parts it has read.                                       *)

\* Of a form read from the socket: the first line;
FirstLineAt ==
  /\ AtLine(line, cr, Unread, Sent(form))
  /\ disposition = "none"
  /\ ~open /\ FileKept(form, 0, saved, file) /\ value = NoteTo(form, 0)

\* the line after q headers of the part i;
HeaderAt(i, q) ==
  /\ AtLine(line, cr, Unread, PartText(form.parts[i], q, Rest(form, i)))
  /\ disposition = LastDisposition(SubSeq(form.parts[i].headers, 1, q))
  /\ ~open /\ FileKept(form, i - 1, saved, file) /\ value = NoteTo(form, i - 1)

\* k bytes of the part i and of the marker after it;
DataAt(i, k) ==
  /\ Unread = From(Marked(form.parts[i]), k + 1) \o Rest(form, i)
  /\ pending = StillPending(SubSeq(Marked(form.parts[i]), 1, k))
  /\ disposition = Meant(form.parts[i])
  /\ open <=> IsWanted(disposition)
  /\ \E fl : FileKept(form, i - 1, saved, fl) /\ (saved => file = fl)
  /\ open => file = Written(form.parts[i], k, pending)
  /\ value = IF disposition = "N" THEN Written(form.parts[i], k, pending)
             ELSE NoteTo(form, i - 1)

\* the line after the part i and its boundary;
AfterAt(i) ==
  /\ AtLine(line, cr, Unread, Rest(form, i))
  /\ ~open /\ FileKept(form, i, saved, file) /\ value = NoteTo(form, i)

\* the rest of the form, when all its parts are read;
AllRead ==
  /\ FileKept(form, Len(form.parts), saved, file)
  /\ value = NoteTo(form, Len(form.parts))

\* the end, from which only a form that was read leaves the connection usable.
AtEnd ==
  \/ rc = "ok" /\ remaining = 0 /\ saved /\ AllRead
  \/ rc = "failed" /\ (fault \/ ~Acceptable(form))

Streaming ==
  /\ pc \in {"first", "header", "data", "after", "drain", "leave", "done"}
  /\ pc # "done" => Input(form, buffer, used, chunk, net, remaining) /\ mustClose
  /\ pc \notin {"leave", "done"} => rc = "failed"
  /\ pc = "first" => FirstLineAt
  /\ pc = "header" =>
       \E i \in 1 .. Len(form.parts) : \E q \in 0 .. Len(form.parts[i].headers) : HeaderAt(i, q)
  /\ pc = "data" =>
       /\ ~cr /\ line = <<>>
       /\ \E i \in 1 .. Len(form.parts) : \E k \in 0 .. Len(form.parts[i].data) + 4 : DataAt(i, k)
  /\ pc = "after" => \E i \in 1 .. Len(form.parts) : AfterAt(i)
  /\ pc = "drain" => AllRead
  /\ pc = "leave" => AtEnd
  /\ pc = "done" => SavedExact /\ NextRequestIntact

\* Of a body in memory: the boundary after i parts.  A part without headers, whose
\* data it searches for their end, the reader does not take for what it is.
Headed(f) == \A i \in DOMAIN f.parts : f.parts[i].headers # <<>>

PartReadTo(i) ==
  /\ used \in 1 .. Len(Sent(form))
  /\ From(Sent(form), used) = BoundaryLine \o Rest(form, i)
  /\ FileKept(form, i, saved, file) /\ value = NoteTo(form, i)

InBody ==
  /\ pc \in {"parts", "done"}
  /\ buffer \in Text /\ net \in Text /\ buffer \o net = Sent(form)
  /\ remaining = Announced(form) /\ remaining <= Len(buffer)
  /\ chunk = <<>> /\ ~mustClose /\ used \in Nat \ {0}
  /\ Headed(form) /\ pc = "parts" =>
       rc = "failed" /\ ~fault /\ \E i \in 0 .. Len(form.parts) : PartReadTo(i)
  /\ Headed(form) /\ pc = "done" => SavedExact

UploadInv ==
  /\ form \in Forms /\ streamed \in BOOLEAN
  /\ value \in Text /\ Len(value) < FieldCap
  /\ IsStrictPrefix(pending, Marker)
  /\ IF streamed THEN Streaming ELSE InBody

\* Where a form is read from the socket.
LEMMA Base ==
  ASSUME UploadInv, streamed, pc # "done"
  PROVE  /\ form \in Forms /\ Sizes(form) /\ mustClose /\ streamed \in BOOLEAN
         /\ Input(form, buffer, used, chunk, net, remaining)
         /\ Unread \in Text /\ Len(Unread) = remaining + form.cut + 2 /\ remaining \in Nat
         /\ form.cut \in Nat
<1>1. /\ form \in Forms /\ mustClose /\ streamed \in BOOLEAN
      /\ Input(form, buffer, used, chunk, net, remaining)
  BY DEF UploadInv, Streaming
<1>2. Sizes(form)
  BY <1>1, RestFacts
<1> DEFINE S == Sent(form)
           a == Announced(form)
           i == a - remaining + 1
<1>3. S \in Text /\ a \in Nat /\ form.cut \in Nat /\ Len(S) = a + form.cut + 2
  BY <1>2 DEF Sizes
<1>4. remaining \in 0 .. a /\ Unread = From(S, i)
  BY <1>1 DEF Input, Unread
<1> HIDE DEF S, a
<1>5. i \in 1 .. Len(S) + 1 /\ remaining \in Nat
  BY <1>3, <1>4
<1>6. From(S, i) \in Text /\ Len(From(S, i)) = Len(S) - i + 1
  <2> HIDE DEF i
  <2>. QED
    BY <1>3, <1>5, FromFacts
<1>7. Len(S) - i + 1 = remaining + form.cut + 2
  BY <1>3, <1>5
<1>. QED
  BY <1>1, <1>2, <1>3, <1>4, <1>5, <1>6, <1>7

\* In a form both readers must take, every line read is one that is expected.
LEMMA Expects ==
  ASSUME UploadInv, streamed, InLine, Acceptable(form)
  PROVE  \E s, b, t : AtLine(line, cr, Unread, s) /\ Begins(s, b, t)
<1>1. form \in Forms /\ Streaming
  BY DEF UploadInv
<1>2. CASE pc = "first"
  <2>1. AtLine(line, cr, Unread, Sent(form))
    BY <1>1, <1>2 DEF Streaming, FirstLineAt
  <2>2. Begins(Sent(form), BoundaryLine, PartText(form.parts[1], 0, Rest(form, 1)))
    BY <1>1, AcceptableFacts, FirstLineIs
  <2>. QED
    BY <2>1, <2>2
<1>3. CASE pc = "header"
  <2>0. PICK i \in 1 .. Len(form.parts) : \E q \in 0 .. Len(form.parts[i].headers) : HeaderAt(i, q)
    BY <1>1, <1>3 DEF Streaming
  <2>1. PICK q \in 0 .. Len(form.parts[i].headers) : HeaderAt(i, q)
    BY <2>0
  <2> DEFINE p == form.parts[i]
             r == Rest(form, i)
  <2>2. PartOf(p) /\ r \in Text /\ Len(p.headers) \in Nat
    <3>1. i \in 0 .. Len(form.parts) /\ PartOf(p)
      BY <1>1, <2>1, FormParts
    <3>2. r \in Text
      BY <1>1, <3>1, RestFacts
    <3>. QED
      BY <3>1, <3>2, HeadersFacts
  <2>3. AtLine(line, cr, Unread, PartText(p, q, r)) /\ q \in 0 .. Len(p.headers)
    BY <2>1 DEF HeaderAt
  <2> HIDE DEF p, r
  <2>4. CASE q = Len(p.headers)
    <3>1. Begins(PartText(p, q, r), <<>>, Marked(p) \o r)
      BY <2>2, <2>4, PartTextFacts
    <3>. QED
      BY <2>3, <3>1
  <2>5. CASE q # Len(p.headers)
    <3>1. q \in 0 .. Len(p.headers) - 1
      BY <2>2, <2>3, <2>5
    <3>2. Begins(PartText(p, q, r), <<p.headers[q + 1]>>, PartText(p, q + 1, r))
      BY <2>2, <3>1, PartTextFacts
    <3>. QED
      BY <2>3, <3>2
  <2>. QED
    BY <2>4, <2>5
<1>4. CASE pc = "after"
  <2>1. PICK i \in 1 .. Len(form.parts) : AfterAt(i)
    BY <1>1, <1>4 DEF Streaming
  <2>2. AtLine(line, cr, Unread, Rest(form, i))
    BY <2>1 DEF AfterAt
  <2>3. Len(form.parts) \in Nat
    BY <1>1, FormParts
  <2>4. CASE i = Len(form.parts)
    <3>1. PICK t : Begins(Rest(form, Len(form.parts)), <<"-", "-">>, t)
      BY <1>1, EndLineIs
    <3>. QED
      BY <2>2, <2>4, <3>1
  <2>5. CASE i # Len(form.parts)
    <3>1. i \in 1 .. Len(form.parts) - 1
      BY <2>1, <2>3, <2>5
    <3>2. Begins(Rest(form, i), <<>>, PartText(form.parts[i + 1], 0, Rest(form, i + 1)))
      BY <1>1, <3>1, AfterLineIs
    <3>. QED
      BY <2>2, <3>2
  <2>. QED
    BY <2>4, <2>5
<1>. QED
  BY <1>2, <1>3, <1>4 DEF InLine

-----------------------------------------------------------------------------
(* Each step of the reader from the socket keeps the invariant.             *)

\* A byte of a line leaves the line where it is; one that is too long is none of a
\* form to take.
LEMMA LineByteKeeps ==
  ASSUME UploadInv, streamed, LineByte
  PROVE  UploadInv'
<1>1. /\ Take /\ InLine /\ ~cr /\ cr' = (Byte = "CR")
      /\ line' = (IF Byte = "CR" THEN line ELSE Append(line, Byte))
      /\ pc' = (IF Len(line') > LineLimit THEN "leave" ELSE pc)
      /\ form' = form /\ streamed' = streamed /\ disposition' = disposition /\ pending' = pending
      /\ file' = file /\ open' = open /\ saved' = saved /\ value' = value
      /\ rc' = rc /\ fault' = fault /\ mustClose' = mustClose
  BY DEF LineByte, results
<1>2. pc # "done" /\ pc \in {"first", "header", "after"}
  BY <1>1 DEF InLine
<1>3. /\ form \in Forms /\ Sizes(form) /\ mustClose /\ streamed \in BOOLEAN
      /\ Input(form, buffer, used, chunk, net, remaining)
  BY <1>2, Base
<1>4. /\ Input(form, buffer', used', chunk', net', remaining')
      /\ Unread \in Text /\ Unread # <<>> /\ Byte = Head(Unread)
      /\ Unread' = Tail(Unread)
  BY <1>1, <1>3, TakeFacts DEF Unread
<1>5. ASSUME NEW s, AtLine(line, cr, Unread, s) PROVE AtLine(line', cr', Unread', s)
  <2>1. cr = FALSE
    BY <1>1, <1>5 DEF AtLine
  <2>2. IF Head(Unread) = "CR" THEN AtLine(line, TRUE, Tail(Unread), s)
        ELSE AtLine(Append(line, Head(Unread)), FALSE, Tail(Unread), s)
    BY <1>4, <1>5, <2>1, LineReads
  <2>. QED
    BY <1>1, <1>4, <2>2
<1>6. ASSUME pc' = "leave" PROVE ~Acceptable(form)
  <2>1. SUFFICES ASSUME Acceptable(form) PROVE FALSE
    OBVIOUS
  <2>2. PICK s, b, t : AtLine(line, cr, Unread, s) /\ Begins(s, b, t)
    BY <1>1, <2>1, Expects
  <2>3. AtLine(line', cr', Unread', s)
    BY <1>5, <2>2
  <2>4. Len(line') <= 3 /\ Len(line') \in Nat
    BY <2>2, <2>3, LineLeft, TextFacts DEF AtLine
  <2>5. Len(line') > LineLimit
    BY <1>1, <1>2, <1>6
  <2>. QED
    BY <2>4, <2>5, LimitsAssumption
<1>7. Streaming /\ value \in Text /\ Len(value) < FieldCap /\ IsStrictPrefix(pending, Marker)
  BY DEF UploadInv
<1>8. ASSUME pc' = "first" PROVE FirstLineAt'
  <2>1. FirstLineAt
    BY <1>1, <1>2, <1>7, <1>8 DEF Streaming
  <2>. QED
    BY <1>1, <1>5, <2>1 DEF FirstLineAt
<1>9. ASSUME pc' = "header"
      PROVE  \E i \in 1 .. Len(form.parts) : \E q \in 0 .. Len(form.parts[i].headers) :
               HeaderAt(i, q)'
  <2>0. PICK i \in 1 .. Len(form.parts) : \E q \in 0 .. Len(form.parts[i].headers) : HeaderAt(i, q)
    BY <1>1, <1>2, <1>7, <1>9 DEF Streaming
  <2>1. PICK q \in 0 .. Len(form.parts[i].headers) : HeaderAt(i, q)
    BY <2>0
  <2>2. HeaderAt(i, q)'
    BY <1>1, <1>5, <2>1 DEF HeaderAt
  <2>. QED
    BY <2>1, <2>2
<1>10. ASSUME pc' = "after" PROVE \E i \in 1 .. Len(form.parts) : AfterAt(i)'
  <2>1. PICK i \in 1 .. Len(form.parts) : AfterAt(i)
    BY <1>1, <1>2, <1>7, <1>10 DEF Streaming
  <2>2. AfterAt(i)'
    BY <1>1, <1>5, <2>1 DEF AfterAt
  <2>. QED
    BY <2>1, <2>2
<1>11. rc = "failed"
  BY <1>2, <1>7 DEF Streaming
<1>12. ASSUME pc' = "leave" PROVE AtEnd'
  BY <1>1, <1>6, <1>11, <1>12 DEF AtEnd
<1>13. pc' \in {"first", "header", "after", "leave"}
  BY <1>1, <1>2
<1>14. Streaming'
  BY <1>1, <1>3, <1>4, <1>8, <1>9, <1>10, <1>11, <1>12, <1>13 DEF Streaming
<1>. QED
  BY <1>1, <1>3, <1>7, <1>14 DEF UploadInv

\* What recv returns is next to read, and was before.
LEMMA ReceiveKeeps ==
  ASSUME UploadInv, streamed, Receive
  PROVE  UploadInv'
<1>1. /\ form' = form /\ streamed' = streamed /\ remaining' = remaining /\ pc' = pc /\ cr' = cr
      /\ line' = line /\ disposition' = disposition /\ pending' = pending
      /\ file' = file /\ open' = open /\ saved' = saved /\ value' = value
      /\ rc' = rc /\ fault' = fault /\ mustClose' = mustClose
  BY DEF Receive, results
<1>2. pc # "done"
  BY DEF Receive, Waits, Reading
<1>3. /\ form \in Forms /\ Sizes(form) /\ mustClose /\ streamed \in BOOLEAN
      /\ Input(form, buffer, used, chunk, net, remaining)
  BY <1>2, Base
<1>4. /\ Input(form, buffer', used', chunk', net', remaining')
      /\ Unread' = Unread
  BY <1>3, ReceiveFacts DEF Unread
<1>5. Streaming /\ value \in Text /\ Len(value) < FieldCap /\ IsStrictPrefix(pending, Marker)
  BY DEF UploadInv
<1>6. ASSUME pc = "first" PROVE FirstLineAt'
  BY <1>1, <1>4, <1>5, <1>6 DEF Streaming, FirstLineAt
<1>7. ASSUME pc = "header"
      PROVE  \E i \in 1 .. Len(form.parts) : \E q \in 0 .. Len(form.parts[i].headers) :
               HeaderAt(i, q)'
  <2>0. PICK i \in 1 .. Len(form.parts) : \E q \in 0 .. Len(form.parts[i].headers) : HeaderAt(i, q)
    BY <1>5, <1>7 DEF Streaming
  <2>1. PICK q \in 0 .. Len(form.parts[i].headers) : HeaderAt(i, q)
    BY <2>0
  <2>2. HeaderAt(i, q)'
    BY <1>1, <1>4, <2>1 DEF HeaderAt
  <2>. QED
    BY <2>1, <2>2
<1>8. ASSUME pc = "data"
      PROVE  \E i \in 1 .. Len(form.parts) : \E k \in 0 .. Len(form.parts[i].data) + 4 :
               DataAt(i, k)'
  <2>0. PICK i \in 1 .. Len(form.parts) :
          \E k \in 0 .. Len(form.parts[i].data) + 4 : DataAt(i, k)
    BY <1>5, <1>8 DEF Streaming
  <2>1. PICK k \in 0 .. Len(form.parts[i].data) + 4 : DataAt(i, k)
    BY <2>0
  <2>2. DataAt(i, k)'
    BY <1>1, <1>4, <2>1 DEF DataAt, IsWanted
  <2>. QED
    BY <2>1, <2>2
<1>9. ASSUME pc = "after" PROVE \E i \in 1 .. Len(form.parts) : AfterAt(i)'
  <2>1. PICK i \in 1 .. Len(form.parts) : AfterAt(i)
    BY <1>5, <1>9 DEF Streaming
  <2>2. AfterAt(i)'
    BY <1>1, <1>4, <2>1 DEF AfterAt
  <2>. QED
    BY <2>1, <2>2
<1>10. pc \in {"first", "header", "data", "after", "drain"} /\ rc = "failed"
  BY <1>5 DEF Streaming, Receive, Waits, Reading
<1>11. pc = "data" => ~cr /\ line = <<>>
  BY <1>5 DEF Streaming
<1>12. pc = "drain" => AllRead'
  BY <1>1, <1>5 DEF Streaming, AllRead
<1>13. Streaming'
  BY <1>1, <1>3, <1>4, <1>6, <1>7, <1>8, <1>9, <1>10, <1>11, <1>12 DEF Streaming
<1>. QED
  BY <1>1, <1>3, <1>5, <1>13 DEF UploadInv

\* Where the upload fails: what is kept no longer matters.
LEMMA FailureKeeps ==
  ASSUME UploadInv, streamed, pc # "done", pc # "leave",
         pc' = "leave", form' = form, streamed' = streamed, rc' = rc, mustClose' = mustClose,
         Input(form, buffer', used', chunk', net', remaining'),
         value' \in Text, Len(value') < FieldCap, IsStrictPrefix(pending', Marker),
         fault' \/ ~Acceptable(form)
  PROVE  UploadInv'
<1>1. Streaming /\ mustClose /\ form \in Forms /\ streamed \in BOOLEAN
  BY Base DEF UploadInv
<1>2. rc = "failed"
  BY <1>1 DEF Streaming
<1>3. AtEnd'
  BY <1>2 DEF AtEnd
<1>4. Streaming'
  BY <1>1, <1>3 DEF Streaming
<1>. QED
  BY <1>1, <1>4 DEF UploadInv

\* A connection that breaks is a failed call.
LEMMA ReceiveFailsKeeps ==
  ASSUME UploadInv, streamed, ReceiveFails
  PROVE  UploadInv'
<1>1. /\ form' = form /\ streamed' = streamed /\ remaining' = remaining /\ pc' = "leave"
      /\ pending' = pending /\ value' = value /\ rc' = rc /\ fault' /\ mustClose' = mustClose
      /\ buffer' = <<>> /\ used' = 0 /\ chunk' = chunk /\ net' = net
  BY DEF ReceiveFails, results
<1>2. pc # "done" /\ pc # "leave"
  BY DEF ReceiveFails, Waits, Reading
<1>3. form \in Forms /\ Sizes(form) /\ Input(form, buffer, used, chunk, net, remaining)
  BY <1>2, Base
<1>4. /\ buffer \in Text /\ chunk \in Text /\ net \in Text /\ used \in 0 .. Len(buffer)
      /\ remaining \in 0 .. Announced(form) /\ Len(chunk) <= remaining
      /\ Left(buffer, used, chunk, net) = From(Sent(form), Announced(form) - remaining + 1)
  BY <1>3 DEF Input
<1>5. used = Len(buffer) /\ chunk = <<>>
  <2>1. Len(buffer) \in Nat
    BY <1>4, TextFacts
  <2>. QED
    BY <1>4, <2>1 DEF ReceiveFails, Waits, Ready
<1>6. Left(buffer, used, chunk, net) = Left(<<>>, 0, chunk, net)
  <2>1. buffer \in Text /\ chunk \in Text /\ net \in Text
    BY <1>4
  <2>2. /\ Left(buffer, Len(buffer), chunk, net) = chunk \o net
        /\ Left(<<>>, 0, chunk, net) = chunk \o net
    BY <2>1, LeftChunk
  <2>. QED
    BY <1>5, <2>2
<1>7. <<>> \in Text /\ Len(<<>>) = 0
  BY <1>4, JoinEmpty
<1>8. 0 \in 0 .. Len(<<>>)
  BY <1>7
<1>9. Input(form, <<>>, 0, chunk, net, remaining)
  BY <1>4, <1>5, <1>6, <1>7, <1>8 DEF Input
<1>10. value \in Text /\ Len(value) < FieldCap /\ IsStrictPrefix(pending, Marker)
  BY DEF UploadInv
<1>. QED
  BY <1>1, <1>2, <1>9, <1>10, FailureKeeps

\* A CR without LF is in no line of a form to take.
LEMMA LineBrokenKeeps ==
  ASSUME UploadInv, streamed, LineBroken
  PROVE  UploadInv'
<1>1. /\ form' = form /\ streamed' = streamed /\ pc' = "leave"
      /\ pending' = pending /\ value' = value /\ rc' = rc /\ mustClose' = mustClose
      /\ Take /\ InLine /\ cr /\ Byte # "LF"
  BY DEF LineBroken, results
<1>2. pc # "done" /\ pc # "leave"
  BY <1>1 DEF InLine
<1>3. form \in Forms /\ Sizes(form) /\ Input(form, buffer, used, chunk, net, remaining)
  BY <1>2, Base
<1>4. Input(form, buffer', used', chunk', net', remaining') /\ Byte = Head(Unread)
  BY <1>1, <1>3, TakeFacts
<1>5. ASSUME Acceptable(form) PROVE FALSE
  <2>1. PICK s, b, t : AtLine(line, cr, Unread, s) /\ Begins(s, b, t)
    BY <1>1, <1>5, Expects
  <2>2. Head(Unread) = "LF"
    BY <1>1, <2>1, LineLeft
  <2>. QED
    BY <1>1, <1>4, <2>2
<1>6. value \in Text /\ Len(value) < FieldCap /\ IsStrictPrefix(pending, Marker)
  BY DEF UploadInv
<1>. QED
  BY <1>1, <1>2, <1>4, <1>5, <1>6, FailureKeeps

\* While a part is read, the rest of the form is more than the next request.
LEMMA DataLeft ==
  ASSUME NEW f \in Forms, NEW i \in 1 .. Len(f.parts), NEW k \in 0 .. Len(f.parts[i].data) + 4
  PROVE  /\ PartOf(f.parts[i]) /\ Rest(f, i) \in Text
         /\ From(Marked(f.parts[i]), k + 1) \o Rest(f, i) # <<>>
         /\ Head(From(Marked(f.parts[i]), k + 1) \o Rest(f, i)) = Marked(f.parts[i])[k + 1]
         /\ Tail(From(Marked(f.parts[i]), k + 1) \o Rest(f, i))
              = From(Marked(f.parts[i]), k + 2) \o Rest(f, i)
         /\ Len(From(Marked(f.parts[i]), k + 1) \o Rest(f, i)) > 2
<1> DEFINE p == f.parts[i]
           D == Marked(p)
           r == Rest(f, i)
           s == From(D, k + 1)
<1>1. PartOf(p) /\ r \in Text /\ Len(f.parts) \in Nat
  <2>1. i \in 0 .. Len(f.parts) /\ PartOf(p) /\ Len(f.parts) \in Nat
    BY FormParts
  <2>. QED
    BY <2>1, RestFacts
<1>2. D \in Text /\ Len(D) = Len(p.data) + 5 /\ Len(p.data) \in Nat
  BY <1>1, MarkedFacts
<1>3. k + 1 \in 1 .. Len(D) /\ k \in Nat /\ (k + 1) + 1 = k + 2 /\ k + 1 \in 1 .. Len(D) + 1
  BY <1>2
<1>4. s \in Text /\ s # <<>> /\ Head(s) = D[k + 1] /\ Tail(s) = From(D, k + 2)
  <2> HIDE DEF D
  <2>. QED
    BY <1>2, <1>3, FromNext
<1>5. Len(s) = Len(D) - (k + 1) + 1
  <2> HIDE DEF D
  <2>. QED
    BY <1>2, <1>3, FromFacts
<1>6. Len(r) >= 2
  <2> DEFINE n == Len(f.parts)
  <2>1. CASE i = n
    <3> DEFINE dd == <<"-", "-">>
               e == f.tail \o NextRequest
    <3>1. r = dd \o e /\ e \in Text /\ dd \in Text /\ Len(dd) = 2
      <4>1. f.tail \in Text /\ NextRequest \in Text /\ dd \in Text /\ Len(dd) = 2
        BY FormParts, Constants
      <4>2. e \in Text
        BY <4>1, JoinFacts
      <4>3. r = dd \o e
        BY <2>1, RestFacts
      <4>. QED
        BY <4>1, <4>2, <4>3
    <3> HIDE DEF dd, e
    <3>2. Len(dd \o e) = Len(dd) + Len(e) /\ Len(e) \in Nat
      BY <3>1, JoinFacts, TextFacts
    <3>. QED
      BY <3>1, <3>2
  <2>2. CASE i # n
    <3> DEFINE t == PartText(f.parts[i + 1], 0, Rest(f, i + 1))
    <3>1. i \in 1 .. n - 1
      BY <1>1, <2>2
    <3>2. Begins(r, <<>>, t)
      BY <3>1, AfterLineIs
    <3> HIDE DEF t, r
    <3>3. r = <<>> \o (CRLF \o t) /\ t \in Text /\ CRLF \in Text /\ Len(CRLF) = 2
      BY <3>2, Constants DEF Begins
    <3>4. CRLF \o t \in Text /\ Len(CRLF \o t) = Len(CRLF) + Len(t) /\ Len(t) \in Nat
      BY <3>3, JoinFacts, TextFacts
    <3>5. <<>> \o (CRLF \o t) = CRLF \o t
      BY <3>4, JoinEmpty
    <3>6. Len(CRLF \o t) >= 2
      BY <3>3, <3>4
    <3>. QED
      BY <3>3, <3>5, <3>6
  <2>. QED
    BY <2>1, <2>2
<1> HIDE DEF s, r
<1>7. s \o r # <<>> /\ Head(s \o r) = s[1] /\ Tail(s \o r) = Tail(s) \o r /\ Head(s) = s[1]
  BY <1>1, <1>4, HeadJoin, HeadFacts
<1>8. Len(s \o r) = Len(s) + Len(r) /\ Len(r) \in Nat
  BY <1>1, <1>4, JoinFacts, TextFacts
<1>9. Len(s \o r) > 2
  BY <1>2, <1>3, <1>5, <1>6, <1>8
<1>10. Head(s \o r) = D[k + 1] /\ Tail(s \o r) = From(D, k + 2) \o r
  BY <1>4, <1>7
<1>. QED
  BY <1>1, <1>7, <1>9, <1>10 DEF s, r

\* A body that ends inside a line or a part is not that of a form to take.
LEMMA EndsEarlyKeeps ==
  ASSUME UploadInv, streamed, EndsEarly
  PROVE  UploadInv'
<1>1. /\ form' = form /\ streamed' = streamed /\ pc' = "leave"
      /\ pending' = pending /\ value' = value /\ rc' = rc /\ mustClose' = mustClose
      /\ buffer' = buffer /\ used' = used /\ chunk' = chunk /\ net' = net
      /\ remaining' = remaining /\ remaining = 0 /\ (InLine \/ pc = "data")
  BY DEF EndsEarly, results, inputVars
<1>2. pc # "done" /\ pc # "leave"
  BY <1>1 DEF InLine
<1>3. /\ form \in Forms /\ Input(form, buffer, used, chunk, net, remaining)
      /\ Len(Unread) = remaining + form.cut + 2
  BY <1>2, Base
<1>4. ASSUME Acceptable(form) PROVE FALSE
  <2>1. Len(Unread) = 2
    BY <1>1, <1>3, <1>4, AcceptableFacts
  <2>2. CASE InLine
    <3>1. PICK s, b, t : AtLine(line, cr, Unread, s) /\ Begins(s, b, t)
      BY <1>4, <2>2, Expects
    <3>2. Len(Unread) >= 3
      BY <3>1, LineLeft
    <3>. QED
      BY <2>1, <3>2
  <2>3. CASE pc = "data"
    <3>1. PICK i \in 1 .. Len(form.parts) :
            \E k \in 0 .. Len(form.parts[i].data) + 4 : DataAt(i, k)
      BY <2>3 DEF UploadInv, Streaming
    <3>2. PICK k \in 0 .. Len(form.parts[i].data) + 4 : DataAt(i, k)
      BY <3>1
    <3>3. Unread = From(Marked(form.parts[i]), k + 1) \o Rest(form, i)
      BY <3>2 DEF DataAt
    <3>4. Len(Unread) > 2
      BY <1>3, <3>3, DataLeft
    <3>. QED
      BY <2>1, <3>4
  <2>. QED
    BY <1>1, <2>2, <2>3
<1>5. value \in Text /\ Len(value) < FieldCap /\ IsStrictPrefix(pending, Marker)
  BY DEF UploadInv
<1>6. Input(form, buffer', used', chunk', net', remaining')
  BY <1>1, <1>3
<1>. QED
  BY <1>1, <1>2, <1>4, <1>5, <1>6, FailureKeeps

\* When a line ends that was expected, it is what was expected, and what follows it is next.
LEMMA LineRead ==
  ASSUME UploadInv, streamed, NEW now, LineEnds(now), now \in {"first", "header", "after"}
  PROVE  /\ form \in Forms /\ pc = now /\ cr
         /\ form' = form /\ streamed' = streamed /\ rc' = rc /\ mustClose' = mustClose
         /\ mustClose /\ rc = "failed" /\ streamed \in BOOLEAN
         /\ Input(form, buffer', used', chunk', net', remaining')
         /\ value \in Text /\ Len(value) < FieldCap /\ IsStrictPrefix(pending, Marker)
         /\ \A s, b, t : AtLine(line, cr, Unread, s) /\ Begins(s, b, t) =>
              line = b /\ AtLine(line', cr', Unread', t)
         /\ line' = <<>> /\ ~cr'
<1>1. /\ pc = now /\ cr /\ Take /\ line' = <<>> /\ cr' = FALSE
      /\ form' = form /\ streamed' = streamed /\ rc' = rc /\ mustClose' = mustClose
  BY DEF LineEnds
<1>2. pc # "done" /\ pc \notin {"leave", "done"}
  BY <1>1
<1>3. /\ form \in Forms /\ Sizes(form) /\ mustClose /\ streamed \in BOOLEAN
      /\ Input(form, buffer, used, chunk, net, remaining)
  BY <1>2, Base
<1>4. /\ Input(form, buffer', used', chunk', net', remaining') /\ Unread' = Tail(Unread)
  BY <1>1, <1>3, TakeFacts DEF Unread
<1>5. ASSUME NEW s, NEW b, NEW t, AtLine(line, cr, Unread, s), Begins(s, b, t)
      PROVE  line = b /\ AtLine(line', cr', Unread', t)
  <2>1. line = b /\ Tail(Unread) = t
    BY <1>1, <1>5, LineLeft
  <2>2. t \in Text
    BY <1>5 DEF Begins
  <2>. QED
    BY <1>1, <1>4, <2>1, <2>2, LineStarts
<1>6. rc = "failed" /\ value \in Text /\ Len(value) < FieldCap /\ IsStrictPrefix(pending, Marker)
  BY <1>2 DEF UploadInv, Streaming
<1>. QED
  BY <1>1, <1>3, <1>4, <1>5, <1>6

\* The first line is the boundary, or the form is none to take.
LEMMA FirstLineKeeps ==
  ASSUME UploadInv, streamed, FirstLine
  PROVE  UploadInv'
<1>1. /\ LineEnds("first") /\ pc' = (IF line = BoundaryLine THEN "header" ELSE "leave")
      /\ disposition' = disposition /\ pending' = pending /\ fault' = fault
      /\ file' = file /\ open' = open /\ saved' = saved /\ value' = value
  BY DEF FirstLine, results
<1>2. /\ form \in Forms /\ pc = "first" /\ cr
      /\ form' = form /\ streamed' = streamed /\ rc' = rc /\ mustClose' = mustClose
      /\ mustClose /\ rc = "failed" /\ streamed \in BOOLEAN
      /\ Input(form, buffer', used', chunk', net', remaining')
      /\ value \in Text /\ Len(value) < FieldCap /\ IsStrictPrefix(pending, Marker)
  BY <1>1, LineRead
<1>3. \A s, b, t : AtLine(line, cr, Unread, s) /\ Begins(s, b, t) =>
        line = b /\ AtLine(line', cr', Unread', t)
  BY <1>1, LineRead
<1>4. /\ AtLine(line, cr, Unread, Sent(form)) /\ disposition = "none" /\ ~open
      /\ FileKept(form, 0, saved, file) /\ value = NoteTo(form, 0)
  BY <1>2 DEF UploadInv, Streaming, FirstLineAt
<1>5. Len(form.parts) \in Nat
  BY <1>2, FormParts
<1>6. CASE line = BoundaryLine
  <2>1. Len(form.parts) # 0
    <3>1. cr = TRUE
      BY <1>2, <1>4 DEF AtLine
    <3>. QED
      BY <1>2, <1>4, <1>6, <3>1, EndIsDash
  <2>2. 1 \in 1 .. Len(form.parts) /\ Len(form.parts) >= 1 /\ 1 - 1 = 0
    BY <1>5, <2>1
  <2> DEFINE t == PartText(form.parts[1], 0, Rest(form, 1))
             h == form.parts[1].headers
  <2>3. Begins(Sent(form), BoundaryLine, t)
    BY <1>2, <2>2, FirstLineIs
  <2>4. AtLine(line', cr', Unread', t)
    BY <1>3, <1>4, <2>3
  <2>5. PartOf(form.parts[1])
    BY <1>2, <2>2, FormParts
  <2>6. 0 \in 0 .. Len(h) /\ LastDisposition(SubSeq(h, 1, 0)) = "none"
    <3>1. h \in Text /\ Len(h) \in Nat
      BY <2>5, TextFacts DEF PartOf
    <3> HIDE DEF h
    <3>2. 0 \in 0 .. Len(h)
      BY <3>1
    <3>3. SubSeq(h, 1, 0) \in Text /\ Len(SubSeq(h, 1, 0)) = 0
      BY <3>1, <3>2, SplitFacts
    <3> DEFINE a == SubSeq(h, 1, 0)
    <3>4. a \in Text /\ \A j \in 1 .. Len(a) : a[j] \notin Dispositions
      BY <3>3
    <3> HIDE DEF a
    <3>5. LastDisposition(a) = "none"
      BY <3>4, LastNone
    <3>. QED
      BY <3>2, <3>5 DEF a
  <2>7. HeaderAt(1, 0)'
    BY <1>1, <1>2, <1>4, <2>2, <2>4, <2>6 DEF HeaderAt
  <2>8. \E i \in 1 .. Len(form.parts) : \E q \in 0 .. Len(form.parts[i].headers) :
          HeaderAt(i, q)'
    BY <2>2, <2>6, <2>7
  <2>9. pc' = "header"
    BY <1>1, <1>6
  <2>10. Streaming'
    BY <1>2, <2>8, <2>9 DEF Streaming
  <2>. QED
    BY <1>1, <1>2, <2>10 DEF UploadInv
<1>7. CASE line # BoundaryLine
  <2>1. ASSUME Acceptable(form) PROVE FALSE
    <3>1. Begins(Sent(form), BoundaryLine, PartText(form.parts[1], 0, Rest(form, 1)))
      BY <1>2, <2>1, AcceptableFacts, FirstLineIs
    <3>. QED
      BY <1>3, <1>4, <1>7, <3>1
  <2>2. pc # "done" /\ pc # "leave" /\ pc' = "leave"
    BY <1>1, <1>2, <1>7
  <2>. QED
    BY <1>1, <1>2, <2>1, <2>2, FailureKeeps
<1>. QED
  BY <1>6, <1>7

\* The line after q headers of a part is another header, or the empty one.
LEMMA HeaderIs ==
  ASSUME NEW f \in Forms, NEW i \in 1 .. Len(f.parts), NEW q \in 0 .. Len(f.parts[i].headers)
  PROVE  /\ PartOf(f.parts[i]) /\ Rest(f, i) \in Text
         /\ q = Len(f.parts[i].headers) =>
              Begins(PartText(f.parts[i], q, Rest(f, i)), <<>>, Marked(f.parts[i]) \o Rest(f, i))
         /\ q # Len(f.parts[i].headers) =>
              /\ q \in 0 .. Len(f.parts[i].headers) - 1
              /\ f.parts[i].headers[q + 1] \in Symbols
              /\ Begins(PartText(f.parts[i], q, Rest(f, i)), <<f.parts[i].headers[q + 1]>>,
                        PartText(f.parts[i], q + 1, Rest(f, i)))
<1> DEFINE p == f.parts[i]
           r == Rest(f, i)
<1>1. PartOf(p) /\ r \in Text /\ Len(p.headers) \in Nat
  <2>1. i \in 0 .. Len(f.parts) /\ PartOf(p)
    BY FormParts
  <2>2. r \in Text
    BY <2>1, RestFacts
  <2>. QED
    BY <2>1, <2>2, HeadersFacts
<1>2. q \in 0 .. Len(p.headers)
  OBVIOUS
<1> HIDE DEF p, r
<1>3. ASSUME q = Len(p.headers) PROVE Begins(PartText(p, q, r), <<>>, Marked(p) \o r)
  BY <1>1, <1>3, PartTextFacts
<1>4. ASSUME q # Len(p.headers)
      PROVE  /\ q \in 0 .. Len(p.headers) - 1 /\ p.headers[q + 1] \in Symbols
             /\ Begins(PartText(p, q, r), <<p.headers[q + 1]>>, PartText(p, q + 1, r))
  <2>1. q \in 0 .. Len(p.headers) - 1
    BY <1>1, <1>2, <1>4
  <2>. QED
    BY <1>1, <2>1, PartTextFacts
<1>. QED
  BY <1>1, <1>3, <1>4 DEF p, r

\* One header of a part more.
LEMMA HeaderLineKeeps ==
  ASSUME UploadInv, streamed, HeaderLine
  PROVE  UploadInv'
<1>1. /\ LineEnds("header") /\ line # <<>> /\ pc' = pc
      /\ disposition' = (IF Last(line) \in Dispositions THEN Last(line) ELSE disposition)
      /\ pending' = pending /\ fault' = fault
      /\ file' = file /\ open' = open /\ saved' = saved /\ value' = value
  BY DEF HeaderLine, results
<1>2. /\ form \in Forms /\ pc = "header" /\ cr
      /\ form' = form /\ streamed' = streamed /\ rc' = rc /\ mustClose' = mustClose
      /\ mustClose /\ rc = "failed" /\ streamed \in BOOLEAN
      /\ Input(form, buffer', used', chunk', net', remaining')
      /\ value \in Text /\ Len(value) < FieldCap /\ IsStrictPrefix(pending, Marker)
  BY <1>1, LineRead
<1>3. \A s, b, t : AtLine(line, cr, Unread, s) /\ Begins(s, b, t) =>
        line = b /\ AtLine(line', cr', Unread', t)
  BY <1>1, LineRead
<1>4. PICK i \in 1 .. Len(form.parts) : \E q \in 0 .. Len(form.parts[i].headers) : HeaderAt(i, q)
  BY <1>2 DEF UploadInv, Streaming
<1>5. PICK q \in 0 .. Len(form.parts[i].headers) : HeaderAt(i, q)
  BY <1>4
<1> DEFINE p == form.parts[i]
           h == p.headers
           r == Rest(form, i)
<1>6. /\ AtLine(line, cr, Unread, PartText(p, q, r)) /\ disposition = LastDisposition(SubSeq(h, 1, q))
      /\ ~open /\ FileKept(form, i - 1, saved, file) /\ value = NoteTo(form, i - 1)
  BY <1>5 DEF HeaderAt
<1>7. /\ PartOf(p)
      /\ q = Len(h) => Begins(PartText(p, q, r), <<>>, Marked(p) \o r)
      /\ q # Len(h) =>
           /\ q \in 0 .. Len(h) - 1 /\ h[q + 1] \in Symbols
           /\ Begins(PartText(p, q, r), <<h[q + 1]>>, PartText(p, q + 1, r))
  BY <1>2, HeaderIs
<1>8. h \in Text /\ Len(h) \in Nat
  BY <1>7, TextFacts DEF PartOf
<1> HIDE DEF r, h
<1>9. q # Len(h)
  BY <1>1, <1>3, <1>6, <1>7
<1>10. line = <<h[q + 1]>> /\ AtLine(line', cr', Unread', PartText(p, q + 1, r))
  BY <1>3, <1>6, <1>7, <1>9
<1>11. Last(line) = h[q + 1]
  BY <1>10 DEF Last
<1>12. disposition' = LastDisposition(SubSeq(h, 1, q + 1))
  BY <1>1, <1>6, <1>7, <1>8, <1>9, <1>11, LastNext
<1>13. HeaderAt(i, q + 1)'
  BY <1>1, <1>2, <1>6, <1>10, <1>12 DEF HeaderAt, h, r
<1>14. q + 1 \in 0 .. Len(form.parts[i].headers)
  BY <1>7, <1>8, <1>9 DEF h
<1>15. \E j \in 1 .. Len(form.parts) : \E k \in 0 .. Len(form.parts[j].headers) : HeaderAt(j, k)'
  BY <1>4, <1>13, <1>14
<1>16. Streaming'
  BY <1>1, <1>2, <1>15 DEF Streaming
<1>. QED
  BY <1>1, <1>2, <1>16 DEF UploadInv

\* Before its first byte, nothing of a part is pending or known to be data.
LEMMA DataStarts ==
  ASSUME NEW p, PartOf(p)
  PROVE  /\ StillPending(SubSeq(Marked(p), 1, 0)) = <<>>
         /\ Written(p, 0, <<>>) = <<>>
         /\ From(Marked(p), 0 + 1) = Marked(p)
         /\ 0 \in 0 .. Len(p.data) + 4
         /\ IsStrictPrefix(<<>>, Marker)
<1> DEFINE D == Marked(p)
           t == SubSeq(D, 1, 0)
           s == StillPending(t)
<1>1. D \in Text /\ Len(p.data) \in Nat /\ Len(D) = Len(p.data) + 5
  BY MarkedFacts
<1>2. 0 \in 0 .. Len(D) /\ 0 \in 0 .. Len(p.data) + 4
  BY <1>1
<1> HIDE DEF D
<1>3. t \in Text /\ Len(t) = 0
  BY <1>1, <1>2, SplitFacts
<1> HIDE DEF t
<1>4. s \in Text /\ Len(s) \in 0 .. Len(t)
  BY <1>3, PendingFacts
<1> HIDE DEF s
<1>5. Len(s) = 0
  BY <1>3, <1>4
<1>6. s = <<>>
  BY <1>4, <1>5, TextFacts
<1>7. <<>> \in Text /\ Len(<<>>) = 0
  BY <1>1, JoinEmpty
<1>8. Written(p, 0, <<>>) = <<>>
  <2>1. 0 - Len(<<>>) = 0
    <3>1. 0 - 0 = 0
      OBVIOUS
    <3>. QED
      BY <1>7, <3>1, Zenon
  <2>2. SubSeq(p.data, 1, 0) = <<>>
    BY SubSeqEmpty
  <2>. QED
    BY <2>1, <2>2 DEF Written
<1>9. From(D, 0 + 1) = D
  <2>1. 0 + 1 = 1
    OBVIOUS
  <2>. QED
    BY <1>1, <2>1, FromEnds
<1>10. IsStrictPrefix(<<>>, Marker)
  <2>1. Marker \in Text /\ Len(Marker) = 5
    BY MarkerIs
  <2>2. IsPrefix(<<>>, Marker)
    BY <1>7, <2>1, PrefixIs
  <2>3. Marker # <<>>
    BY <1>7, <2>1
  <2>. QED
    BY <2>2, <2>3 DEF IsStrictPrefix
<1>. QED
  BY <1>2, <1>6, <1>8, <1>9, <1>10 DEF s, t, D

\* After its headers, a part is taken for what they say; nothing of its data is
\* known.
LEMMA HeadersEndKeeps ==
  ASSUME UploadInv, streamed, HeadersEnd
  PROVE  UploadInv'
<1>1. /\ LineEnds("header") /\ line = <<>>
      /\ disposition' = disposition /\ saved' = saved /\ pending' = <<>>
      /\ file' = (IF open' THEN <<>> ELSE file)
      /\ value' = (IF disposition = "N" THEN <<>> ELSE value)
  BY DEF HeadersEnd
<1>2. PICK fails \in (IF IsWanted(disposition) THEN BOOLEAN ELSE {FALSE}) :
        /\ fault' = (fault \/ fails)
        /\ open' = (IsWanted(disposition) /\ ~fails)
        /\ pc' = IF fails THEN "leave" ELSE "data"
  BY DEF HeadersEnd
<1>3. /\ form \in Forms /\ pc = "header" /\ cr
      /\ form' = form /\ streamed' = streamed /\ rc' = rc /\ mustClose' = mustClose
      /\ mustClose /\ rc = "failed" /\ streamed \in BOOLEAN
      /\ Input(form, buffer', used', chunk', net', remaining')
      /\ value \in Text /\ Len(value) < FieldCap /\ IsStrictPrefix(pending, Marker)
      /\ line' = <<>> /\ ~cr'
  BY <1>1, LineRead
<1>4. \A s, b, t : AtLine(line, cr, Unread, s) /\ Begins(s, b, t) =>
        line = b /\ AtLine(line', cr', Unread', t)
  BY <1>1, LineRead
<1>5. PICK i \in 1 .. Len(form.parts) : \E q \in 0 .. Len(form.parts[i].headers) : HeaderAt(i, q)
  BY <1>3 DEF UploadInv, Streaming
<1>6. PICK q \in 0 .. Len(form.parts[i].headers) : HeaderAt(i, q)
  BY <1>5
<1> DEFINE p == form.parts[i]
           h == p.headers
           r == Rest(form, i)
           t == Marked(p) \o r
<1>7. /\ AtLine(line, cr, Unread, PartText(p, q, r)) /\ disposition = LastDisposition(SubSeq(h, 1, q))
      /\ ~open /\ FileKept(form, i - 1, saved, file) /\ value = NoteTo(form, i - 1)
  BY <1>6 DEF HeaderAt
<1>8. /\ PartOf(p)
      /\ q = Len(h) => Begins(PartText(p, q, r), <<>>, t)
      /\ q # Len(h) =>
           /\ q \in 0 .. Len(h) - 1 /\ h[q + 1] \in Symbols
           /\ Begins(PartText(p, q, r), <<h[q + 1]>>, PartText(p, q + 1, r))
  BY <1>3, HeaderIs
<1>9. h \in Text /\ Len(h) \in Nat
  BY <1>8, TextFacts DEF PartOf
<1> HIDE DEF h, t
<1>10. q = Len(h)
  <2>1. ASSUME q # Len(h) PROVE FALSE
    <3>1. line = <<h[q + 1]>>
      BY <1>4, <1>7, <1>8, <2>1
    <3>. QED
      BY <1>1, <3>1
  <2>. QED
    BY <2>1
<1>11. AtLine(line', cr', Unread', t)
  BY <1>4, <1>7, <1>8, <1>10
<1>12. Unread' = t
  <2>1. line' = <<>> /\ cr' = FALSE /\ Unread' \in Text /\ t = <<>> \o Unread'
    BY <1>3, <1>11 DEF AtLine
  <2>2. <<>> \o Unread' = Unread'
    BY <2>1, JoinEmpty
  <2>. QED
    BY <2>1, <2>2
<1>13. disposition = Meant(p)
  <2>1. SubSeq(h, 1, Len(h)) = h
    BY <1>9, SubSeqFull DEF Text
  <2>. QED
    BY <1>7, <1>10, <2>1 DEF Meant, h
<1>14. value' \in Text /\ Len(value') < FieldCap
  <2>1. <<>> \in Text /\ Len(<<>>) = 0
    BY <1>3, JoinEmpty
  <2>2. 0 < FieldCap
    BY LimitsAssumption
  <2>. QED
    BY <1>1, <1>3, <2>1, <2>2
<1>15. /\ StillPending(SubSeq(Marked(p), 1, 0)) = <<>> /\ Written(p, 0, <<>>) = <<>>
       /\ From(Marked(p), 0 + 1) = Marked(p) /\ 0 \in 0 .. Len(p.data) + 4
       /\ IsStrictPrefix(<<>>, Marker)
  BY <1>8, DataStarts
<1>16. CASE fails
  <2>1. pc' = "leave" /\ fault'
    BY <1>2, <1>16
  <2>2. pc # "done" /\ pc # "leave" /\ IsStrictPrefix(pending', Marker)
    BY <1>1, <1>3, <1>15
  <2>. QED
    BY <1>3, <1>14, <2>1, <2>2, FailureKeeps
<1>17. CASE ~fails
  <2>1. pc' = "data" /\ (open' <=> IsWanted(disposition))
    BY <1>2, <1>17
  <2>2. IsWanted(disposition)' <=> IsWanted(disposition)
    BY <1>1, <1>3 DEF IsWanted
  <2>3. Unread' = From(Marked(p), 0 + 1) \o r
    BY <1>12, <1>15 DEF t
  <2>4. FileKept(form, i - 1, saved, file) /\ (saved => ~IsWanted(disposition))
    BY <1>7 DEF IsWanted
  <2>5. saved' => file' = file
    BY <1>1, <2>1, <2>4
  <2>6. \E fl : FileKept(form, i - 1, saved', fl) /\ (saved' => file' = fl)
    BY <1>1, <2>4, <2>5
  <2>7. open' => file' = Written(p, 0, pending')
    BY <1>1, <1>15
  <2>8. value' = IF disposition' = "N" THEN Written(p, 0, pending') ELSE NoteTo(form, i - 1)
    BY <1>1, <1>7, <1>15
  <2>9. pending' = StillPending(SubSeq(Marked(p), 1, 0))
    BY <1>1, <1>15
  <2>10. DataAt(i, 0)'
    <3>1. form' = form /\ disposition' = Meant(p) /\ (open' <=> IsWanted(disposition)')
      BY <1>1, <1>3, <1>13, <2>1, <2>2
    <3> HIDE DEF r
    <3>. QED
      BY <2>3, <2>6, <2>7, <2>8, <2>9, <3>1 DEF DataAt, r
  <2>11. \E j \in 1 .. Len(form.parts) : \E k \in 0 .. Len(form.parts[j].data) + 4 : DataAt(j, k)'
    BY <1>5, <1>15, <2>10
  <2>12. Streaming'
    BY <1>3, <2>1, <2>11 DEF Streaming
  <2>. QED
    BY <1>1, <1>3, <1>14, <1>15, <2>12 DEF UploadInv
<1>. QED
  BY <1>16, <1>17

\* After a boundary, another part or the rest, or the form is none to take.
LEMMA AfterBoundaryKeeps ==
  ASSUME UploadInv, streamed, AfterBoundary
  PROVE  UploadInv'
<1>1. /\ LineEnds("after")
      /\ pc' = (IF line = <<"-", "-">> THEN "drain" ELSE IF line = <<>> THEN "header" ELSE "leave")
      /\ disposition' = "none" /\ pending' = pending /\ fault' = fault
      /\ file' = file /\ open' = open /\ saved' = saved /\ value' = value
  BY DEF AfterBoundary, results
<1>2. /\ form \in Forms /\ pc = "after" /\ cr
      /\ form' = form /\ streamed' = streamed /\ rc' = rc /\ mustClose' = mustClose
      /\ mustClose /\ rc = "failed" /\ streamed \in BOOLEAN
      /\ Input(form, buffer', used', chunk', net', remaining')
      /\ value \in Text /\ Len(value) < FieldCap /\ IsStrictPrefix(pending, Marker)
  BY <1>1, LineRead
<1>3. \A s, b, t : AtLine(line, cr, Unread, s) /\ Begins(s, b, t) =>
        line = b /\ AtLine(line', cr', Unread', t)
  BY <1>1, LineRead
<1>4. PICK i \in 1 .. Len(form.parts) : AfterAt(i)
  BY <1>2 DEF UploadInv, Streaming
<1>5. /\ AtLine(line, cr, Unread, Rest(form, i)) /\ ~open
      /\ FileKept(form, i, saved, file) /\ value = NoteTo(form, i)
  BY <1>4 DEF AfterAt
<1> DEFINE n == Len(form.parts)
           dd == <<"-", "-">>
<1>6. n \in Nat
  BY <1>2, FormParts
<1>7. dd # <<>>
  OBVIOUS
<1>8. CASE i # n
  <2>1. i \in 1 .. n - 1 /\ i + 1 \in 1 .. n /\ (i + 1) - 1 = i
    BY <1>4, <1>6, <1>8
  <2> DEFINE t == PartText(form.parts[i + 1], 0, Rest(form, i + 1))
             h == form.parts[i + 1].headers
  <2>2. Begins(Rest(form, i), <<>>, t)
    BY <1>2, <2>1, AfterLineIs
  <2>3. line = <<>> /\ AtLine(line', cr', Unread', t)
    BY <1>3, <1>5, <2>2
  <2>4. h \in Text /\ Len(h) \in Nat
    <3>1. PartOf(form.parts[i + 1])
      BY <1>2, <2>1, FormParts
    <3>. QED
      BY <3>1, TextFacts DEF PartOf
  <2>5. 0 \in 0 .. Len(h) /\ LastDisposition(SubSeq(h, 1, 0)) = "none"
    <3> HIDE DEF h
    <3>1. 0 \in 0 .. Len(h)
      BY <2>4
    <3> DEFINE a == SubSeq(h, 1, 0)
    <3>2. a \in Text /\ Len(a) = 0
      BY <2>4, <3>1, SplitFacts
    <3>3. \A j \in 1 .. Len(a) : a[j] \notin Dispositions
      BY <3>2
    <3> HIDE DEF a
    <3>4. LastDisposition(a) = "none"
      BY <3>2, <3>3, LastNone
    <3>. QED
      BY <3>1, <3>4 DEF a
  <2> HIDE DEF dd
  <2>6. pc' = "header"
    BY <1>1, <1>7, <2>3 DEF dd
  <2>7. HeaderAt(i + 1, 0)'
    BY <1>1, <1>2, <1>5, <2>1, <2>3, <2>5 DEF HeaderAt
  <2>8. \E j \in 1 .. Len(form.parts) : \E q \in 0 .. Len(form.parts[j].headers) :
          HeaderAt(j, q)'
    BY <2>1, <2>5, <2>7
  <2>9. Streaming'
    BY <1>2, <2>6, <2>8 DEF Streaming
  <2>. QED
    BY <1>1, <1>2, <2>9 DEF UploadInv
<1>9. CASE i = n
  <2>1. line # <<>>
    <3>1. cr = TRUE
      BY <1>2, <1>5 DEF AtLine
    <3>2. ~AtLine(<<>>, TRUE, Unread, Rest(form, n))
      BY <1>2, EndIsDash
    <3>. QED
      BY <1>5, <1>9, <3>1, <3>2
  <2>2. CASE line = dd
    <3>1. pc' = "drain"
      BY <1>1, <2>2
    <3>2. AllRead'
      BY <1>1, <1>2, <1>5, <1>9 DEF AllRead
    <3>3. Streaming'
      BY <1>2, <3>1, <3>2 DEF Streaming
    <3>. QED
      BY <1>1, <1>2, <3>3 DEF UploadInv
  <2>3. CASE line # dd
    <3>1. pc' = "leave" /\ pc # "leave" /\ pc # "done"
      BY <1>1, <1>2, <2>1, <2>3
    <3>2. ASSUME Acceptable(form) PROVE FALSE
      <4>1. PICK t : Begins(Rest(form, n), dd, t)
        BY <1>2, <3>2, EndLineIs
      <4>. QED
        BY <1>3, <1>5, <1>9, <2>3, <4>1
    <3>. QED
      BY <1>1, <1>2, <3>1, <3>2, FailureKeeps
  <2>. QED
    BY <2>2, <2>3
<1>. QED
  BY <1>8, <1>9

\* A write that fails is a failed call.
LEMMA WriteFailsKeeps ==
  ASSUME UploadInv, streamed, WriteFails
  PROVE  UploadInv'
<1>1. /\ form' = form /\ streamed' = streamed /\ pc' = "leave" /\ pc = "data" /\ Take
      /\ pending' = pending /\ value' = value /\ rc' = rc /\ mustClose' = mustClose /\ fault'
  BY DEF WriteFails, results
<1>2. pc # "done" /\ pc # "leave"
  BY <1>1
<1>3. Sizes(form) /\ Input(form, buffer, used, chunk, net, remaining)
  BY <1>2, Base
<1>4. Input(form, buffer', used', chunk', net', remaining')
  BY <1>1, <1>3, TakeFacts
<1>5. value \in Text /\ Len(value) < FieldCap /\ IsStrictPrefix(pending, Marker)
  BY DEF UploadInv
<1>. QED
  BY <1>1, <1>2, <1>4, <1>5, FailureKeeps

\* A byte after the last boundary.
LEMMA DrainKeeps ==
  ASSUME UploadInv, streamed, Drain
  PROVE  UploadInv'
<1>1. /\ form' = form /\ streamed' = streamed /\ pc' = "drain" /\ pc = "drain" /\ Take
      /\ pending' = pending /\ value' = value /\ file' = file /\ saved' = saved
      /\ rc' = rc /\ mustClose' = mustClose
  BY DEF Drain, results
<1>2. pc # "done"
  BY <1>1
<1>3. /\ form \in Forms /\ Sizes(form) /\ Input(form, buffer, used, chunk, net, remaining)
      /\ mustClose /\ streamed \in BOOLEAN
  BY <1>2, Base
<1>4. Input(form, buffer', used', chunk', net', remaining')
  BY <1>1, <1>3, TakeFacts
<1>5. /\ value \in Text /\ Len(value) < FieldCap /\ IsStrictPrefix(pending, Marker)
      /\ rc = "failed" /\ AllRead
  BY <1>1 DEF UploadInv, Streaming
<1>6. AllRead'
  BY <1>1, <1>5 DEF AllRead
<1>7. Streaming'
  BY <1>1, <1>3, <1>4, <1>5, <1>6 DEF Streaming
<1>. QED
  BY <1>1, <1>3, <1>5, <1>7 DEF UploadInv

\* A form read to its end is saved if there was a wanted file.
LEMMA DrainedKeeps ==
  ASSUME UploadInv, streamed, Drained
  PROVE  UploadInv'
<1>1. /\ form' = form /\ streamed' = streamed /\ pc' = "leave" /\ pc = "drain" /\ remaining = 0
      /\ buffer' = buffer /\ used' = used /\ chunk' = chunk /\ net' = net
      /\ remaining' = remaining /\ rc' = (IF saved THEN "ok" ELSE "failed")
      /\ pending' = pending /\ value' = value /\ file' = file /\ saved' = saved
      /\ mustClose' = mustClose
  BY DEF Drained, results, inputVars
<1>2. pc # "done"
  BY <1>1
<1>3. /\ form \in Forms /\ Input(form, buffer, used, chunk, net, remaining)
      /\ mustClose /\ streamed \in BOOLEAN
  BY <1>2, Base
<1>4. Input(form, buffer', used', chunk', net', remaining')
  BY <1>1, <1>3
<1>5. value \in Text /\ Len(value) < FieldCap /\ IsStrictPrefix(pending, Marker) /\ AllRead
  BY <1>1 DEF UploadInv, Streaming
<1>6. ~saved => ~Acceptable(form)
  <2>1. ASSUME ~saved PROVE Files(form) = {}
    <3>1. ~ \E j \in Files(form) : j <= Len(form.parts)
      BY <1>5, <2>1 DEF AllRead, FileKept
    <3>2. Files(form) \subseteq 1 .. Len(form.parts) /\ Len(form.parts) \in Nat
      BY <1>3, FormParts DEF Files
    <3>. QED
      BY <3>1, <3>2
  <2>. QED
    BY <1>3, <2>1, AcceptableFacts
<1>7. AtEnd'
  BY <1>1, <1>5, <1>6 DEF AtEnd, AllRead
<1>8. Streaming'
  BY <1>1, <1>3, <1>4, <1>7 DEF Streaming
<1>. QED
  BY <1>1, <1>3, <1>5, <1>8 DEF UploadInv

\* At the label "done" the buffer holds what follows the form.
LEMMA LeaveKeeps ==
  ASSUME UploadInv, streamed, Leave
  PROVE  UploadInv'
<1>1. /\ form' = form /\ streamed' = streamed /\ pc' = "done" /\ pc = "leave"
      /\ buffer' = From(buffer, used + 1) /\ chunk' = chunk /\ net' = net
      /\ pending' = pending /\ value' = value /\ file' = file /\ saved' = saved
      /\ rc' = rc /\ fault' = fault /\ mustClose' = (mustClose /\ rc # "ok")
  BY DEF Leave, From
<1>2. /\ form \in Forms /\ Input(form, buffer, used, chunk, net, remaining)
      /\ mustClose /\ streamed \in BOOLEAN
  BY <1>1, Base
<1>3. value \in Text /\ Len(value) < FieldCap /\ IsStrictPrefix(pending, Marker) /\ AtEnd
  BY <1>1 DEF UploadInv, Streaming
<1>4. SavedExact'
  <2>1. CASE rc = "ok"
    <3>1. saved /\ FileKept(form, Len(form.parts), saved, file) /\ value = NoteTo(form, Len(form.parts))
      BY <1>3, <2>1 DEF AtEnd, AllRead
    <3>2. Files(form) # {} /\ file = FileOf(form)
      BY <1>2, <3>1, FileEnds DEF FileKept
    <3>3. value = NoteOf(form)
      BY <1>2, <3>1, NoteEnds
    <3>. QED
      BY <1>1, <2>1, <3>1, <3>2, <3>3 DEF SavedExact
  <2>2. CASE rc # "ok"
    <3>1. fault \/ ~Acceptable(form)
      BY <1>3, <2>2 DEF AtEnd
    <3>. QED
      BY <1>1, <2>2, <3>1 DEF SavedExact
  <2>. QED
    BY <2>1, <2>2
<1>5. NextRequestIntact'
  <2>1. CASE rc = "ok"
    <3>1. remaining = 0
      BY <1>3, <2>1 DEF AtEnd
    <3>2. /\ buffer \in Text /\ chunk \in Text /\ net \in Text /\ Len(chunk) <= 0
          /\ Left(buffer, used, chunk, net) = From(Sent(form), Announced(form) - 0 + 1)
          /\ used \in 0 .. Len(buffer) /\ Announced(form) \in Nat
      <4>1. Sizes(form)
        BY <1>2, RestFacts
      <4>. QED
        BY <1>2, <3>1, <4>1 DEF Input, Sizes
    <3>3. chunk = <<>>
      <4>1. Len(chunk) \in Nat
        BY <3>2, TextFacts
      <4>. QED
        BY <3>2, <4>1, TextFacts
    <3>4. <<>> \o net = net
      BY <3>2, JoinEmpty
    <3>5. Left(buffer, used, chunk, net) = From(buffer, used + 1) \o net
      BY <3>3, <3>4 DEF Left
    <3>6. Announced(form) - 0 + 1 = Announced(form) + 1
      BY <3>2
    <3>7. From(buffer, used + 1) \o net = SubSeq(Sent(form), Announced(form) + 1, Len(Sent(form)))
      BY <3>2, <3>5, <3>6 DEF From
    <3>. QED
      BY <1>1, <3>3, <3>7 DEF NextRequestIntact
  <2>2. CASE rc # "ok"
    BY <1>1, <1>2, <2>2 DEF NextRequestIntact
  <2>. QED
    BY <2>1, <2>2
<1>6. Streaming'
  BY <1>1, <1>4, <1>5 DEF Streaming
<1>. QED
  BY <1>1, <1>2, <1>3, <1>6 DEF UploadInv

\* A byte of a part: what is known to be data is stored, the rest is pending, and the
\* marker ends it.
LEMMA DataByteKeeps ==
  ASSUME UploadInv, streamed, DataByte
  PROVE  UploadInv'
<1> DEFINE text == Append(pending, Byte)
           np == StillPending(text)
           data == SubSeq(text, 1, Len(text) - Len(np))
           stored == Max({n \in 0 .. Len(data) : n = 0 \/ Fits(value \o SubSeq(data, 1, n))})
           full == disposition = "N" /\ stored < Len(data)
           whole == np = Marker
<1>1. /\ form' = form /\ streamed' = streamed /\ pc = "data" /\ Take
      /\ cr' = cr /\ line' = line /\ disposition' = disposition
      /\ rc' = rc /\ fault' = fault /\ mustClose' = mustClose
      /\ value' = (IF disposition = "N" THEN value \o SubSeq(data, 1, stored) ELSE value)
      /\ file' = (IF open THEN file \o data ELSE file)
      /\ pending' = (IF whole THEN <<>> ELSE np)
      /\ saved' = (saved \/ (whole /\ open))
      /\ open' = (open /\ ~whole)
      /\ pc' = (IF full THEN "leave" ELSE IF whole THEN "after" ELSE pc)
  BY DEF DataByte
<1>2. pc # "done" /\ pc # "leave"
  BY <1>1
<1>3. /\ form \in Forms /\ Sizes(form) /\ Input(form, buffer, used, chunk, net, remaining)
      /\ mustClose /\ streamed \in BOOLEAN
  BY <1>2, Base
<1>4. /\ Input(form, buffer', used', chunk', net', remaining') /\ Byte = Head(Unread)
      /\ Unread' = Tail(Unread)
  BY <1>1, <1>3, TakeFacts DEF Unread
<1>5. /\ value \in Text /\ Len(value) < FieldCap /\ IsStrictPrefix(pending, Marker)
      /\ rc = "failed" /\ ~cr /\ line = <<>>
      /\ \E i \in 1 .. Len(form.parts) : \E k \in 0 .. Len(form.parts[i].data) + 4 : DataAt(i, k)
  BY <1>1 DEF UploadInv, Streaming
<1>6. PICK i \in 1 .. Len(form.parts) : \E k \in 0 .. Len(form.parts[i].data) + 4 : DataAt(i, k)
  BY <1>5
<1>7. PICK k \in 0 .. Len(form.parts[i].data) + 4 : DataAt(i, k)
  BY <1>6
<1> DEFINE p == form.parts[i]
           r == Rest(form, i)
           w == Written(p, k, pending)
           x == Written(p, k + 1, np)
<1>8. /\ Unread = From(Marked(p), k + 1) \o r
      /\ pending = StillPending(SubSeq(Marked(p), 1, k))
      /\ disposition = Meant(p)
      /\ open <=> IsWanted(disposition)
      /\ \E fl : FileKept(form, i - 1, saved, fl) /\ (saved => file = fl)
      /\ open => file = w
      /\ value = IF disposition = "N" THEN w ELSE NoteTo(form, i - 1)
  BY <1>7 DEF DataAt
<1>9. /\ PartOf(p) /\ r \in Text /\ Byte = Marked(p)[k + 1]
      /\ Unread' = From(Marked(p), k + 2) \o r
  <2>1. /\ PartOf(p) /\ r \in Text
        /\ Head(From(Marked(p), k + 1) \o r) = Marked(p)[k + 1]
        /\ Tail(From(Marked(p), k + 1) \o r) = From(Marked(p), k + 2) \o r
    BY <1>3, <1>6, <1>7, DataLeft
  <2>. QED
    BY <1>4, <1>8, <2>1
<1>10. ReadsOn(p, k, pending, text, np, data)
  BY <1>8, <1>9 DEF ReadsOn, Known
<1> HIDE DEF text, np, data, stored
<1>11. /\ np = StillPending(SubSeq(Marked(p), 1, k + 1))
       /\ data \in Text /\ w \in Text /\ Len(w) <= Len(p.data)
       /\ w \o data = x
       /\ Len(x) <= Len(p.data)
       /\ np = Marker <=> k + 1 = Len(p.data) + 5
       /\ np = Marker => x = p.data
       /\ IsPrefix(np, Marker)
  BY <1>7, <1>9, <1>10, DataStep
<1>12. /\ value \o SubSeq(data, 1, stored) \in Text
       /\ Len(value \o SubSeq(data, 1, stored)) < FieldCap
       /\ ~(stored < Len(data)) => value \o SubSeq(data, 1, stored) = value \o data
       /\ stored < Len(data) => value \o data \in Text /\ ~(Len(value \o data) < FieldCap)
  BY <1>5, <1>11, StoredFacts DEF stored
<1>13. value' \in Text /\ Len(value') < FieldCap
  BY <1>1, <1>5, <1>12
<1>14. IsStrictPrefix(pending', Marker)
  <2>1. IsStrictPrefix(<<>>, Marker)
    BY <1>9, DataStarts
  <2>2. ~whole => IsStrictPrefix(np, Marker)
    BY <1>11 DEF IsStrictPrefix
  <2>. QED
    BY <1>1, <2>1, <2>2
<1> HIDE DEF w, x, p, r
<1>15. CASE full
  <2>1. ASSUME Acceptable(form) PROVE FALSE
    <3>1. value \o data = x /\ ~(Len(value \o data) < FieldCap)
      BY <1>8, <1>11, <1>12, <1>15
    <3>2. i \in Notes(form) /\ Len(form.parts) \in Nat
      BY <1>3, <1>6, <1>8, <1>15, FormParts DEF Notes, p
    <3>3. Len(p.data) < FieldCap
      BY <1>3, <2>1, <3>2, AcceptableFacts DEF p
    <3>4. Len(x) \in Nat /\ Len(p.data) \in Nat /\ FieldCap \in Nat
      <4>1. x \in Text
        BY <1>11, JoinFacts
      <4>2. p.data \in Text
        BY <1>9 DEF PartOf
      <4>. QED
        BY <4>1, <4>2, TextFacts, LimitsAssumption
    <3>. QED
      BY <1>11, <3>1, <3>3, <3>4
  <2>2. pc' = "leave"
    BY <1>1, <1>15
  <2>. QED
    BY <1>1, <1>2, <1>4, <1>13, <1>14, <2>1, <2>2, FailureKeeps
<1>16. CASE ~full
  <2>1. value' = IF disposition = "N" THEN x ELSE NoteTo(form, i - 1)
    <3>1. CASE disposition = "N"
      <4>1. value' = value \o data /\ value = w
        BY <1>1, <1>8, <1>12, <1>16, <3>1
      <4>. QED
        BY <1>11, <3>1, <4>1
    <3>2. CASE disposition # "N"
      BY <1>1, <1>8, <3>2
    <3>. QED
      BY <3>1, <3>2
  <2>2. open => file' = x
    BY <1>1, <1>8, <1>11
  <2>3. PICK fl : FileKept(form, i - 1, saved, fl) /\ (saved => file = fl)
    BY <1>8
  <2>4. ~open => file' = file
    BY <1>1
  <2>5. saved => ~open
    BY <1>8 DEF IsWanted
  <2>6. Len(p.data) \in Nat /\ k \in Nat
    BY <1>7, <1>9, TextFacts DEF PartOf, p
  <2>7. CASE ~whole
    <3>1. k + 1 \in 0 .. Len(form.parts[i].data) + 4
      BY <1>7, <1>11, <2>6, <2>7 DEF p
    <3>2. /\ pc' = "data" /\ (saved' <=> saved) /\ (open' <=> open) /\ pending' = np
      <4>1. saved' = (saved \/ FALSE) /\ open' = (open /\ TRUE)
        BY <1>1, <2>7
      <4>2. pc' = "data" /\ pending' = np
        BY <1>1, <1>16, <2>7
      <4>. QED
        BY <4>1, <4>2
    <3>3. IsWanted(disposition)' <=> IsWanted(disposition)
      BY <1>1, <3>2 DEF IsWanted
    <3>4. Unread' = From(Marked(p), (k + 1) + 1) \o r
      <4>1. (k + 1) + 1 = k + 2
        BY <2>6
      <4>. QED
        BY <1>9, <4>1
    <3>5. FileKept(form, i - 1, saved', fl) /\ (saved' => file' = fl)
      BY <2>3, <2>4, <2>5, <3>2 DEF FileKept
    <3>6. DataAt(i, k + 1)'
      <4>1. /\ form' = form /\ pending' = StillPending(SubSeq(Marked(p), 1, k + 1))
            /\ disposition' = Meant(p) /\ (open' <=> IsWanted(disposition)')
            /\ (open' => file' = Written(p, k + 1, pending'))
            /\ value' = IF disposition' = "N" THEN Written(p, k + 1, pending')
                        ELSE NoteTo(form, i - 1)
        BY <1>1, <1>8, <1>11, <2>1, <2>2, <3>2, <3>3 DEF x
      <4>. QED
        BY <3>4, <3>5, <4>1 DEF DataAt, p, r
    <3>7. \E j \in 1 .. Len(form.parts) :
            \E l \in 0 .. Len(form.parts[j].data) + 4 : DataAt(j, l)'
      BY <1>6, <3>1, <3>6
    <3>8. Streaming'
      BY <1>1, <1>3, <1>4, <1>5, <3>2, <3>7 DEF Streaming
    <3>. QED
      BY <1>1, <1>3, <1>13, <1>14, <3>8 DEF UploadInv
  <2>8. CASE whole
    <3>1. pc' = "after" /\ ~open' /\ saved' = (saved \/ open)
      BY <1>1, <1>16, <2>8
    <3>2. x = p.data /\ k + 2 = Len(p.data) + 6
      BY <1>11, <2>6, <2>8
    <3>3. AtLine(line', cr', Unread', Rest(form, i))
      <4> DEFINE D == Marked(p)
      <4>1. D \in Text /\ Len(D) = Len(p.data) + 5
        BY <1>9, MarkedFacts
      <4>2. k + 2 = Len(D) + 1
        BY <2>6, <3>2, <4>1
      <4> HIDE DEF D
      <4>3. From(D, k + 2) = <<>>
        BY <4>1, <4>2, FromEnds
      <4>4. Unread' = <<>> \o r
        BY <1>9, <4>3 DEF D
      <4>5. Unread' = r
        BY <1>9, <4>4, JoinEmpty
      <4>6. line' = <<>> /\ cr' = FALSE
        <5>1. cr \in BOOLEAN => cr = FALSE
          BY <1>5
        <5>. QED
          BY <1>1, <1>5
      <4>. QED
        BY <1>9, <4>5, <4>6, LineStarts DEF r
    <3>4. FileKept(form, i, saved', file')
      <4>1. /\ i \in Files(form) /\ ~saved => FileKept(form, i, TRUE, form.parts[i].data)
            /\ i \notin Files(form) \/ saved => FileKept(form, i, saved, fl)
            /\ i \in Files(form) <=> /\ IsFile(Meant(form.parts[i]))
                                     /\ Meant(form.parts[i]) \in form.wanted
        BY <1>3, <1>6, <2>3, FileNext
      <4>2. open <=> i \in Files(form) /\ ~saved
        BY <1>8, <4>1 DEF IsWanted, p
      <4>3. CASE open
        BY <2>2, <3>1, <3>2, <4>1, <4>2, <4>3 DEF p
      <4>4. CASE ~open
        <5>1. (saved' <=> saved) /\ file' = file
          BY <2>4, <3>1, <4>4
        <5>2. FileKept(form, i, saved, fl)
          BY <4>1, <4>2, <4>4
        <5>. QED
          BY <2>3, <5>1, <5>2 DEF FileKept
      <4>. QED
        BY <4>3, <4>4
    <3>5. value' = NoteTo(form, i)
      <4>1. NoteTo(form, i) = IF Meant(p) = "N" THEN p.data ELSE NoteTo(form, i - 1)
        BY <1>3, <1>6, NoteNext DEF p
      <4>. QED
        BY <1>8, <2>1, <3>2, <4>1
    <3>6. AfterAt(i)'
      BY <1>1, <3>1, <3>3, <3>4, <3>5 DEF AfterAt
    <3>7. \E j \in 1 .. Len(form.parts) : AfterAt(j)'
      BY <1>6, <3>6
    <3>8. Streaming'
      BY <1>1, <1>3, <1>4, <1>5, <3>1, <3>7 DEF Streaming
    <3>. QED
      BY <1>1, <1>3, <1>13, <1>14, <3>8 DEF UploadInv
  <2>. QED
    BY <2>7, <2>8
<1>. QED
  BY <1>15, <1>16

-----------------------------------------------------------------------------
(* Where the parts of a form in memory are.                                 *)

\* A header line and a text.
LEMMA HeaderLineIs ==
  ASSUME NEW x \in Symbols, NEW a \in Text
  PROVE  /\ Len(<<x>> \o (CRLF \o a)) = Len(a) + 3
         /\ (<<x>> \o (CRLF \o a))[1] = x
         /\ (<<x>> \o (CRLF \o a))[2] = "CR" /\ (<<x>> \o (CRLF \o a))[3] = "LF"
         /\ \A j \in 1 .. Len(a) : (<<x>> \o (CRLF \o a))[3 + j] = a[j]
<1> DEFINE s == <<x>>
           c == CRLF
           e == c \o a
           t == s \o e
<1>1. s \in Text /\ Len(s) = 1 /\ s[1] = x
  BY DEF Text
<1>2. c \in Text /\ Len(c) = 2 /\ c[1] = "CR" /\ c[2] = "LF"
  BY Constants
<1> HIDE DEF s, c
<1>3. /\ e \in Text /\ Len(e) = Len(c) + Len(a)
      /\ \A i \in 1 .. Len(c) : e[i] = c[i]
      /\ \A i \in 1 .. Len(a) : e[Len(c) + i] = a[i]
  BY <1>2, JoinFacts
<1> HIDE DEF e
<1>4. /\ t \in Text /\ Len(t) = Len(s) + Len(e)
      /\ \A i \in 1 .. Len(s) : t[i] = s[i]
      /\ \A i \in 1 .. Len(e) : t[Len(s) + i] = e[i]
  BY <1>1, <1>3, JoinFacts
<1> HIDE DEF t
<1>5. Len(a) \in Nat
  BY TextFacts
<1>6. Len(t) = Len(a) + 3
  BY <1>1, <1>2, <1>3, <1>4, <1>5
<1>7. t[1] = x
  BY <1>1, <1>4
<1>8. t[2] = "CR" /\ t[3] = "LF"
  <2>1. 1 \in 1 .. Len(c) /\ 2 \in 1 .. Len(c) /\ 1 \in 1 .. Len(e) /\ 2 \in 1 .. Len(e)
    BY <1>2, <1>3, <1>5
  <2>2. t[1 + 1] = e[1] /\ t[1 + 2] = e[2]
    BY <1>1, <1>4, <2>1
  <2>3. e[1] = "CR" /\ e[2] = "LF"
    BY <1>2, <1>3, <2>1
  <2>. QED
    BY <2>2, <2>3
<1>9. ASSUME NEW j \in 1 .. Len(a) PROVE t[3 + j] = a[j]
  <2>1. 2 + j \in 1 .. Len(e) /\ 1 + (2 + j) = 3 + j
    BY <1>2, <1>3, <1>5
  <2>2. t[1 + (2 + j)] = e[2 + j] /\ e[2 + j] = a[j]
    BY <1>1, <1>2, <1>3, <1>4, <2>1
  <2>. QED
    BY <2>1, <2>2
<1>. QED
  BY <1>6, <1>7, <1>8, <1>9 DEF t, s, e, c

\* A text x of the last j headers of p, each on a line, and an empty line.
HeaderLines(p, j, x) ==
  /\ Len(x) = 3 * j + 2
  /\ \A k \in 1 .. j : /\ x[3 * k - 2] = p.headers[Len(p.headers) - j + k]
                       /\ x[3 * k - 1] = "CR" /\ x[3 * k] = "LF"
  /\ x[3 * j + 1] = "CR" /\ x[3 * j + 2] = "LF"

\* The headers of a part are three symbols each.
LEMMA HeadersAre ==
  ASSUME NEW p, PartOf(p)
  PROVE  HeaderLines(p, Len(p.headers), Headers(p, 0))
<1> DEFINE m == Len(p.headers)
           h == p.headers
           Good(j) == j <= m => HeaderLines(p, j, Headers(p, m - j))
           T == {j \in Nat : Good(j)}
<1>1. /\ m \in Nat /\ (\A q \in 0 .. m : Headers(p, q) \in Text)
      /\ Headers(p, m) = CRLF
      /\ \A q \in 0 .. m - 1 : Headers(p, q) = <<h[q + 1]>> \o (CRLF \o Headers(p, q + 1))
  BY HeadersFacts
<1>2. \A k \in 1 .. m : h[k] \in Symbols
  BY TextFacts DEF PartOf
<1>3. Good(0)
  <2>1. m - 0 = m
    BY <1>1
  <2>2. Headers(p, m - 0) = CRLF
    BY <1>1, <2>1
  <2>3. Len(CRLF) = 2 /\ CRLF[1] = "CR" /\ CRLF[2] = "LF"
    BY Constants
  <2>4. 3 * 0 + 2 = 2 /\ 3 * 0 + 1 = 1
    OBVIOUS
  <2>5. HeaderLines(p, 0, CRLF)
    BY <2>3, <2>4 DEF HeaderLines
  <2>. QED
    BY <2>2, <2>5
<1>4. ASSUME NEW j \in Nat, Good(j) PROVE Good(j + 1)
  <2>1. SUFFICES ASSUME j + 1 <= m PROVE HeaderLines(p, j + 1, Headers(p, m - (j + 1)))
    OBVIOUS
  <2> DEFINE q == m - (j + 1)
             a == Headers(p, m - j)
             x == h[m - j]
             t == <<x>> \o (CRLF \o a)
  <2>2. q \in 0 .. m - 1 /\ q + 1 = m - j /\ m - j \in 0 .. m /\ m - j \in 1 .. m /\ j <= m
    BY <1>1, <2>1
  <2>3. Headers(p, q) = t
    BY <1>1, <2>2
  <2>4. a \in Text /\ x \in Symbols
    BY <1>1, <1>2, <2>2
  <2>5. HeaderLines(p, j, a)
    BY <1>4, <2>2
  <2>10. x = p.headers[m - j]
    OBVIOUS
  <2> HIDE DEF a, x
  <2>6. /\ Len(t) = Len(a) + 3 /\ t[1] = x /\ t[2] = "CR" /\ t[3] = "LF"
        /\ \A i \in 1 .. Len(a) : t[3 + i] = a[i]
    BY <2>4, HeaderLineIs
  <2>7. /\ Len(a) = 3 * j + 2
        /\ a[3 * j + 1] = "CR" /\ a[3 * j + 2] = "LF"
    BY <2>5 DEF HeaderLines
  <2>8. \A k \in 1 .. j : /\ a[3 * k - 2] = p.headers[m - j + k]
                          /\ a[3 * k - 1] = "CR" /\ a[3 * k] = "LF"
    BY <2>5 DEF HeaderLines
  <2> HIDE DEF t, m
  <2>9. ASSUME NEW k \in 1 .. j + 1
        PROVE  /\ t[3 * k - 2] = p.headers[m - (j + 1) + k]
               /\ t[3 * k - 1] = "CR" /\ t[3 * k] = "LF"
    <3>1. CASE k = 1
      <4>1. 3 * k - 2 = 1 /\ 3 * k - 1 = 2 /\ 3 * k = 3 /\ m - (j + 1) + k = m - j
        BY <1>1, <3>1
      <4>. QED
        BY <2>6, <2>10, <4>1
    <3>2. CASE k # 1
      <4> DEFINE l == k - 1
      <4>1. /\ l \in 1 .. j /\ 3 * k - 2 = 3 + (3 * l - 2) /\ 3 * k - 1 = 3 + (3 * l - 1)
            /\ 3 * k = 3 + 3 * l /\ m - (j + 1) + k = m - j + l
        BY <1>1, <3>2
      <4>2. 3 * l - 2 \in 1 .. Len(a) /\ 3 * l - 1 \in 1 .. Len(a) /\ 3 * l \in 1 .. Len(a)
        BY <2>7, <4>1
      <4> HIDE DEF l
      <4>3. t[3 + (3 * l - 2)] = a[3 * l - 2] /\ t[3 + (3 * l - 1)] = a[3 * l - 1] /\ t[3 + 3 * l] = a[3 * l]
        BY <2>6, <4>2
      <4>. QED
        BY <2>8, <4>1, <4>3
    <3>. QED
      BY <3>1, <3>2
  <2>11. Len(t) = 3 * (j + 1) + 2
    BY <2>6, <2>7
  <2>12. t[3 * (j + 1) + 1] = "CR" /\ t[3 * (j + 1) + 2] = "LF"
    <3>1. 3 * (j + 1) + 1 = 3 + (3 * j + 1) /\ 3 * (j + 1) + 2 = 3 + (3 * j + 2)
      OBVIOUS
    <3>2. 3 * j + 1 \in 1 .. Len(a) /\ 3 * j + 2 \in 1 .. Len(a)
      BY <2>7
    <3>. QED
      BY <2>6, <2>7, <3>1, <3>2
  <2>13. HeaderLines(p, j + 1, t)
    BY <2>9, <2>11, <2>12 DEF HeaderLines, m
  <2>. QED
    BY <2>3, <2>13
<1> HIDE DEF Good
<1>5. Nat \subseteq T
  <2>1. 0 \in T /\ \A k \in Nat : k \in T => k + 1 \in T
    BY <1>3, <1>4
  <2> HIDE DEF T
  <2>. QED
    BY <2>1, NatInduct
<1>6. Good(m)
  BY <1>1, <1>5
<1>7. m <= m /\ m - m = 0
  BY <1>1
<1>. QED
  BY <1>6, <1>7 DEF Good

\* Every place is one of three.
LEMMA ThreePlaces ==
  ASSUME NEW i \in Nat, i >= 1
  PROVE  \E k \in Nat : k >= 1 /\ (i = 3 * k - 2 \/ i = 3 * k - 1 \/ i = 3 * k)
<1> DEFINE Good(j) == \E k \in Nat : k >= 1 /\ (j + 1 = 3 * k - 2 \/ j + 1 = 3 * k - 1 \/ j + 1 = 3 * k)
           T == {j \in Nat : Good(j)}
<1>1. Good(0)
  <2>1. 0 + 1 = 3 * 1 - 2 /\ 1 >= 1 /\ 1 \in Nat
    OBVIOUS
  <2>. QED
    BY <2>1
<1>2. ASSUME NEW j \in Nat, Good(j) PROVE Good(j + 1)
  <2>1. PICK k \in Nat : k >= 1 /\ (j + 1 = 3 * k - 2 \/ j + 1 = 3 * k - 1 \/ j + 1 = 3 * k)
    BY <1>2
  <2>2. CASE j + 1 = 3 * k - 2
    <3>1. (j + 1) + 1 = 3 * k - 1
      BY <2>2
    <3>. QED
      BY <2>1, <3>1
  <2>3. CASE j + 1 = 3 * k - 1
    <3>1. (j + 1) + 1 = 3 * k
      BY <2>3
    <3>. QED
      BY <2>1, <3>1
  <2>4. CASE j + 1 = 3 * k
    <3>1. (j + 1) + 1 = 3 * (k + 1) - 2 /\ k + 1 >= 1 /\ k + 1 \in Nat
      BY <2>1, <2>4
    <3>. QED
      BY <3>1
  <2>. QED
    BY <2>1, <2>2, <2>3, <2>4
<1> HIDE DEF Good
<1>3. Nat \subseteq T
  <2>1. 0 \in T /\ \A k \in Nat : k \in T => k + 1 \in T
    BY <1>1, <1>2
  <2> HIDE DEF T
  <2>. QED
    BY <2>1, NatInduct
<1>4. i - 1 \in Nat /\ (i - 1) + 1 = i
  OBVIOUS
<1>5. Good(i - 1)
  BY <1>3, <1>4
<1>. QED
  BY <1>4, <1>5 DEF Good

\* A text occurs in another only where it fits.
LEMMA OccursWhere ==
  ASSUME NEW s \in Text, Len(s) >= 1, NEW t \in Text, NEW i \in Nat, i >= 1
  PROVE  OccursAt(s, t, i) <=> /\ i + Len(s) <= Len(t) + 1
                               /\ \A j \in 1 .. Len(s) : t[i + j - 1] = s[j]
<1>1. Len(s) \in Nat /\ Len(t) \in Nat
  BY TextFacts
<1>2. CASE i <= Len(t) + 1
  <2>1. i \in 1 .. Len(t) + 1
    BY <1>1, <1>2
  <2>. QED
    BY <2>1, OccursIs
<1>3. CASE i > Len(t) + 1
  <2>1. SubSeq(t, i, Len(t)) = <<>>
    BY <1>1, <1>3, SubSeqEmpty
  <2>2. From(t, i) = <<>> /\ <<>> \in Text /\ Len(<<>>) = 0
    BY <2>1, JoinEmpty DEF From
  <2>3. ~IsPrefix(s, <<>>)
    BY <2>2, <1>1, PrefixIs
  <2>4. ~OccursAt(s, t, i)
    BY <2>2, <2>3 DEF OccursAt
  <2>5. ~(i + Len(s) <= Len(t) + 1)
    BY <1>1, <1>3
  <2>. QED
    BY <2>4, <2>5
<1>. QED
  BY <1>1, <1>2, <1>3

\* At the place k of the text s is a, which b follows.
IsAt(s, k, a, b) ==
  /\ s \in Text /\ k \in 1 .. Len(s) + 1 /\ a \in Text /\ b \in Text
  /\ From(s, k) = a \o b
ReadAt(s, k, a, b) ==
  /\ k + Len(a) \in 1 .. Len(s) + 1
  /\ \A j \in 1 .. Len(a) : s[k + j - 1] = a[j]
  /\ From(s, k + Len(a)) = b
  /\ Len(b) = Len(s) + 1 - (k + Len(a))

\* Its symbols are there, and b is left after them.
LEMMA IsThere ==
  ASSUME NEW s, NEW k, NEW a, NEW b, IsAt(s, k, a, b)
  PROVE  ReadAt(s, k, a, b)
<1> DEFINE u == From(s, k)
           v == From(s, k + Len(a))
<1>0. s \in Text /\ k \in 1 .. Len(s) + 1 /\ a \in Text /\ b \in Text /\ From(s, k) = a \o b
  BY DEF IsAt
<1>1. Len(s) \in Nat /\ Len(a) \in Nat /\ Len(b) \in Nat /\ k \in Nat /\ k >= 1 /\ k <= Len(s) + 1
  BY <1>0, TextFacts
<1>2. u \in Text /\ Len(u) = Len(s) - k + 1 /\ \A j \in 1 .. Len(s) - k + 1 : u[j] = s[k + j - 1]
  BY <1>0, FromFacts
<1>3. u = a \o b
  BY <1>0
<1> HIDE DEF u
<1>4. /\ Len(u) = Len(a) + Len(b)
      /\ \A j \in 1 .. Len(a) : u[j] = a[j]
      /\ \A j \in 1 .. Len(b) : u[Len(a) + j] = b[j]
  BY <1>0, <1>3, JoinFacts
<1>5. k + Len(a) \in 1 .. Len(s) + 1 /\ Len(b) = Len(s) + 1 - (k + Len(a))
  <2>1. Len(s) - k + 1 = Len(a) + Len(b)
    BY <1>2, <1>4
  <2>2. k <= Len(s) + 1
    BY <1>1
  <2>. QED
    BY <1>1, <2>1, <2>2
<1>6. /\ v \in Text /\ Len(v) = Len(s) - (k + Len(a)) + 1
      /\ \A j \in 1 .. Len(s) - (k + Len(a)) + 1 : v[j] = s[(k + Len(a)) + j - 1]
  BY <1>0, <1>5, FromFacts
<1> HIDE DEF v
<1>7. Len(v) = Len(b)
  BY <1>1, <1>5, <1>6
<1>8. ASSUME NEW j \in 1 .. Len(v) PROVE v[j] = b[j]
  <2>1. j \in 1 .. Len(b) /\ Len(a) + j \in 1 .. Len(s) - k + 1
        /\ (k + Len(a)) + j - 1 = k + (Len(a) + j) - 1 /\ j \in 1 .. Len(s) - (k + Len(a)) + 1
    BY <1>1, <1>2, <1>4, <1>7
  <2>2. v[j] = s[(k + Len(a)) + j - 1]
    BY <1>6, <2>1
  <2>3. u[Len(a) + j] = s[k + (Len(a) + j) - 1]
    BY <1>2, <2>1
  <2>4. u[Len(a) + j] = b[j]
    BY <1>4, <2>1
  <2>. QED
    BY <2>1, <2>2, <2>3, <2>4
<1>9. v = b
  BY <1>0, <1>6, <1>7, <1>8, TextEqual
<1>10. ASSUME NEW j \in 1 .. Len(a) PROVE s[k + j - 1] = a[j]
  <2>1. j \in 1 .. Len(s) - k + 1
    BY <1>1, <1>2, <1>4
  <2>. QED
    BY <1>2, <1>4, <2>1
<1>. QED
  BY <1>5, <1>9, <1>10 DEF v, ReadAt

\* What is left of a form after a boundary is longer than a boundary's "--" less one.
LEMMA RestLength ==
  ASSUME NEW f \in Forms, NEW i \in 1 .. Len(f.parts)
  PROVE  Rest(f, i) \in Text /\ Len(Rest(f, i)) >= 2
<1> DEFINE n == Len(f.parts)
           r == Rest(f, i)
<1>1. n \in Nat /\ i \in 0 .. n /\ (\A j \in 0 .. n : Rest(f, j) \in Text)
  <2>1. n \in Nat /\ (\A j \in 0 .. n : Rest(f, j) \in Text)
    BY RestFacts
  <2>. QED
    BY <2>1
<1>2. r \in Text
  BY <1>1
<1>3. CASE i = n
  <2> DEFINE dd == <<"-", "-">>
             e == f.tail \o NextRequest
  <2>1. r = dd \o e /\ e \in Text /\ dd \in Text /\ Len(dd) = 2
    <3>1. f.tail \in Text /\ NextRequest \in Text /\ dd \in Text /\ Len(dd) = 2
      BY FormParts, Constants
    <3>2. e \in Text
      BY <3>1, JoinFacts
    <3>3. r = dd \o e
      BY <1>3, RestFacts
    <3>. QED
      BY <3>1, <3>2, <3>3
  <2> HIDE DEF dd, e
  <2>2. Len(dd \o e) = Len(dd) + Len(e) /\ Len(e) \in Nat
    BY <2>1, JoinFacts, TextFacts
  <2>. QED
    BY <1>2, <2>1, <2>2
<1>4. CASE i # n
  <2> DEFINE t == PartText(f.parts[i + 1], 0, Rest(f, i + 1))
  <2>1. i \in 1 .. n - 1
    BY <1>1, <1>4
  <2>2. Begins(r, <<>>, t)
    BY <2>1, AfterLineIs
  <2> HIDE DEF t, r
  <2>3. r = <<>> \o (CRLF \o t) /\ t \in Text /\ CRLF \in Text /\ Len(CRLF) = 2
    BY <2>2, Constants DEF Begins
  <2>4. CRLF \o t \in Text /\ Len(CRLF \o t) = Len(CRLF) + Len(t) /\ Len(t) \in Nat
    BY <2>3, JoinFacts, TextFacts
  <2>5. <<>> \o (CRLF \o t) = CRLF \o t
    BY <2>4, JoinEmpty
  <2>6. Len(CRLF \o t) >= 2
    BY <2>3, <2>4
  <2>. QED
    BY <1>2, <2>3, <2>5, <2>6 DEF r
<1>. QED
  BY <1>3, <1>4

\* Where a part of the text s is: its boundary at o, m headers and d bytes of data, and
\* the next boundary, which the text r follows.
PartIsAt(p, s, o, r) ==
  /\ o \in 1 .. Len(s) + 1
  /\ \A a \in 1 .. 3 : s[o + a - 1] = BoundaryLine[a]
  /\ s[o + 3] = "CR" /\ s[o + 4] = "LF"
  /\ \A j \in 1 .. 3 * Len(p.headers) + 2 : s[o + 4 + j] = Headers(p, 0)[j]
  /\ \A j \in 1 .. Len(p.data) : s[o + 3 * Len(p.headers) + 6 + j] = p.data[j]
  /\ \A a \in 1 .. 5 : s[o + 3 * Len(p.headers) + Len(p.data) + 6 + a] = Marker[a]
  /\ o + 3 * Len(p.headers) + Len(p.data) + 9 \in 1 .. Len(s) + 1
  /\ From(s, o + 3 * Len(p.headers) + Len(p.data) + 9) = BoundaryLine \o r
  /\ Len(s) + 1 - (o + 3 * Len(p.headers) + Len(p.data) + 9) = Len(r) + 3

\* A part's text is where its boundary, its headers and its data say.
LEMMA PartPlaces ==
  ASSUME NEW p, PartOf(p), NEW s \in Text, NEW o \in 1 .. Len(s) + 1, NEW r \in Text,
         From(s, o) = BoundaryLine \o (CRLF \o PartText(p, 0, r))
  PROVE  PartIsAt(p, s, o, r)
<1> DEFINE B == BoundaryLine
           c == CRLF
           H == Headers(p, 0)
           d == p.data
           M == Marker
           m == Len(p.headers)
           n == Len(p.data)
<1>1. /\ B \in Text /\ Len(B) = 3
      /\ c \in Text /\ Len(c) = 2 /\ c[1] = "CR" /\ c[2] = "LF"
  BY Constants
<1>2. M \in Text /\ Len(M) = 5 /\ M = c \o B
  BY MarkerIs DEF Marker
<1>3. d \in Text /\ n \in Nat /\ Len(d) = n
  BY TextFacts DEF PartOf
<1>4. m \in Nat /\ H \in Text
  <2>1. m \in Nat /\ \A q \in 0 .. m : Headers(p, q) \in Text
    BY HeadersFacts
  <2>2. 0 \in 0 .. m
    BY <2>1
  <2>. QED
    BY <2>1, <2>2
<1>5. Len(H) = 3 * m + 2
  BY HeadersAre DEF HeaderLines
<1>6. From(s, o) = B \o (c \o (H \o (d \o (M \o r))))
  BY DEF PartText
<1>7. o \in Nat /\ Len(s) \in Nat /\ Len(r) \in Nat
  BY TextFacts
<1> HIDE DEF B, c, H, d, M, m, n
<1>8. /\ B \o r \in Text /\ M \o r \in Text /\ d \o (M \o r) \in Text /\ H \o (d \o (M \o r)) \in Text
      /\ c \o (H \o (d \o (M \o r))) \in Text /\ Len(B \o r) = 3 + Len(r)
  <2>1. B \o r \in Text /\ M \o r \in Text /\ Len(B \o r) = Len(B) + Len(r)
    BY <1>1, <1>2, JoinFacts, ZenonT(40)
  <2>2. d \o (M \o r) \in Text
    BY <1>3, <2>1, JoinFacts
  <2>3. H \o (d \o (M \o r)) \in Text
    BY <1>4, <2>2, JoinFacts
  <2>4. c \o (H \o (d \o (M \o r))) \in Text
    BY <1>1, <2>3, JoinFacts
  <2>. QED
    BY <1>1, <2>1, <2>2, <2>3, <2>4
<1> DEFINE t1 == c \o (H \o (d \o (M \o r)))
           t2 == H \o (d \o (M \o r))
           t3 == d \o (M \o r)
           t4 == M \o r
           t5 == B \o r
<1>9. M \o r = c \o t5
  BY <1>1, <1>2, JoinAssociative, SMTT(60)
<1>10. /\ t1 \in Text /\ t2 \in Text /\ t3 \in Text /\ t4 \in Text /\ t5 \in Text
       /\ From(s, o) = B \o t1 /\ t1 = c \o t2 /\ t2 = H \o t3 /\ t3 = d \o t4 /\ t4 = M \o r
       /\ t4 = c \o t5 /\ t5 = B \o r
  BY <1>6, <1>8, <1>9
<1> HIDE DEF t1, t2, t3, t4, t5
<1>11. /\ o + 3 \in 1 .. Len(s) + 1 /\ (\A j \in 1 .. 3 : s[o + j - 1] = B[j])
       /\ From(s, o + 3) = c \o t2
  <2>1. /\ o + Len(B) \in 1 .. Len(s) + 1 /\ (\A j \in 1 .. Len(B) : s[o + j - 1] = B[j])
        /\ From(s, o + Len(B)) = t1
    <3>1. IsAt(s, o, B, t1)
      BY <1>1, <1>10 DEF IsAt
    <3>. QED
      BY <3>1, IsThere DEF ReadAt
  <2>. QED
    BY <1>1, <1>10, <2>1
<1> DEFINE o3 == o + 3
           o5 == o + 5
           oD == o + 3 * m + 7
           oM == o + 3 * m + n + 7
<1>12. /\ o3 + 2 \in 1 .. Len(s) + 1 /\ (\A j \in 1 .. 2 : s[o3 + j - 1] = c[j])
       /\ From(s, o3 + 2) = t2
  <2> HIDE DEF o3
  <2>1. o3 \in 1 .. Len(s) + 1 /\ From(s, o3) = c \o t2
    BY <1>11 DEF o3
  <2>2. /\ o3 + Len(c) \in 1 .. Len(s) + 1 /\ (\A j \in 1 .. Len(c) : s[o3 + j - 1] = c[j])
        /\ From(s, o3 + Len(c)) = t2
    <3>1. IsAt(s, o3, c, t2)
      BY <1>1, <1>10, <2>1 DEF IsAt
    <3>. QED
      BY <3>1, IsThere DEF ReadAt
  <2>. QED
    BY <1>1, <2>2
<1>13. o5 \in 1 .. Len(s) + 1 /\ From(s, o5) = H \o t3
  <2>1. o3 + 2 = o5
    BY <1>7
  <2>. QED
    BY <1>10, <1>12, <2>1
<1>14. /\ o5 + Len(H) \in 1 .. Len(s) + 1 /\ (\A j \in 1 .. Len(H) : s[o5 + j - 1] = H[j])
       /\ From(s, o5 + Len(H)) = t3
  <2> HIDE DEF o5
  <2>. QED
    <3>1. IsAt(s, o5, H, t3)
      BY <1>4, <1>10, <1>13 DEF IsAt
    <3>. QED
      BY <3>1, IsThere DEF ReadAt
<1>15. oD \in 1 .. Len(s) + 1 /\ From(s, oD) = d \o t4
  <2>1. o5 + Len(H) = oD
    BY <1>4, <1>5, <1>7
  <2>. QED
    BY <1>10, <1>14, <2>1
<1>16. /\ oD + Len(d) \in 1 .. Len(s) + 1 /\ (\A j \in 1 .. Len(d) : s[oD + j - 1] = d[j])
       /\ From(s, oD + Len(d)) = t4
  <2> HIDE DEF oD
  <2>. QED
    <3>1. IsAt(s, oD, d, t4)
      BY <1>3, <1>10, <1>15 DEF IsAt
    <3>. QED
      BY <3>1, IsThere DEF ReadAt
<1>17. oM \in 1 .. Len(s) + 1 /\ From(s, oM) = t4
  <2>1. oD + Len(d) = oM
    BY <1>3, <1>4, <1>7
  <2>. QED
    BY <1>16, <2>1
<1>18. \A j \in 1 .. 5 : s[oM + j - 1] = M[j]
  <2> HIDE DEF oM
  <2>1. From(s, oM) = M \o r
    BY <1>10, <1>17
  <2>2. \A j \in 1 .. Len(M) : s[oM + j - 1] = M[j]
    <3>1. IsAt(s, oM, M, r)
      BY <1>2, <1>17, <2>1 DEF IsAt
    <3>. QED
      BY <3>1, IsThere DEF ReadAt
  <2>. QED
    BY <1>2, <2>2
<1>19. oM + 2 \in 1 .. Len(s) + 1 /\ From(s, oM + 2) = t5 /\ Len(t5) = Len(s) + 1 - (oM + 2)
  <2> HIDE DEF oM
  <2>1. From(s, oM) = c \o t5
    BY <1>10, <1>17
  <2>2. oM + Len(c) \in 1 .. Len(s) + 1 /\ From(s, oM + Len(c)) = t5
        /\ Len(t5) = Len(s) + 1 - (oM + Len(c))
    <3>1. IsAt(s, oM, c, t5)
      BY <1>1, <1>10, <1>17, <2>1 DEF IsAt
    <3>. QED
      BY <3>1, IsThere DEF ReadAt
  <2>. QED
    BY <1>1, <2>2
<1>20. /\ \A a \in 1 .. 3 : s[o + a - 1] = BoundaryLine[a]
       /\ s[o + 3] = "CR" /\ s[o + 4] = "LF"
  <2>1. s[o3 + 1 - 1] = c[1] /\ s[o3 + 2 - 1] = c[2]
    BY <1>12
  <2>2. o3 + 1 - 1 = o + 3 /\ o3 + 2 - 1 = o + 4
    BY <1>7
  <2>. QED
    BY <1>1, <1>11, <2>1, <2>2 DEF B
<1>21. ASSUME NEW j \in 1 .. 3 * m + 2 PROVE s[o + 4 + j] = H[j]
  <2>1. j \in 1 .. Len(H) /\ o5 + j - 1 = o + 4 + j
    BY <1>4, <1>5, <1>7
  <2>2. s[o5 + j - 1] = H[j]
    BY <1>14, <2>1
  <2>. QED
    BY <2>1, <2>2
<1>22. ASSUME NEW j \in 1 .. n PROVE s[o + 3 * m + 6 + j] = d[j]
  <2>1. j \in 1 .. Len(d) /\ oD + j - 1 = o + 3 * m + 6 + j
    BY <1>3, <1>4, <1>7
  <2>2. s[oD + j - 1] = d[j]
    BY <1>16, <2>1
  <2>. QED
    BY <2>1, <2>2
<1>23. ASSUME NEW a \in 1 .. 5 PROVE s[o + 3 * m + n + 6 + a] = M[a]
  <2>1. oM + a - 1 = o + 3 * m + n + 6 + a
    BY <1>3, <1>4, <1>7
  <2>2. s[oM + a - 1] = M[a]
    BY <1>18
  <2>. QED
    BY <2>1, <2>2
<1>24. /\ o + 3 * m + n + 9 \in 1 .. Len(s) + 1
       /\ From(s, o + 3 * m + n + 9) = BoundaryLine \o r
       /\ Len(s) + 1 - (o + 3 * m + n + 9) = Len(r) + 3
  <2>1. oM + 2 = o + 3 * m + n + 9
    BY <1>3, <1>4, <1>7
  <2>2. Len(t5) = 3 + Len(r)
    BY <1>8 DEF t5
  <2>. QED
    BY <1>7, <1>10, <1>19, <2>1, <2>2, SMTT(60) DEF B
<1>. QED
  BY <1>20, <1>21, <1>22, <1>23, <1>24 DEF PartIsAt, H, d, M, m, n

\* The header lines of a part, without the last line's end, say what the part is.
LEMMA SliceMeans ==
  ASSUME NEW p, PartOf(p), Len(p.headers) >= 1, NEW x \in Text,
         Len(x) = 3 * Len(p.headers) - 2, \A j \in 1 .. Len(x) : x[j] = Headers(p, 0)[j]
  PROVE  LastDisposition(x) = Meant(p)
<1> DEFINE m == Len(p.headers)
           h == p.headers
           H == Headers(p, 0)
<1>1. h \in Text /\ m \in Nat /\ m >= 1 /\ Len(h) = m
  BY TextFacts DEF PartOf
<1>2. \A k \in 1 .. m : H[3 * k - 2] = h[k] /\ H[3 * k - 1] = "CR" /\ H[3 * k] = "LF"
  <2>1. ASSUME NEW k \in 1 .. m
        PROVE  H[3 * k - 2] = h[k] /\ H[3 * k - 1] = "CR" /\ H[3 * k] = "LF"
    <3>1. H[3 * k - 2] = h[m - m + k] /\ H[3 * k - 1] = "CR" /\ H[3 * k] = "LF"
      BY HeadersAre DEF HeaderLines
    <3>2. m - m + k = k
      BY <1>1
    <3>. QED
      BY <3>1, <3>2
  <2>. QED
    BY <2>1
<1>3. Len(x) = 3 * m - 2 /\ \A j \in 1 .. 3 * m - 2 : x[j] = H[j]
  OBVIOUS
<1>4. "CR" \notin Dispositions /\ "LF" \notin Dispositions
  BY DEF Dispositions
<1> HIDE DEF m, h, H
<1>5. ASSUME NEW j \in 1 .. Len(x), x[j] \in Dispositions
      PROVE  \E k \in 1 .. m : j = 3 * k - 2 /\ x[j] = h[k]
  <2>1. j \in Nat /\ j >= 1 /\ j <= 3 * m - 2
    BY <1>1, <1>3
  <2>2. PICK k \in Nat : k >= 1 /\ (j = 3 * k - 2 \/ j = 3 * k - 1 \/ j = 3 * k)
    BY <2>1, ThreePlaces
  <2>3. k \in 1 .. m
    BY <1>1, <2>1, <2>2
  <2>4. x[j] = H[j]
    BY <1>3
  <2>5. H[3 * k - 2] = h[k] /\ H[3 * k - 1] = "CR" /\ H[3 * k] = "LF"
    BY <1>2, <2>3
  <2>6. j # 3 * k - 1 /\ j # 3 * k
    BY <1>4, <1>5, <2>4, <2>5
  <2>7. j = 3 * k - 2
    BY <2>2, <2>6
  <2>8. x[j] = h[k]
    BY <2>4, <2>5, <2>7
  <2>. QED
    BY <2>3, <2>7, <2>8
<1>6. CASE \E k \in 1 .. Len(h) : h[k] \in Dispositions
  <2>1. PICK k \in 1 .. Len(h) : /\ h[k] \in Dispositions
                                 /\ \A j \in 1 .. Len(h) : j > k => h[j] \notin Dispositions
    BY <1>1, <1>6, LastExists
  <2>2. LastDisposition(h) = h[k]
    BY <1>1, <2>1, LastIs
  <2>3. k \in 1 .. m /\ 3 * k - 2 \in 1 .. Len(x) /\ 3 * k - 2 \in 1 .. 3 * m - 2
    BY <1>1, <1>3, <2>1
  <2>4. x[3 * k - 2] = h[k]
    BY <1>2, <1>3, <2>3
  <2>5. ASSUME NEW j \in 1 .. Len(x), j > 3 * k - 2 PROVE x[j] \notin Dispositions
    <3>1. SUFFICES ASSUME x[j] \in Dispositions PROVE FALSE
      OBVIOUS
    <3>2. PICK l \in 1 .. m : j = 3 * l - 2 /\ x[j] = h[l]
      BY <1>5, <3>1
    <3>3. l > k /\ l \in 1 .. Len(h)
      BY <1>1, <2>3, <2>5, <3>2
    <3>. QED
      BY <2>1, <3>1, <3>2, <3>3
  <2>6. x[3 * k - 2] \in Dispositions
    BY <2>1, <2>4
  <2> DEFINE j == 3 * k - 2
  <2>7. /\ j \in 1 .. Len(x) /\ x[j] \in Dispositions
        /\ \A i \in 1 .. Len(x) : i > j => x[i] \notin Dispositions
    BY <2>3, <2>5, <2>6
  <2> HIDE DEF j
  <2>8. LastDisposition(x) = x[j]
    BY <2>7, LastIs
  <2>9. LastDisposition(x) = h[k]
    BY <2>4, <2>8 DEF j
  <2>. QED
    BY <2>2, <2>9 DEF Meant, h
<1>7. CASE \A k \in 1 .. Len(h) : h[k] \notin Dispositions
  <2>1. LastDisposition(h) = "none"
    BY <1>1, <1>7, LastNone
  <2>2. ASSUME NEW j \in 1 .. Len(x) PROVE x[j] \notin Dispositions
    <3>1. SUFFICES ASSUME x[j] \in Dispositions PROVE FALSE
      OBVIOUS
    <3>2. PICK l \in 1 .. m : j = 3 * l - 2 /\ x[j] = h[l]
      BY <1>5, <3>1
    <3>. QED
      BY <1>1, <1>7, <3>1, <3>2
  <2>3. LastDisposition(x) = "none"
    BY <2>2, LastNone
  <2>. QED
    BY <2>1, <2>3 DEF Meant, h
<1>. QED
  BY <1>6, <1>7

\* Two line ends.
LEMMA TwoLineEnds ==
  /\ CRLF \o CRLF \in Text /\ Len(CRLF \o CRLF) = 4
  /\ (CRLF \o CRLF)[1] = "CR" /\ (CRLF \o CRLF)[2] = "LF"
  /\ (CRLF \o CRLF)[3] = "CR" /\ (CRLF \o CRLF)[4] = "LF"
<1> DEFINE c == CRLF
<1>1. c \in Text /\ Len(c) = 2 /\ c[1] = "CR" /\ c[2] = "LF"
  BY Constants
<1> HIDE DEF c
<1>2. /\ c \o c \in Text /\ Len(c \o c) = Len(c) + Len(c)
      /\ \A i \in 1 .. Len(c) : (c \o c)[i] = c[i]
      /\ \A i \in 1 .. Len(c) : (c \o c)[Len(c) + i] = c[i]
  BY <1>1, JoinFacts
<1>3. 1 \in 1 .. Len(c) /\ 2 \in 1 .. Len(c) /\ Len(c) + 1 = 3 /\ Len(c) + 2 = 4
  BY <1>1
<1>4. /\ (c \o c)[1] = c[1] /\ (c \o c)[2] = c[2]
      /\ (c \o c)[Len(c) + 1] = c[1] /\ (c \o c)[Len(c) + 2] = c[2]
  BY <1>2, <1>3
<1>5. Len(c \o c) = 4
  BY <1>1, <1>2
<1>. QED
  BY <1>1, <1>2, <1>3, <1>4, <1>5 DEF c

\* The text b is a beginning of s, as far as it goes.
BeginningOf(b, s) ==
  /\ b \in Text /\ s \in Text /\ Len(b) <= Len(s)
  /\ \A j \in 1 .. Len(b) : b[j] = s[j]

\* The headers of a part end where its empty line is, and nowhere before.
LEMMA HeadersEndAt ==
  ASSUME NEW p, PartOf(p), Len(p.headers) >= 1, NEW s, NEW o, NEW r, PartIsAt(p, s, o, r),
         NEW b, BeginningOf(b, s), NEW x \in Nat, x >= o + 5, x <= o + 3 * Len(p.headers) + 3
  PROVE  OccursAt(CRLF \o CRLF, b, x)
           <=> x = o + 3 * Len(p.headers) + 3 /\ x + 3 <= Len(b)
<1> DEFINE m == Len(p.headers)
           H == Headers(p, 0)
           h == p.headers
           c == CRLF \o CRLF
<1>1. /\ c \in Text /\ Len(c) = 4
      /\ c[1] = "CR" /\ c[2] = "LF" /\ c[3] = "CR" /\ c[4] = "LF"
  BY TwoLineEnds
<1>2. /\ b \in Text /\ s \in Text /\ Len(b) <= Len(s) /\ (\A j \in 1 .. Len(b) : b[j] = s[j])
      /\ Len(b) \in Nat /\ Len(s) \in Nat
  BY TextFacts DEF BeginningOf
<1>3. o \in Nat /\ o >= 1 /\ \A j \in 1 .. 3 * m + 2 : s[o + 4 + j] = H[j]
  BY <1>2 DEF PartIsAt
<1>4. /\ \A k \in 1 .. m : H[3 * k - 2] = h[k] /\ H[3 * k - 1] = "CR" /\ H[3 * k] = "LF"
      /\ H[3 * m + 1] = "CR" /\ H[3 * m + 2] = "LF"
      /\ m \in Nat /\ m >= 1
  <2>1. m \in Nat
    BY TextFacts DEF PartOf
  <2>2. /\ H[3 * m + 1] = "CR" /\ H[3 * m + 2] = "LF"
        /\ \A k \in 1 .. m : H[3 * k - 2] = h[m - m + k] /\ H[3 * k - 1] = "CR" /\ H[3 * k] = "LF"
    BY HeadersAre DEF HeaderLines
  <2>3. \A k \in 1 .. m : m - m + k = k
    BY <2>1
  <2>. QED
    BY <2>1, <2>2, <2>3
<1>5. \A k \in 1 .. m : h[k] # "CR" /\ h[k] # "LF"
  BY DEF PartOf
<1>6. x \in Nat /\ x >= o + 5 /\ x <= o + 3 * m + 3
  OBVIOUS
<1> HIDE DEF m, H, h, c
<1>7. OccursAt(c, b, x) <=> x + 4 <= Len(b) + 1 /\ \A j \in 1 .. 4 : b[x + j - 1] = c[j]
  <2>1. x >= 1 /\ Len(c) >= 1
    BY <1>1, <1>3, <1>6
  <2>2. OccursAt(c, b, x) <=> x + Len(c) <= Len(b) + 1 /\ \A j \in 1 .. Len(c) : b[x + j - 1] = c[j]
    BY <1>1, <1>2, <1>6, <2>1, OccursWhere
  <2>. QED
    BY <1>1, <2>2
<1>8. OccursAt(c, b, x) <=> /\ x + 3 <= Len(b)
                            /\ s[x] = "CR" /\ s[x + 1] = "LF" /\ s[x + 2] = "CR" /\ s[x + 3] = "LF"
  <2>1. x + 4 <= Len(b) + 1 <=> x + 3 <= Len(b)
    BY <1>2, <1>6
  <2>2. ASSUME x + 3 <= Len(b)
        PROVE  (\A j \in 1 .. 4 : b[x + j - 1] = c[j])
                 <=> /\ s[x] = "CR" /\ s[x + 1] = "LF"
                     /\ s[x + 2] = "CR" /\ s[x + 3] = "LF"
    <3>1. x \in 1 .. Len(b) /\ x + 1 \in 1 .. Len(b) /\ x + 2 \in 1 .. Len(b) /\ x + 3 \in 1 .. Len(b)
      BY <1>2, <1>3, <1>6, <2>2
    <3>2. b[x] = s[x] /\ b[x + 1] = s[x + 1] /\ b[x + 2] = s[x + 2] /\ b[x + 3] = s[x + 3]
      BY <1>2, <3>1
    <3>3. x + 1 - 1 = x /\ x + 2 - 1 = x + 1 /\ x + 3 - 1 = x + 2 /\ x + 4 - 1 = x + 3
      BY <1>6
    <3>4. (\A j \in 1 .. 4 : b[x + j - 1] = c[j])
            <=> /\ b[x + 1 - 1] = c[1] /\ b[x + 2 - 1] = c[2]
                /\ b[x + 3 - 1] = c[3] /\ b[x + 4 - 1] = c[4]
      <4>1. \A j : j \in 1 .. 4 <=> j = 1 \/ j = 2 \/ j = 3 \/ j = 4
        OBVIOUS
      <4>. QED
        BY <4>1, ZenonT(40)
    <3>. QED
      BY <1>1, <3>2, <3>3, <3>4
  <2>. QED
    BY <1>7, <2>1, <2>2
<1>9. ASSUME x = o + 3 * m + 3
      PROVE  s[x] = "CR" /\ s[x + 1] = "LF" /\ s[x + 2] = "CR" /\ s[x + 3] = "LF"
  <2>1. /\ 3 * m - 1 \in 1 .. 3 * m + 2 /\ 3 * m \in 1 .. 3 * m + 2
        /\ 3 * m + 1 \in 1 .. 3 * m + 2 /\ 3 * m + 2 \in 1 .. 3 * m + 2 /\ m \in 1 .. m
    BY <1>4
  <2>2. /\ x = o + 4 + (3 * m - 1) /\ x + 1 = o + 4 + 3 * m
        /\ x + 2 = o + 4 + (3 * m + 1) /\ x + 3 = o + 4 + (3 * m + 2)
    BY <1>3, <1>4, <1>9
  <2>3. /\ s[o + 4 + (3 * m - 1)] = H[3 * m - 1] /\ s[o + 4 + 3 * m] = H[3 * m]
        /\ s[o + 4 + (3 * m + 1)] = H[3 * m + 1] /\ s[o + 4 + (3 * m + 2)] = H[3 * m + 2]
    BY <1>3, <2>1
  <2>4. H[3 * m - 1] = "CR" /\ H[3 * m] = "LF" /\ H[3 * m + 1] = "CR" /\ H[3 * m + 2] = "LF"
    BY <1>4, <2>1
  <2>. QED
    BY <2>2, <2>3, <2>4
<1>10. ASSUME x # o + 3 * m + 3, s[x] = "CR", s[x + 2] = "CR" PROVE FALSE
  <2> DEFINE j == x - o - 4
  <2>1. j \in Nat /\ j >= 1 /\ j <= 3 * m - 2 /\ j + 2 \in 1 .. 3 * m + 2 /\ j \in 1 .. 3 * m + 2
        /\ x = o + 4 + j /\ x + 2 = o + 4 + (j + 2)
    BY <1>3, <1>4, <1>6, <1>10
  <2>2. s[o + 4 + j] = H[j] /\ s[o + 4 + (j + 2)] = H[j + 2]
    BY <1>3, <2>1
  <2>3. H[j] = "CR" /\ H[j + 2] = "CR"
    BY <1>10, <2>1, <2>2
  <2> HIDE DEF j
  <2>4. PICK k \in Nat : k >= 1 /\ (j = 3 * k - 2 \/ j = 3 * k - 1 \/ j = 3 * k)
    BY <2>1, ThreePlaces
  <2>5. k \in 1 .. m
    BY <1>4, <2>1, <2>4
  <2>6. H[3 * k - 2] = h[k] /\ H[3 * k - 1] = "CR" /\ H[3 * k] = "LF" /\ h[k] # "CR"
    BY <1>4, <1>5, <2>5
  <2>7. j = 3 * k - 1
    BY <2>3, <2>4, <2>6
  <2>8. k + 1 \in 1 .. m /\ j + 2 = 3 * (k + 1) - 2
    BY <1>4, <2>1, <2>5, <2>7
  <2>9. H[3 * (k + 1) - 2] = h[k + 1] /\ h[k + 1] # "CR"
    BY <1>4, <1>5, <2>8
  <2>. QED
    BY <2>3, <2>8, <2>9
<1>11. OccursAt(c, b, x) <=> x = o + 3 * m + 3 /\ x + 3 <= Len(b)
  BY <1>8, <1>9, <1>10
<1>. QED
  BY <1>11 DEF c, m

\* The next boundary is where the data of a part ends, and nowhere before.
LEMMA NextBoundaryAt ==
  ASSUME NEW p, PartOf(p), NEW s, NEW o, NEW r, PartIsAt(p, s, o, r),
         NEW b, BeginningOf(b, s), NEW x \in Nat, x >= o + 3 * Len(p.headers) + 7,
         x <= o + 3 * Len(p.headers) + Len(p.data) + 9
  PROVE  BoundaryAt(b, x)
           <=> x = o + 3 * Len(p.headers) + Len(p.data) + 9 /\ x + 2 <= Len(b)
<1> DEFINE m == Len(p.headers)
           n == Len(p.data)
           D == o + 3 * m + 7
           w == [j \in 1 .. n + 7 |-> s[D - 3 + j]]
           q == CRLF \o p.data
<1>1. /\ BoundaryLine \in Text /\ Len(BoundaryLine) = 3
      /\ BoundaryLine[1] = "-" /\ BoundaryLine[2] = "-" /\ BoundaryLine[3] = "b"
      /\ CRLF \in Text /\ Len(CRLF) = 2 /\ CRLF[1] = "CR" /\ CRLF[2] = "LF"
  BY Constants
<1>2. /\ Marker[1] = "CR" /\ Marker[2] = "LF" /\ Marker[3] = "-" /\ Marker[4] = "-" /\ Marker[5] = "b"
  BY MarkerIs
<1>3. /\ b \in Text /\ s \in Text /\ Len(b) <= Len(s) /\ (\A j \in 1 .. Len(b) : b[j] = s[j])
      /\ Len(b) \in Nat /\ Len(s) \in Nat
  BY TextFacts DEF BeginningOf
<1>4. /\ o \in Nat /\ o >= 1
      /\ \A j \in 1 .. 3 * m + 2 : s[o + 4 + j] = Headers(p, 0)[j]
      /\ \A j \in 1 .. n : s[o + 3 * m + 6 + j] = p.data[j]
      /\ \A a \in 1 .. 5 : s[o + 3 * m + n + 6 + a] = Marker[a]
  BY <1>3 DEF PartIsAt
<1>5. m \in Nat /\ n \in Nat /\ p.data \in Text
  BY TextFacts DEF PartOf
<1>6. Headers(p, 0)[3 * m + 1] = "CR" /\ Headers(p, 0)[3 * m + 2] = "LF"
  BY HeadersAre DEF HeaderLines
<1>7. x \in Nat /\ x >= D /\ x <= o + 3 * m + n + 9
  OBVIOUS
<1>8. /\ \A j \in 1 .. 2 : q[j] = CRLF[j]
      /\ \A j \in 1 .. n : q[2 + j] = p.data[j]
  <2> DEFINE c == CRLF
             d == p.data
  <2>1. c \in Text /\ d \in Text /\ Len(c) = 2 /\ Len(d) = n
    BY <1>1, <1>5
  <2>2. /\ \A j \in 1 .. Len(c) : (c \o d)[j] = c[j]
        /\ \A j \in 1 .. Len(d) : (c \o d)[Len(c) + j] = d[j]
    <3> HIDE DEF c, d
    <3>. QED
      BY <2>1, JoinFacts
  <2>. QED
    BY <2>1, <2>2
<1> HIDE DEF m, n, q
<1>9. D \in Nat /\ D >= 8 /\ D = o + 3 * m + 7
  BY <1>4, <1>5
<1>10. ASSUME NEW i \in 1 .. n + 2 PROVE w[i] = q[i]
  <2>1. i \in 1 .. n + 7 /\ i \in Nat
    BY <1>5
  <2>2. w[i] = s[D - 3 + i]
    BY <2>1
  <2>3. CASE i = 1
    <3>1. D - 3 + i = o + 4 + (3 * m + 1) /\ 3 * m + 1 \in 1 .. 3 * m + 2 /\ i \in 1 .. 2
      BY <1>4, <1>5, <2>3
    <3>2. s[o + 4 + (3 * m + 1)] = "CR"
      BY <1>4, <1>6, <3>1
    <3>. QED
      BY <1>1, <1>8, <2>2, <2>3, <3>1, <3>2
  <2>4. CASE i = 2
    <3>1. D - 3 + i = o + 4 + (3 * m + 2) /\ 3 * m + 2 \in 1 .. 3 * m + 2 /\ i \in 1 .. 2
      BY <1>4, <1>5, <2>4
    <3>2. s[o + 4 + (3 * m + 2)] = "LF"
      BY <1>4, <1>6, <3>1
    <3>. QED
      BY <1>1, <1>8, <2>2, <2>4, <3>1, <3>2
  <2>5. CASE i > 2
    <3>1. i - 2 \in 1 .. n /\ D - 3 + i = o + 3 * m + 6 + (i - 2) /\ 2 + (i - 2) = i
      BY <1>4, <1>5, <2>1, <2>5
    <3>2. s[o + 3 * m + 6 + (i - 2)] = p.data[i - 2] /\ q[2 + (i - 2)] = p.data[i - 2]
      BY <1>4, <1>8, <3>1
    <3>. QED
      BY <2>2, <3>1, <3>2
  <2>. QED
    BY <2>1, <2>3, <2>4, <2>5
<1>11. ASSUME NEW a \in 1 .. 5 PROVE w[n + 2 + a] = Marker[a]
  <2>1. n + 2 + a \in 1 .. n + 7 /\ D - 3 + (n + 2 + a) = o + 3 * m + n + 6 + a
    <3>1. 3 * m \in Nat
      BY <1>5
    <3> DEFINE z == 3 * m
    <3>2. z \in Nat /\ D = o + z + 7
      BY <3>1
    <3> HIDE DEF z, D
    <3>3. n + 2 + a \in 1 .. n + 7 /\ D - 3 + (n + 2 + a) = o + z + n + 6 + a
      BY <1>4, <1>5, <3>2
    <3>. QED
      BY <3>3 DEF z
  <2>2. w[n + 2 + a] = s[D - 3 + (n + 2 + a)]
    BY <2>1
  <2>. QED
    BY <1>4, <2>1, <2>2
<1> DEFINE k == x - D + 1
<1>12. k \in 1 .. n + 3 /\ x = D - 1 + k
  <2> DEFINE z == 3 * m
  <2>1. /\ z \in Int /\ D \in Int /\ x \in Int /\ o \in Int /\ n \in Int
        /\ D = o + z + 7 /\ x >= D /\ x <= o + z + n + 9
    BY <1>4, <1>5, <1>7, <1>9
  <2>2. \A g, h, y, t, v \in Int :
          g = h + y + 7 /\ t >= g /\ t <= h + y + v + 9
          => t - g + 1 \in 1 .. v + 3 /\ t = g - 1 + (t - g + 1)
    OBVIOUS
  <2> HIDE DEF z, D
  <2>. QED
    BY <2>1, <2>2
<1>13. MarkerIn(w, k) <=> k = n + 3
  <2> HIDE DEF w, k
  <2>. QED
    BY <1>10, <1>11, <1>12, MarkerOnce DEF n, q
<1>14. MarkerIn(w, k) <=> /\ s[x - 2] = "CR" /\ s[x - 1] = "LF"
                          /\ s[x] = "-" /\ s[x + 1] = "-" /\ s[x + 2] = "b"
  <2>1. /\ k \in 1 .. n + 7 /\ k + 1 \in 1 .. n + 7 /\ k + 2 \in 1 .. n + 7
        /\ k + 3 \in 1 .. n + 7 /\ k + 4 \in 1 .. n + 7
    BY <1>5, <1>12, SMTT(60)
  <2>2. /\ D - 3 + k = x - 2 /\ D - 3 + (k + 1) = x - 1 /\ D - 3 + (k + 2) = x
        /\ D - 3 + (k + 3) = x + 1 /\ D - 3 + (k + 4) = x + 2
    <3>1. D \in Int /\ x \in Int
      BY <1>7, <1>9
    <3> HIDE DEF D
    <3>2. \A y, z \in Int : /\ z - 3 + (y - z + 1) = y - 2 /\ z - 3 + (y - z + 1 + 1) = y - 1
                            /\ z - 3 + (y - z + 1 + 2) = y /\ z - 3 + (y - z + 1 + 3) = y + 1
                            /\ z - 3 + (y - z + 1 + 4) = y + 2
      OBVIOUS
    <3>. QED
      BY <3>1, <3>2
  <2>3. /\ w[k] = s[x - 2] /\ w[k + 1] = s[x - 1] /\ w[k + 2] = s[x]
        /\ w[k + 3] = s[x + 1] /\ w[k + 4] = s[x + 2]
    <3> HIDE DEF k, D
    <3>1. /\ w[k] = s[D - 3 + k] /\ w[k + 1] = s[D - 3 + (k + 1)] /\ w[k + 2] = s[D - 3 + (k + 2)]
          /\ w[k + 3] = s[D - 3 + (k + 3)] /\ w[k + 4] = s[D - 3 + (k + 4)]
      BY <2>1
    <3>. QED
      BY <2>2, <3>1
  <2>4. k + 1 - 1 = k /\ k + 2 - 1 = k + 1 /\ k + 3 - 1 = k + 2 /\ k + 4 - 1 = k + 3 /\ k + 5 - 1 = k + 4
    BY <1>12
  <2> HIDE DEF w, k
  <2>5. MarkerIn(w, k) <=> /\ w[k + 1 - 1] = Marker[1] /\ w[k + 2 - 1] = Marker[2]
                           /\ w[k + 3 - 1] = Marker[3] /\ w[k + 4 - 1] = Marker[4]
                           /\ w[k + 5 - 1] = Marker[5]
    <3>1. \A j : j \in 1 .. 5 <=> j = 1 \/ j = 2 \/ j = 3 \/ j = 4 \/ j = 5
      OBVIOUS
    <3>. QED
      BY <3>1, ZenonT(40) DEF MarkerIn
  <2>. QED
    BY <1>2, <2>3, <2>4, <2>5
<1>15. k = n + 3 <=> x = o + 3 * m + n + 9
  <2> DEFINE z == 3 * m
  <2>1. z \in Int /\ D \in Int /\ D = o + z + 7
    BY <1>5, <1>9
  <2> HIDE DEF z, D
  <2>2. x \in Int /\ o \in Int /\ n \in Int
    BY <1>4, <1>5, <1>7
  <2>3. \A g, h, y, t, v \in Int :
          g = h + y + 7 => (t - g + 1 = v + 3 <=> t = h + y + v + 9)
    OBVIOUS
  <2>4. x - D + 1 = n + 3 <=> x = o + z + n + 9
    BY <2>1, <2>2, <2>3
  <2>. QED
    BY <2>4 DEF z
<1> HIDE DEF D, w, k
<1>16. x - 2 \in Nat /\ x - 2 >= 1 /\ x >= 1
  BY <1>7, <1>9
<1>17. OccursAt(BoundaryLine, b, x)
         <=> x + 2 <= Len(b) /\ s[x] = "-" /\ s[x + 1] = "-" /\ s[x + 2] = "b"
  <2>1. OccursAt(BoundaryLine, b, x)
          <=> x + 3 <= Len(b) + 1 /\ \A j \in 1 .. 3 : b[x + j - 1] = BoundaryLine[j]
    <3> DEFINE B == BoundaryLine
    <3>1. B \in Text /\ Len(B) = 3 /\ Len(B) >= 1
      BY <1>1
    <3> HIDE DEF B
    <3>2. OccursAt(B, b, x) <=> x + Len(B) <= Len(b) + 1 /\ \A j \in 1 .. Len(B) : b[x + j - 1] = B[j]
      BY <1>3, <1>7, <1>16, <3>1, OccursWhere
    <3>. QED
      BY <3>1, <3>2 DEF B
  <2>2. x + 3 <= Len(b) + 1 <=> x + 2 <= Len(b)
    BY <1>3, <1>7
  <2>3. ASSUME x + 2 <= Len(b)
        PROVE  (\A j \in 1 .. 3 : b[x + j - 1] = BoundaryLine[j])
                 <=> s[x] = "-" /\ s[x + 1] = "-" /\ s[x + 2] = "b"
    <3>1. x \in 1 .. Len(b) /\ x + 1 \in 1 .. Len(b) /\ x + 2 \in 1 .. Len(b)
      BY <1>3, <1>7, <1>16, <2>3
    <3>2. b[x] = s[x] /\ b[x + 1] = s[x + 1] /\ b[x + 2] = s[x + 2]
      BY <1>3, <3>1
    <3>3. x + 1 - 1 = x /\ x + 2 - 1 = x + 1 /\ x + 3 - 1 = x + 2
      BY <1>7
    <3>4. (\A j \in 1 .. 3 : b[x + j - 1] = BoundaryLine[j])
            <=> /\ b[x + 1 - 1] = BoundaryLine[1] /\ b[x + 2 - 1] = BoundaryLine[2]
                /\ b[x + 3 - 1] = BoundaryLine[3]
      <4>1. \A j : j \in 1 .. 3 <=> j = 1 \/ j = 2 \/ j = 3
        OBVIOUS
      <4>. QED
        BY <4>1, ZenonT(40)
    <3>. QED
      BY <1>1, <3>2, <3>3, <3>4
  <2>. QED
    BY <2>1, <2>2, <2>3
<1>18. ASSUME x + 2 <= Len(b) PROVE OccursAt(CRLF, b, x - 2) <=> s[x - 2] = "CR" /\ s[x - 1] = "LF"
  <2> DEFINE y == x - 2
  <2>1. y \in Nat /\ y >= 1 /\ y + 1 = x - 1 /\ y + 2 <= Len(b) + 1
    BY <1>3, <1>7, <1>16, <1>18
  <2> HIDE DEF y
  <2>2. OccursAt(CRLF, b, y) <=> y + 2 <= Len(b) + 1 /\ \A j \in 1 .. 2 : b[y + j - 1] = CRLF[j]
    <3> DEFINE C == CRLF
    <3>1. C \in Text /\ Len(C) = 2 /\ Len(C) >= 1
      BY <1>1
    <3> HIDE DEF C
    <3>2. OccursAt(C, b, y) <=> y + Len(C) <= Len(b) + 1 /\ \A j \in 1 .. Len(C) : b[y + j - 1] = C[j]
      BY <1>3, <2>1, <3>1, OccursWhere
    <3>. QED
      BY <3>1, <3>2 DEF C
  <2>3. y \in 1 .. Len(b) /\ y + 1 \in 1 .. Len(b)
    BY <1>3, <2>1
  <2>4. b[y] = s[y] /\ b[y + 1] = s[y + 1]
    BY <1>3, <2>3
  <2>5. y + 1 - 1 = y /\ y + 2 - 1 = y + 1
    BY <2>1
  <2>6. (\A j \in 1 .. 2 : b[y + j - 1] = CRLF[j]) <=> b[y + 1 - 1] = CRLF[1] /\ b[y + 2 - 1] = CRLF[2]
    <3>1. \A j : j \in 1 .. 2 <=> j = 1 \/ j = 2
      OBVIOUS
    <3>. QED
      BY <3>1, ZenonT(40)
  <2>7. OccursAt(CRLF, b, y) <=> s[y] = "CR" /\ s[y + 1] = "LF"
    BY <1>1, <2>1, <2>2, <2>4, <2>5, <2>6
  <2>. QED
    BY <2>1, <2>7 DEF y
<1>19. BoundaryAt(b, x) <=> x = o + 3 * m + n + 9 /\ x + 2 <= Len(b)
  BY <1>13, <1>14, <1>15, <1>17, <1>18 DEF BoundaryAt
<1>. QED
  BY <1>19 DEF m, n

\* What the reader from memory finds at a boundary is the part that was written there,
\* or none when the next boundary is not in the body.
LEMMA PartFound ==
  ASSUME NEW p, PartOf(p), Len(p.headers) >= 1, NEW s, NEW o, NEW r, PartIsAt(p, s, o, r),
         NEW b, BeginningOf(b, s)
  PROVE  PartAt(b, o) = IF o + 3 * Len(p.headers) + Len(p.data) + 11 <= Len(b)
                        THEN [next |-> o + 3 * Len(p.headers) + Len(p.data) + 9,
                              disposition |-> Meant(p), data |-> p.data]
                        ELSE NoPart
<1> DEFINE m == Len(p.headers)
           n == Len(p.data)
           H == Headers(p, 0)
           e == o + 3 * m + 3
           N == o + 3 * m + n + 9
           start == o + Len(BoundaryLine)
           ends == {i \in start + 2 .. Len(b) : OccursAt(CRLF \o CRLF, b, i)}
           data == Min(ends) + 4
           nexts == {i \in data .. Len(b) : BoundaryAt(b, i)}
           headers == IF OccursAt(CRLF, b, start + 2) THEN <<>>
                      ELSE SubSeq(b, start + 2, Min(ends) - 1)
           found == /\ OccursAt(BoundaryLine, b, o)
                    /\ OccursAt(CRLF, b, start)
                    /\ ends # {}
                    /\ nexts # {}
<1>1. PartAt(b, o) = IF found
                     THEN [next |-> Min(nexts), data |-> SubSeq(b, data, Min(nexts) - 3),
                           disposition |-> LastDisposition(headers)]
                     ELSE NoPart
  BY DEF PartAt
<1>2. /\ BoundaryLine \in Text /\ Len(BoundaryLine) = 3
      /\ CRLF \in Text /\ Len(CRLF) = 2 /\ CRLF[1] = "CR" /\ CRLF[2] = "LF"
  BY Constants
<1>3. /\ b \in Text /\ s \in Text /\ Len(b) <= Len(s) /\ (\A j \in 1 .. Len(b) : b[j] = s[j])
      /\ Len(b) \in Nat /\ Len(s) \in Nat
  BY TextFacts DEF BeginningOf
<1>4. /\ o \in Nat /\ o >= 1
      /\ \A a \in 1 .. 3 : s[o + a - 1] = BoundaryLine[a]
      /\ s[o + 3] = "CR" /\ s[o + 4] = "LF"
      /\ \A j \in 1 .. 3 * m + 2 : s[o + 4 + j] = H[j]
      /\ \A j \in 1 .. n : s[o + 3 * m + 6 + j] = p.data[j]
  BY <1>3 DEF PartIsAt
<1>5. m \in Nat /\ m >= 1 /\ n \in Nat /\ p.data \in Text /\ 3 * m \in Nat /\ 3 * m >= 3
  <2>1. m \in Nat /\ m >= 1 /\ n \in Nat /\ p.data \in Text
    BY TextFacts DEF PartOf
  <2>. QED
    BY <2>1
<1>6. ASSUME NEW x \in Nat, x >= o + 5, x <= e
      PROVE  OccursAt(CRLF \o CRLF, b, x) <=> x = e /\ x + 3 <= Len(b)
  BY <1>6, HeadersEndAt
<1>7. ASSUME NEW x \in Nat, x >= e + 4, x <= N
      PROVE  BoundaryAt(b, x) <=> x = N /\ x + 2 <= Len(b)
  <2>1. x >= o + 3 * m + 7
    BY <1>4, <1>5, <1>7
  <2>. QED
    BY <1>7, <2>1, NextBoundaryAt
<1>8. H[3 * 1 - 2] = p.headers[1] /\ p.headers[1] # "CR"
  <2>1. \A k \in 1 .. m : H[3 * k - 2] = p.headers[m - m + k]
    BY HeadersAre DEF HeaderLines
  <2>2. 1 \in 1 .. m /\ m - m + 1 = 1
    BY <1>5
  <2>. QED
    BY <2>1, <2>2 DEF PartOf
<1> HIDE DEF found, headers
<1>9. start = o + 3 /\ start + 2 = o + 5 /\ e = o + 3 * m + 3 /\ N = e + n + 6 /\ e \in Nat /\ N \in Nat
      /\ e >= o + 6 /\ N = o + 3 * m + n + 9
  <2> DEFINE z == 3 * m
  <2>1. z \in Nat /\ z >= 3 /\ e = o + z + 3 /\ N = o + z + n + 9
    BY <1>5
  <2>2. start = o + 3 /\ start + 2 = o + 5
    BY <1>2, <1>4
  <2> HIDE DEF z, e, N, start
  <2>3. N = e + n + 6 /\ e \in Nat /\ N \in Nat /\ e >= o + 6
    <3>1. \A a, x, y \in Nat : x >= 3 =>
            /\ a + x + y + 9 = (a + x + 3) + y + 6 /\ a + x + 3 \in Nat
            /\ a + x + y + 9 \in Nat /\ a + x + 3 >= a + 6
      OBVIOUS
    <3>2. /\ o + z + n + 9 = (o + z + 3) + n + 6 /\ o + z + 3 \in Nat
          /\ o + z + n + 9 \in Nat /\ o + z + 3 >= o + 6
      BY <1>4, <1>5, <2>1, <3>1
    <3>. QED
      BY <2>1, <3>2
  <2>. QED
    BY <2>1, <2>2, <2>3 DEF z
<1>14. m = Len(p.headers) /\ H = Headers(p, 0) /\ n = Len(p.data)
  OBVIOUS
<1> HIDE DEF m, n, H, start, e, N
<1>10. CASE ends = {}
  <2>1. ~(N + 2 <= Len(b))
    <3>1. SUFFICES ASSUME N + 2 <= Len(b) PROVE FALSE
      OBVIOUS
    <3>2. e \in start + 2 .. Len(b) /\ e + 3 <= Len(b) /\ e >= o + 5 /\ e <= e
      BY <1>3, <1>4, <1>5, <1>9, <3>1
    <3>3. OccursAt(CRLF \o CRLF, b, e)
      BY <1>6, <1>9, <3>2
    <3>. QED
      BY <1>10, <3>2, <3>3
  <2>2. ~found
    BY <1>10 DEF found
  <2>3. ~(o + 3 * m + n + 11 <= Len(b))
    BY <1>3, <1>4, <1>5, <1>9, <2>1
  <2>. QED
    BY <1>1, <1>14, <2>2, <2>3
<1>11. CASE ends # {}
  <2>1. ends \subseteq Nat
    BY <1>3, <1>4, <1>9
  <2>2. \A x \in ends : e <= x /\ e + 3 <= Len(b)
    <3>1. SUFFICES ASSUME NEW x \in ends PROVE e <= x /\ e + 3 <= Len(b)
      OBVIOUS
    <3>2. x \in Nat /\ x >= o + 5 /\ x <= Len(b) /\ OccursAt(CRLF \o CRLF, b, x)
      BY <1>4, <1>9, <2>1
    <3>3. CASE x <= e
      <4>1. x = e /\ x + 3 <= Len(b)
        BY <1>6, <3>2, <3>3
      <4>. QED
        BY <1>9, <4>1
    <3>4. CASE ~(x <= e)
      <4>1. x + 4 <= Len(b) + 1
        <5> DEFINE cc == CRLF \o CRLF
        <5>1. cc \in Text /\ Len(cc) = 4 /\ Len(cc) >= 1
          BY TwoLineEnds
        <5>2. OccursAt(cc, b, x) /\ x \in Nat /\ x >= 1
          BY <1>4, <3>2
        <5> HIDE DEF cc
        <5>3. x + Len(cc) <= Len(b) + 1
          BY <1>3, <5>1, <5>2, OccursWhere
        <5>. QED
          BY <5>1, <5>3
      <4>. QED
        BY <1>3, <1>9, <3>2, <3>4, <4>1
    <3>. QED
      BY <3>3, <3>4
  <2>3. e + 3 <= Len(b)
    BY <1>11, <2>2
  <2>4. e \in ends
    <3>1. e \in start + 2 .. Len(b) /\ e >= o + 5 /\ e <= e
      BY <1>3, <1>4, <1>9, <2>3, SMTT(60)
    <3>2. OccursAt(CRLF \o CRLF, b, e)
      BY <1>6, <1>9, <2>3, <3>1
    <3>. QED
      BY <3>1, <3>2
  <2>5. Min(ends) = e
    <3> HIDE DEF ends
    <3>. QED
      BY <2>1, <2>2, <2>4, MinIs
  <2>6. data = e + 4
    BY <2>5
  <2> HIDE DEF ends, data
  <2>7. CASE ~(N + 2 <= Len(b))
    <3>1. nexts = {}
      <4>1. SUFFICES ASSUME NEW x \in nexts PROVE FALSE
        OBVIOUS
      <4>2. x \in Nat /\ x >= e + 4 /\ x <= Len(b) /\ BoundaryAt(b, x)
        BY <1>9, <2>6
      <4>3. CASE x <= N
        BY <1>7, <2>7, <4>2, <4>3
      <4>4. CASE ~(x <= N)
        <5>1. OccursAt(BoundaryLine, b, x) /\ x >= 1
          BY <1>9, <4>2 DEF BoundaryAt
        <5> DEFINE B == BoundaryLine
        <5>2. B \in Text /\ Len(B) = 3 /\ Len(B) >= 1 /\ OccursAt(B, b, x)
          BY <1>2, <5>1
        <5> HIDE DEF B
        <5>3. x + Len(B) <= Len(b) + 1
          BY <1>3, <4>2, <5>1, <5>2, OccursWhere
        <5>. QED
          BY <1>3, <1>9, <2>7, <4>2, <4>4, <5>2, <5>3, SMTT(60)
      <4>. QED
        BY <4>3, <4>4
    <3>2. ~found
      BY <3>1 DEF found
    <3>3. ~(o + 3 * m + n + 11 <= Len(b))
      BY <1>3, <1>4, <1>5, <1>9, <2>7
    <3>. QED
      BY <1>1, <1>14, <3>2, <3>3
  <2>8. CASE N + 2 <= Len(b)
    <3>1. N \in nexts
      <4>1. N >= e + 4 /\ N <= N
        BY <1>5, <1>9
      <4>2. BoundaryAt(b, N)
        BY <1>7, <1>9, <2>8, <4>1
      <4>3. N \in data .. Len(b)
        BY <1>3, <1>9, <2>6, <2>8, <4>1
      <4>. QED
        BY <4>2, <4>3
    <3>2. nexts \subseteq Nat
      BY <1>3, <1>9, <2>6
    <3>3. \A x \in nexts : N <= x
      <4>1. SUFFICES ASSUME NEW x \in nexts, ~(N <= x) PROVE FALSE
        OBVIOUS
      <4>2. x \in Nat /\ x >= e + 4 /\ x <= N /\ BoundaryAt(b, x)
        BY <1>9, <2>6, <4>1
      <4>3. x = N
        BY <1>7, <4>2
      <4>. QED
        BY <1>9, <4>1, <4>3
    <3>4. Min(nexts) = N
      <4> HIDE DEF nexts
      <4>. QED
        BY <3>1, <3>2, <3>3, MinIs
    <3>5. nexts # {}
      BY <3>1
    <3> HIDE DEF nexts
    <3>6. OccursAt(BoundaryLine, b, o)
      <4> DEFINE B == BoundaryLine
      <4>1. B \in Text /\ Len(B) = 3 /\ Len(B) >= 1 /\ \A a \in 1 .. 3 : s[o + a - 1] = B[a]
        BY <1>2, <1>4
      <4> HIDE DEF B
      <4>2. o + Len(B) <= Len(b) + 1
        BY <1>3, <1>4, <1>9, <2>3, <4>1
      <4>3. ASSUME NEW a \in 1 .. Len(B) PROVE b[o + a - 1] = B[a]
        <5>1. a \in 1 .. 3 /\ o + a - 1 \in 1 .. Len(b)
          BY <1>3, <1>4, <4>1, <4>2
        <5>. QED
          BY <1>3, <4>1, <5>1
      <4>4. OccursAt(B, b, o)
        BY <1>3, <1>4, <4>1, <4>2, <4>3, OccursWhere
      <4>. QED
        BY <4>4 DEF B
    <3>7. OccursAt(CRLF, b, start)
      <4> DEFINE B == CRLF
      <4>1. B \in Text /\ Len(B) = 2 /\ Len(B) >= 1 /\ B[1] = "CR" /\ B[2] = "LF"
        BY <1>2
      <4> HIDE DEF B
      <4>2. start + Len(B) <= Len(b) + 1 /\ start \in Nat /\ start >= 1
        BY <1>3, <1>4, <1>9, <2>3, <4>1, SMTT(60)
      <4>3. b[o + 3] = "CR" /\ b[o + 4] = "LF"
        <5>1. o + 3 \in 1 .. Len(b) /\ o + 4 \in 1 .. Len(b)
          BY <1>3, <1>4, <1>9, <2>3, SMTT(60)
        <5>. QED
          BY <1>3, <1>4, <5>1
      <4>4. ASSUME NEW a \in 1 .. Len(B) PROVE b[start + a - 1] = B[a]
        <5>1. a = 1 \/ a = 2
          BY <4>1
        <5>2. start + 1 - 1 = o + 3 /\ start + 2 - 1 = o + 4
          BY <1>4, <1>9
        <5>. QED
          BY <4>1, <4>3, <5>1, <5>2
      <4>5. OccursAt(B, b, start)
        BY <1>3, <4>1, <4>2, <4>4, OccursWhere
      <4>. QED
        BY <4>5 DEF B
    <3>8. ~OccursAt(CRLF, b, start + 2)
      <4> DEFINE B == CRLF
      <4>1. B \in Text /\ Len(B) = 2 /\ Len(B) >= 1 /\ B[1] = "CR"
        BY <1>2
      <4>2. o + 5 \in Nat /\ o + 5 >= 1 /\ o + 5 \in 1 .. Len(b) /\ 1 \in 1 .. 3 * m + 2
            /\ o + 4 + 1 = o + 5
        BY <1>3, <1>4, <1>5, <1>9, <2>3
      <4>3. b[o + 5] = H[1] /\ H[1] # "CR"
        <5>1. s[o + 4 + 1] = H[1]
          BY <1>4, <4>2
        <5>2. 3 * 1 - 2 = 1
          OBVIOUS
        <5>. QED
          BY <1>3, <1>8, <4>2, <5>1, <5>2
      <4> HIDE DEF B
      <4>4. SUFFICES ASSUME OccursAt(B, b, o + 5) PROVE FALSE
        BY <1>9 DEF B
      <4>5. \A j \in 1 .. Len(B) : b[(o + 5) + j - 1] = B[j]
        BY <1>3, <4>1, <4>2, <4>4, OccursWhere
      <4>6. 1 \in 1 .. Len(B) /\ (o + 5) + 1 - 1 = o + 5
        BY <4>1, <4>2
      <4>7. b[o + 5] = "CR"
        BY <4>1, <4>5, <4>6
      <4>. QED
        BY <4>3, <4>7
    <3>9. found
      BY <1>11, <3>5, <3>6, <3>7 DEF found
    <3>10. headers = SubSeq(b, o + 5, e - 1)
      BY <1>9, <2>5, <3>8 DEF headers
    <3>11. LastDisposition(headers) = Meant(p)
      <4> DEFINE x == SubSeq(b, o + 5, e - 1)
      <4>1. /\ o + 5 \in Nat \ {0} /\ e - 1 \in Nat /\ e - 1 <= Len(b)
            /\ (e - 1) - (o + 5) + 1 = 3 * m - 2 /\ o + 5 <= e - 1
        BY <1>3, <1>4, <1>5, <1>9, <2>3
      <4>2. /\ x \in Text /\ Len(x) = 3 * m - 2
            /\ \A i \in 1 .. 3 * m - 2 : x[i] = b[(o + 5) + i - 1]
        <5> DEFINE k == o + 5
                   l == e - 1
        <5>1. k \in Nat \ {0} /\ l \in Nat /\ l <= Len(b) /\ l - k + 1 = 3 * m - 2 /\ k <= l
          BY <4>1
        <5>2. x = SubSeq(b, k, l)
          OBVIOUS
        <5> HIDE DEF k, l, x
        <5>3. /\ x \in Text /\ Len(x) = l - k + 1 /\ \A i \in 1 .. l - k + 1 : x[i] = b[k + i - 1]
          BY <1>3, <5>1, <5>2, PieceFacts
        <5>. QED
          BY <5>1, <5>3 DEF k
      <4> HIDE DEF x
      <4>3. ASSUME NEW j \in 1 .. Len(x) PROVE x[j] = H[j]
        <5>1. j \in 1 .. 3 * m - 2 /\ j \in 1 .. 3 * m + 2 /\ (o + 5) + j - 1 = o + 4 + j
              /\ o + 4 + j \in 1 .. Len(b)
          <6> DEFINE z == 3 * m
          <6>1. z \in Nat /\ e = o + z + 3 /\ j \in 1 .. z - 2
            BY <1>5, <1>9, <4>2
          <6> HIDE DEF z
          <6>2. /\ j \in 1 .. z - 2 /\ j \in 1 .. z + 2 /\ (o + 5) + j - 1 = o + 4 + j
                /\ o + 4 + j \in 1 .. Len(b)
            BY <1>3, <1>4, <2>3, <6>1
          <6>. QED
            BY <6>2 DEF z
        <5>. QED
          BY <1>3, <1>4, <4>2, <5>1
      <4>4. LastDisposition(x) = Meant(p)
        BY <1>5, <1>14, <4>2, <4>3, SliceMeans
      <4>. QED
        BY <3>10, <4>4 DEF x
    <3>12. SubSeq(b, data, Min(nexts) - 3) = p.data
      <4> DEFINE k == e + 4
                 l == N - 3
                 x == SubSeq(b, k, l)
      <4>1. /\ k \in Nat \ {0} /\ l \in Nat /\ l <= Len(b) /\ l - k + 1 = n
            /\ k = o + 3 * m + 7
        BY <1>3, <1>4, <1>5, <1>9, <2>8
      <4>2. x = SubSeq(b, k, l)
        OBVIOUS
      <4> HIDE DEF k, l, x
      <4>3. /\ x \in Text /\ Len(x) = (IF k <= l THEN l - k + 1 ELSE 0)
            /\ \A i \in 1 .. l - k + 1 : x[i] = b[k + i - 1]
        BY <1>3, <4>1, <4>2, PieceFacts
      <4>4. Len(x) = n
        BY <1>5, <4>1, <4>3
      <4>5. ASSUME NEW j \in 1 .. Len(x) PROVE x[j] = p.data[j]
        <5>1. j \in 1 .. l - k + 1 /\ j \in 1 .. n /\ k + j - 1 \in 1 .. Len(b)
              /\ k + j - 1 = o + 3 * m + 6 + j
          BY <1>3, <1>4, <1>5, <4>1, <4>4
        <5>2. x[j] = b[k + j - 1] /\ b[k + j - 1] = s[k + j - 1]
          BY <1>3, <4>3, <5>1
        <5>3. s[o + 3 * m + 6 + j] = p.data[j]
          BY <1>4, <5>1
        <5>. QED
          BY <5>1, <5>2, <5>3
      <4>6. x = p.data
        <5> DEFINE d == p.data
        <5>1. d \in Text /\ Len(x) = Len(d) /\ \A j \in 1 .. Len(x) : x[j] = d[j]
          BY <1>5, <1>14, <4>4, <4>5
        <5> HIDE DEF d
        <5>2. x = d
          BY <4>3, <5>1, TextEqual
        <5>. QED
          BY <5>2 DEF d
      <4>. QED
        BY <2>6, <3>4, <4>6 DEF x, k, l
    <3>13. o + 3 * m + n + 11 <= Len(b)
      BY <1>3, <1>4, <1>5, <1>9, <2>8
    <3>14. PartAt(b, o) = [next |-> N, data |-> p.data, disposition |-> Meant(p)]
      BY <1>1, <3>4, <3>9, <3>11, <3>12
    <3>. QED
      BY <1>9, <1>14, <3>13, <3>14
  <2>. QED
    BY <2>7, <2>8
<1>. QED
  BY <1>10, <1>11

\* A set of naturals has a least member, which Min picks.
LEMMA MinExists ==
  ASSUME NEW T, T \subseteq Nat, T # {}
  PROVE  Min(T) \in T
<1>1. PICK k \in T : \A m \in T : k <= m
  BY NatMinimum
<1>. QED
  BY <1>1, MinIs

\* What the reader finds is a text of the body, and the place after it a place.
LEMMA PartIsText ==
  ASSUME NEW b \in Text, NEW o \in Nat \ {0}, PartAt(b, o) # NoPart
  PROVE  PartAt(b, o).data \in Text /\ PartAt(b, o).next \in Nat \ {0}
<1> DEFINE start == o + Len(BoundaryLine)
           ends == {i \in start + 2 .. Len(b) : OccursAt(CRLF \o CRLF, b, i)}
           data == Min(ends) + 4
           nexts == {i \in data .. Len(b) : BoundaryAt(b, i)}
           headers == IF OccursAt(CRLF, b, start + 2) THEN <<>>
                      ELSE SubSeq(b, start + 2, Min(ends) - 1)
           found == /\ OccursAt(BoundaryLine, b, o)
                    /\ OccursAt(CRLF, b, start)
                    /\ ends # {}
                    /\ nexts # {}
<1>1. PartAt(b, o) = IF found
                     THEN [next |-> Min(nexts), data |-> SubSeq(b, data, Min(nexts) - 3),
                           disposition |-> LastDisposition(headers)]
                     ELSE NoPart
  BY DEF PartAt
<1>2. found
  BY <1>1
<1>3. Len(BoundaryLine) = 3 /\ Len(b) \in Nat
  BY Constants, TextFacts
<1>4. start = o + 3 /\ start \in Nat /\ ends \subseteq Nat /\ ends # {}
  BY <1>2, <1>3
<1>5. Min(ends) \in ends
  <2> HIDE DEF ends
  <2>. QED
    BY <1>4, MinExists
<1>6. data \in Nat /\ data >= 10 /\ data <= Len(b) + 4
  BY <1>3, <1>4, <1>5
<1>7. nexts \subseteq Nat /\ nexts # {}
  <2> HIDE DEF data
  <2>. QED
    BY <1>2, <1>3, <1>6 DEF found
<1>8. Min(nexts) \in nexts
  <2> HIDE DEF nexts
  <2>. QED
    BY <1>7, MinExists
<1> HIDE DEF found, data, headers
<1>9. Min(nexts) \in Nat /\ Min(nexts) >= 10 /\ Min(nexts) <= Len(b)
  BY <1>3, <1>6, <1>8
<1> HIDE DEF nexts
<1>10. SubSeq(b, data, Min(nexts) - 3) \in Text
  <2> DEFINE n == Min(nexts) - 3
  <2>1. n \in Nat /\ n <= Len(b) /\ data \in Nat \ {0}
    BY <1>3, <1>6, <1>9
  <2> HIDE DEF n
  <2>2. SubSeq(b, data, n) \in Text
    BY <2>1, PieceFacts
  <2>. QED
    BY <2>2 DEF n
<1>11. PartAt(b, o).data = SubSeq(b, data, Min(nexts) - 3) /\ PartAt(b, o).next = Min(nexts)
  <2> DEFINE x == SubSeq(b, data, Min(nexts) - 3)
             y == Min(nexts)
             z == LastDisposition(headers)
  <2>1. PartAt(b, o) = [next |-> y, data |-> x, disposition |-> z]
    BY <1>1, <1>2
  <2> HIDE DEF x, y, z
  <2>2. PartAt(b, o).data = x /\ PartAt(b, o).next = y
    BY <2>1
  <2>. QED
    BY <2>2 DEF x, y
<1>. QED
  BY <1>9, <1>10, <1>11

\* Of a form in memory: the body is a beginning of what was sent.
LEMMA BodyBegins ==
  ASSUME UploadInv, ~streamed
  PROVE  /\ BeginningOf(SubSeq(buffer, 1, remaining), Sent(form))
         /\ Len(SubSeq(buffer, 1, remaining)) = Announced(form)
<1> DEFINE S == Sent(form)
           b == SubSeq(buffer, 1, remaining)
           a == Announced(form)
<1>1. /\ form \in Forms /\ buffer \in Text /\ net \in Text /\ buffer \o net = S
      /\ remaining = a /\ remaining <= Len(buffer)
  BY DEF UploadInv, InBody
<1>2. a \in Nat /\ S \in Text /\ Len(buffer) \in Nat /\ Len(net) \in Nat
  BY <1>1, RestFacts, TextFacts DEF Sizes
<1> HIDE DEF a, S
<1>3. remaining \in 0 .. Len(buffer)
  BY <1>1, <1>2
<1>4. b \in Text /\ Len(b) = remaining /\ \A j \in 1 .. remaining : b[j] = buffer[j]
  BY <1>1, <1>3, SplitFacts
<1>5. Len(buffer \o net) = Len(buffer) + Len(net) /\ \A j \in 1 .. Len(buffer) : (buffer \o net)[j] = buffer[j]
  BY <1>1, JoinFacts
<1>6. Len(b) <= Len(S) /\ \A j \in 1 .. Len(b) : b[j] = S[j]
  <2> HIDE DEF b
  <2>1. Len(b) <= Len(S)
    BY <1>1, <1>2, <1>4, <1>5
  <2>2. ASSUME NEW j \in 1 .. Len(b) PROVE b[j] = S[j]
    <3>1. j \in 1 .. remaining /\ j \in 1 .. Len(buffer)
      BY <1>3, <1>4
    <3>. QED
      BY <1>1, <1>4, <1>5, <3>1
  <2>. QED
    BY <2>1, <2>2
<1>. QED
  BY <1>1, <1>2, <1>4, <1>6 DEF BeginningOf, S, a

\* After the last part's boundary there is no other part.
LEMMA NoPartAtEnd ==
  ASSUME UploadInv, ~streamed, PartReadTo(Len(form.parts))
  PROVE  InMemory = NoPart
<1> DEFINE S == Sent(form)
           B == BoundaryLine
           b == SubSeq(buffer, 1, remaining)
           dd == <<"-", "-">>
           e == form.tail \o NextRequest
           n == Len(form.parts)
<1>1. form \in Forms
  BY DEF UploadInv
<1>2. BeginningOf(b, S)
  BY BodyBegins
<1>3. Rest(form, n) = dd \o e
  BY <1>1, RestFacts
<1>4. dd \in Text /\ dd[1] = "-" /\ e \in Text /\ B \in Text /\ Len(B) = 3 /\ Len(dd) = 2
  <2>1. form.tail \in Text /\ NextRequest \in Text
    BY <1>1, FormParts, Constants
  <2>2. e \in Text
    BY <2>1, JoinFacts
  <2>. QED
    BY <2>2, Constants
<1>5. /\ used \in 1 .. Len(S) /\ From(S, used) = B \o Rest(form, n)
  BY DEF PartReadTo
<1>6. S \in Text /\ Len(S) \in Nat
  BY <1>1, RestFacts, TextFacts DEF Sizes
<1>7. CRLF \in Text /\ Len(CRLF) = 2 /\ CRLF[1] = "CR"
  BY Constants
<1> HIDE DEF S, B, b, dd, e
<1>8. dd \o e \in Text
  BY <1>4, JoinFacts
<1>9. IsAt(S, used, B, dd \o e)
  BY <1>3, <1>4, <1>5, <1>6, <1>8 DEF IsAt
<1>10. used + 3 \in 1 .. Len(S) + 1 /\ From(S, used + 3) = dd \o e
  BY <1>4, <1>9, IsThere DEF ReadAt
<1>11. IsAt(S, used + 3, dd, e)
  BY <1>4, <1>6, <1>10 DEF IsAt
<1>12. \A j \in 1 .. Len(dd) : S[used + 3 + j - 1] = dd[j]
  BY <1>11, IsThere DEF ReadAt
<1>13. S[used + 3] = "-"
  <2>1. used + 3 + 1 - 1 = used + 3 /\ 1 \in 1 .. Len(dd)
    BY <1>4, <1>5
  <2>2. S[used + 3 + 1 - 1] = dd[1]
    BY <1>12, <2>1
  <2>. QED
    BY <1>4, <2>1, <2>2
<1>14. b \in Text /\ Len(b) \in Nat /\ \A j \in 1 .. Len(b) : b[j] = S[j]
  BY <1>2, TextFacts DEF BeginningOf
<1>15. ~OccursAt(CRLF, b, used + Len(B))
  <2> DEFINE C == CRLF
             y == used + Len(B)
  <2>1. C \in Text /\ Len(C) = 2 /\ Len(C) >= 1 /\ C[1] = "CR"
    BY <1>7
  <2>2. y \in Nat /\ y >= 1 /\ y = used + 3 /\ y + 1 - 1 = y
    BY <1>4, <1>5
  <2> HIDE DEF C, y
  <2>3. SUFFICES ASSUME OccursAt(C, b, y) PROVE FALSE
    BY DEF C, y
  <2>4. y + Len(C) <= Len(b) + 1 /\ \A j \in 1 .. Len(C) : b[y + j - 1] = C[j]
    BY <1>14, <2>1, <2>2, <2>3, OccursWhere
  <2>5. y \in 1 .. Len(b) /\ 1 \in 1 .. Len(C)
    BY <1>14, <2>1, <2>2, <2>4
  <2>6. b[y + 1 - 1] = "CR"
    BY <2>1, <2>4, <2>5
  <2>7. b[y] = "-"
    BY <1>13, <1>14, <2>2, <2>5
  <2>. QED
    BY <2>2, <2>6, <2>7
<1>16. PartAt(b, used) = NoPart
  BY <1>15 DEF PartAt, B
<1>. QED
  BY <1>16 DEF InMemory, b

\* After another boundary there is the next part, if its own boundary is in the body.
LEMMA PartInMemory ==
  ASSUME UploadInv, ~streamed, Headed(form), NEW i \in 0 .. Len(form.parts) - 1, PartReadTo(i),
         NEW p, p = form.parts[i + 1]
  PROVE  /\ i + 1 \in 1 .. Len(form.parts) /\ PartOf(p)
         /\ InMemory # NoPart =>
              /\ InMemory.disposition = Meant(p) /\ InMemory.data = p.data
              /\ InMemory.next \in 1 .. Len(Sent(form))
              /\ From(Sent(form), InMemory.next) = BoundaryLine \o Rest(form, i + 1)
         /\ InMemory = NoPart => ~Acceptable(form)
<1> DEFINE S == Sent(form)
           b == SubSeq(buffer, 1, remaining)
           m == Len(p.headers)
           n == Len(p.data)
           r == Rest(form, i + 1)
           N == used + 3 * m + n + 9
<1>1. form \in Forms
  BY DEF UploadInv
<1>2. /\ Len(form.parts) \in Nat /\ DOMAIN form.parts = 1 .. Len(form.parts)
      /\ \A j \in 1 .. Len(form.parts) : PartOf(form.parts[j])
  BY <1>1, FormParts
<1>3. i + 1 \in 1 .. Len(form.parts) /\ (i + 1) - 1 = i
  BY <1>2
<1>4. PartOf(p) /\ p.headers # <<>>
  BY <1>2, <1>3 DEF Headed
<1>5. m \in Nat /\ m >= 1 /\ n \in Nat
  <2>1. p.headers \in Text /\ p.data \in Text
    BY <1>4 DEF PartOf
  <2>. QED
    BY <1>4, <2>1, TextFacts
<1>6. r \in Text /\ Len(r) >= 2 /\ Len(r) \in Nat
  BY <1>1, <1>3, RestLength, TextFacts
<1>7. S \in Text /\ Announced(form) \in Nat /\ Len(S) = Announced(form) + form.cut + 2
  BY <1>1, RestFacts DEF Sizes
<1>8. /\ used \in 1 .. Len(S) /\ From(S, used) = BoundaryLine \o Rest(form, i)
  BY DEF PartReadTo
<1>9. Rest(form, i) = CRLF \o PartText(p, 0, r)
  <2>1. \A j \in 1 .. Len(form.parts) : Rest(form, j - 1) = CRLF \o PartText(form.parts[j], 0, Rest(form, j))
    BY <1>1, RestFacts
  <2>2. Rest(form, (i + 1) - 1) = CRLF \o PartText(form.parts[i + 1], 0, Rest(form, i + 1))
    BY <1>3, <2>1
  <2>. QED
    BY <1>3, <2>2
<1>10. BeginningOf(b, S) /\ Len(b) = Announced(form)
  BY BodyBegins
<1>11. InMemory = PartAt(b, used)
  BY DEF InMemory
<1> HIDE DEF S, b, r
<1>12. PartIsAt(p, S, used, r)
  <2>1. used \in 1 .. Len(S) + 1
    BY <1>7, <1>8, TextFacts
  <2>2. From(S, used) = BoundaryLine \o (CRLF \o PartText(p, 0, r))
    BY <1>8, <1>9
  <2>. QED
    BY <1>4, <1>6, <1>7, <2>1, <2>2, PartPlaces
<1>13. /\ N \in 1 .. Len(S) + 1 /\ From(S, N) = BoundaryLine \o r
       /\ Len(S) + 1 - N = Len(r) + 3
  BY <1>12 DEF PartIsAt
<1>14. PartAt(b, used) = IF used + 3 * m + n + 11 <= Len(b)
                         THEN [next |-> N, disposition |-> Meant(p), data |-> p.data]
                         ELSE NoPart
  BY <1>4, <1>5, <1>10, <1>12, PartFound, SMTT(60)
<1> DEFINE far == used + 3 * m + n + 11 <= Len(b)
<1>15. far <=> N + 2 <= Len(b)
  <2> DEFINE z == 3 * m
  <2>1. z \in Nat /\ used \in Nat
    BY <1>5, <1>7, <1>8, TextFacts
  <2> HIDE DEF z
  <2>2. used + z + n + 11 = (used + z + n + 9) + 2
    BY <1>5, <2>1
  <2>. QED
    BY <2>2 DEF z
<1>16. N \in Nat /\ N >= 1 /\ Len(S) \in Nat /\ Len(b) \in Nat /\ N <= Len(S) + 1
  <2>1. Len(S) \in Nat
    BY <1>7, TextFacts
  <2> HIDE DEF N
  <2>. QED
    BY <1>7, <1>10, <1>13, <2>1
<1> HIDE DEF N, far
<1>17. ASSUME InMemory # NoPart
       PROVE  /\ InMemory.disposition = Meant(p) /\ InMemory.data = p.data
              /\ InMemory.next \in 1 .. Len(S) /\ From(S, InMemory.next) = BoundaryLine \o r
  <2>1. far
    BY <1>11, <1>14, <1>17 DEF far
  <2>2. InMemory = [next |-> N, disposition |-> Meant(p), data |-> p.data]
    BY <1>11, <1>14, <2>1 DEF far
  <2>3. N \in 1 .. Len(S)
    <3>1. Len(b) <= Len(S) /\ N + 2 <= Len(b)
      BY <1>10, <1>15, <2>1 DEF BeginningOf
    <3>. QED
      BY <1>16, <3>1
  <2>. QED
    BY <1>13, <2>2, <2>3
<1>18. ASSUME InMemory = NoPart, Acceptable(form) PROVE FALSE
  <2>1. ~far
    <3>1. SUFFICES ASSUME far PROVE FALSE
      OBVIOUS
    <3>2. InMemory = [next |-> N, disposition |-> Meant(p), data |-> p.data]
      BY <1>11, <1>14, <3>1 DEF far
    <3>3. InMemory.next = N /\ NoPart.next = 0
      BY <3>2 DEF NoPart
    <3>. QED
      BY <1>16, <1>18, <3>3
  <2>2. form.cut = 0
    BY <1>1, <1>18, AcceptableFacts
  <2>3. Len(b) = Len(S) - 2
    BY <1>7, <1>10, <2>2
  <2>. QED
    BY <1>6, <1>13, <1>15, <1>16, <2>1, <2>3
<1>. QED
  BY <1>3, <1>4, <1>17, <1>18 DEF S, r

\* A part in memory is stored like one that is streamed.
LEMMA NextPartKeeps ==
  ASSUME UploadInv, ~streamed, NextPart
  PROVE  UploadInv'
<1> DEFINE part == InMemory
           wanted == IsWanted(part.disposition)
           note == part.disposition = "N"
           Full == /\ note /\ ~Fits(part.data)
                   /\ value' = <<>> /\ rc' = "failed" /\ pc' = "done"
                   /\ UNCHANGED <<used, file, saved, fault>>
           Stores == /\ note => Fits(part.data)
                     /\ used' = part.next
                     /\ value' = (IF note THEN part.data ELSE value)
                     /\ file' = (IF wanted THEN part.data ELSE file)
                     /\ saved' = (saved \/ wanted)
                     /\ UNCHANGED <<pc, rc, fault>>
           Breaks == /\ wanted
                     /\ fault' = TRUE /\ rc' = "failed" /\ pc' = "done"
                     /\ UNCHANGED <<used, file, saved, value>>
<1>1. /\ pc = "parts" /\ part # NoPart
      /\ Full \/ Stores \/ Breaks
      /\ form' = form /\ streamed' = streamed /\ buffer' = buffer /\ chunk' = chunk /\ net' = net
      /\ remaining' = remaining /\ pending' = pending /\ mustClose' = mustClose
  BY DEF NextPart, Ends
<1>2. /\ form \in Forms /\ streamed \in BOOLEAN /\ value \in Text /\ Len(value) < FieldCap
      /\ IsStrictPrefix(pending, Marker)
      /\ buffer \in Text /\ net \in Text /\ buffer \o net = Sent(form)
      /\ remaining = Announced(form) /\ remaining <= Len(buffer)
      /\ chunk = <<>> /\ ~mustClose /\ used \in Nat \ {0}
  BY DEF UploadInv, InBody
<1>3. part.data \in Text /\ part.next \in Nat \ {0}
  <2>1. SubSeq(buffer, 1, remaining) \in Text
    BY BodyBegins DEF BeginningOf
  <2>2. part = PartAt(SubSeq(buffer, 1, remaining), used)
    BY DEF InMemory
  <2>. QED
    BY <1>1, <1>2, <2>1, <2>2, PartIsText
<1> HIDE DEF part
<1>4. value' \in Text /\ Len(value') < FieldCap
  <2>1. <<>> \in Text /\ Len(<<>>) = 0 /\ 0 < FieldCap
    BY <1>2, JoinEmpty, LimitsAssumption
  <2>2. CASE Full
    BY <2>1, <2>2
  <2>3. CASE Stores
    BY <1>2, <1>3, <2>3 DEF Fits
  <2>4. CASE Breaks
    BY <1>2, <2>4
  <2>. QED
    BY <1>1, <2>2, <2>3, <2>4
<1>5. used' \in Nat \ {0} /\ pc' \in {"parts", "done"}
  <2>1. CASE Full
    BY <1>2, <2>1
  <2>2. CASE Stores
    BY <1>1, <1>3, <2>2
  <2>3. CASE Breaks
    BY <1>2, <2>3
  <2>. QED
    BY <1>1, <2>1, <2>2, <2>3
<1>6. ASSUME Headed(form)
      PROVE  /\ pc' = "parts" => rc' = "failed" /\ ~fault' /\ \E i \in 0 .. Len(form.parts) : PartReadTo(i)'
             /\ pc' = "done" => SavedExact'
  <2>1. /\ rc = "failed" /\ ~fault /\ \E i \in 0 .. Len(form.parts) : PartReadTo(i)
    BY <1>1, <1>6 DEF UploadInv, InBody
  <2>2. PICK i \in 0 .. Len(form.parts) : PartReadTo(i)
    BY <2>1
  <2>3. Len(form.parts) \in Nat
    BY <1>2, FormParts
  <2>4. i \in 0 .. Len(form.parts) - 1
    <3>1. i # Len(form.parts)
      BY <1>1, <2>2, NoPartAtEnd DEF part
    <3>. QED
      BY <2>3, <3>1
  <2> DEFINE p == form.parts[i + 1]
  <2>5. /\ i + 1 \in 1 .. Len(form.parts)
        /\ part.disposition = Meant(p) /\ part.data = p.data
        /\ part.next \in 1 .. Len(Sent(form))
        /\ From(Sent(form), part.next) = BoundaryLine \o Rest(form, i + 1)
    BY <1>1, <1>6, <2>2, <2>4, PartInMemory DEF part
  <2>6. FileKept(form, i, saved, file) /\ value = NoteTo(form, i)
    BY <2>2 DEF PartReadTo
  <2>7. (i + 1) - 1 = i /\ i + 1 \in 0 .. Len(form.parts)
    BY <2>3, <2>4
  <2>8. /\ i + 1 \in Files(form) /\ ~saved => FileKept(form, i + 1, TRUE, p.data)
        /\ i + 1 \notin Files(form) \/ saved => FileKept(form, i + 1, saved, file)
        /\ i + 1 \in Files(form) <=> IsFile(Meant(p)) /\ Meant(p) \in form.wanted
    <3>1. FileKept(form, (i + 1) - 1, saved, file)
      BY <2>6, <2>7
    <3> DEFINE j == i + 1
    <3>2. j \in 1 .. Len(form.parts) /\ FileKept(form, j - 1, saved, file)
      BY <2>5, <3>1
    <3> HIDE DEF j
    <3>3. /\ j \in Files(form) /\ ~saved => FileKept(form, j, TRUE, form.parts[j].data)
          /\ j \notin Files(form) \/ saved => FileKept(form, j, saved, file)
          /\ j \in Files(form) <=> IsFile(Meant(form.parts[j])) /\ Meant(form.parts[j]) \in form.wanted
      BY <1>2, <3>2, FileNext
    <3>. QED
      BY <3>3 DEF j
  <2>9. NoteTo(form, i + 1) = IF Meant(p) = "N" THEN p.data ELSE NoteTo(form, i)
    <3> DEFINE j == i + 1
    <3>1. j \in 1 .. Len(form.parts) /\ j - 1 = i
      BY <2>5, <2>7
    <3> HIDE DEF j
    <3>2. NoteTo(form, j) = IF Meant(form.parts[j]) = "N" THEN form.parts[j].data ELSE NoteTo(form, j - 1)
      BY <1>2, <3>1, NoteNext
    <3>. QED
      BY <3>1, <3>2 DEF j
  <2>10. wanted <=> i + 1 \in Files(form) /\ ~saved
    BY <2>5, <2>8 DEF IsWanted
  <2>11. CASE Full
    <3>1. i + 1 \in Notes(form) /\ ~Fits(p.data)
      <4>1. i + 1 \in DOMAIN form.parts
        BY <1>2, <2>5, FormParts
      <4>. QED
        BY <2>5, <2>11, <4>1 DEF Notes
    <3>2. ~Acceptable(form)
      BY <3>1 DEF Acceptable
    <3>. QED
      BY <1>1, <2>11, <3>2 DEF SavedExact
  <2>12. CASE Breaks
    BY <1>1, <2>12 DEF SavedExact
  <2>13. CASE Stores
    <3>1. FileKept(form, i + 1, saved', file')
      <4>1. CASE wanted
        <5>1. FileKept(form, i + 1, TRUE, p.data) /\ saved' /\ file' = p.data
          BY <2>5, <2>8, <2>10, <2>13, <4>1
        <5>. QED
          BY <5>1 DEF FileKept
      <4>2. CASE ~wanted
        <5>1. FileKept(form, i + 1, saved, file) /\ (saved' <=> saved) /\ file' = file
          BY <2>8, <2>10, <2>13, <4>2
        <5>. QED
          BY <5>1 DEF FileKept
      <4>. QED
        BY <4>1, <4>2
    <3>2. value' = NoteTo(form, i + 1)
      BY <2>5, <2>6, <2>9, <2>13
    <3>3. PartReadTo(i + 1)'
      BY <1>1, <2>5, <2>13, <3>1, <3>2 DEF PartReadTo
    <3>. QED
      BY <1>1, <2>1, <2>7, <2>13, <3>3
  <2>. QED
    BY <1>1, <2>11, <2>12, <2>13
<1>7. InBody'
  BY <1>1, <1>2, <1>5, <1>6 DEF InBody
<1>. QED
  BY <1>1, <1>2, <1>4, <1>7 DEF UploadInv

\* The end of a form in memory.
LEMMA NoMorePartsKeeps ==
  ASSUME UploadInv, ~streamed, NoMoreParts
  PROVE  UploadInv'
<1>1. /\ pc = "parts" /\ InMemory = NoPart
      /\ rc' = (IF saved THEN "ok" ELSE "failed") /\ pc' = "done"
      /\ form' = form /\ streamed' = streamed /\ buffer' = buffer /\ chunk' = chunk /\ net' = net
      /\ used' = used /\ file' = file /\ saved' = saved /\ value' = value /\ fault' = fault
      /\ remaining' = remaining /\ pending' = pending /\ mustClose' = mustClose
  BY DEF NoMoreParts, Ends, inputVars, results
<1>2. /\ form \in Forms /\ streamed \in BOOLEAN /\ value \in Text /\ Len(value) < FieldCap
      /\ IsStrictPrefix(pending, Marker)
      /\ buffer \in Text /\ net \in Text /\ buffer \o net = Sent(form)
      /\ remaining = Announced(form) /\ remaining <= Len(buffer)
      /\ chunk = <<>> /\ ~mustClose /\ used \in Nat \ {0}
  BY DEF UploadInv, InBody
<1>3. ASSUME Headed(form) PROVE SavedExact'
  <2>1. PICK i \in 0 .. Len(form.parts) : PartReadTo(i)
    BY <1>1, <1>3 DEF UploadInv, InBody
  <2>2. FileKept(form, i, saved, file) /\ value = NoteTo(form, i)
    BY <2>1 DEF PartReadTo
  <2>3. saved => Files(form) # {} /\ file = FileOf(form)
    BY <2>2 DEF FileKept
  <2>4. Acceptable(form) => i = Len(form.parts)
    <3>1. SUFFICES ASSUME Acceptable(form), i # Len(form.parts) PROVE FALSE
      OBVIOUS
    <3>2. Len(form.parts) \in Nat
      BY <1>2, FormParts
    <3>3. i \in 0 .. Len(form.parts) - 1
      BY <2>1, <3>1, <3>2
    <3>. QED
      BY <1>1, <1>3, <2>1, <3>1, <3>3, PartInMemory
  <2>5. Acceptable(form) => saved /\ value = NoteOf(form)
    <3>1. SUFFICES ASSUME Acceptable(form) PROVE saved /\ value = NoteOf(form)
      OBVIOUS
    <3>2. FileKept(form, Len(form.parts), saved, file) /\ value = NoteTo(form, Len(form.parts))
      BY <2>2, <2>4, <3>1
    <3>3. Files(form) # {}
      BY <1>2, <3>1, AcceptableFacts
    <3>4. saved
      <4>1. Files(form) \subseteq 1 .. Len(form.parts)
        BY <1>2, FormParts DEF Files
      <4>2. \E j \in Files(form) : j <= Len(form.parts)
        BY <3>3, <4>1
      <4>. QED
        BY <3>2, <4>2 DEF FileKept
    <3>5. value = NoteOf(form)
      BY <1>2, <3>2, NoteEnds
    <3>. QED
      BY <3>4, <3>5
  <2>. QED
    BY <1>1, <2>3, <2>5 DEF SavedExact
<1>4. InBody'
  BY <1>1, <1>2, <1>3 DEF InBody
<1>. QED
  BY <1>1, <1>2, <1>4 DEF UploadInv

-----------------------------------------------------------------------------
(* Every upload.                                                            *)

\* Nothing is read at the beginning.
LEMMA InitKeeps ==
  ASSUME UploadInit
  PROVE  UploadInv
<1> DEFINE S == Sent(form)
           a == Announced(form)
<1>1. /\ form \in Forms /\ streamed \in BOOLEAN /\ remaining = a
      /\ \E k \in (IF streamed THEN 0 ELSE remaining) .. Len(S) :
           buffer = SubSeq(S, 1, k) /\ net = SubSeq(S, k + 1, Len(S))
      /\ used = (IF streamed THEN 0 ELSE 1)
      /\ pc = (IF streamed THEN "first" ELSE "parts")
      /\ chunk = <<>> /\ line = <<>> /\ pending = <<>> /\ file = <<>> /\ value = <<>>
      /\ cr = FALSE /\ open = FALSE /\ saved = FALSE /\ fault = FALSE
      /\ disposition = "none" /\ rc = "failed" /\ mustClose = streamed
  BY DEF UploadInit
<1>2. S \in Text /\ a \in Nat /\ form.cut \in Nat /\ Len(S) = a + form.cut + 2
  BY <1>1, RestFacts DEF Sizes
<1>3. PICK k \in (IF streamed THEN 0 ELSE remaining) .. Len(S) :
        buffer = SubSeq(S, 1, k) /\ net = SubSeq(S, k + 1, Len(S))
  BY <1>1
<1>18. S = Sent(form) /\ a = Announced(form)
  OBVIOUS
<1> HIDE DEF S, a
<1>4. k \in 0 .. Len(S) /\ (~streamed => a <= k)
  BY <1>1, <1>2, <1>3, SMTT(60)
<1>5. buffer \in Text /\ Len(buffer) = k /\ buffer \o net = S
  BY <1>2, <1>3, <1>4, SplitFacts DEF From
<1>6. net \in Text
  <2>1. k + 1 \in 1 .. Len(S) + 1
    BY <1>2, <1>4
  <2> DEFINE l == k + 1
  <2>2. From(S, l) \in Text
    <3> HIDE DEF l
    <3>. QED
      BY <1>2, <2>1, FromFacts DEF l
  <2>. QED
    BY <1>3, <2>2 DEF From
<1>7. <<>> \in Text /\ Len(<<>>) = 0 /\ <<>> \o net = net
  BY <1>6, JoinEmpty
<1>8. From(S, 1) = S /\ From(buffer, 1) = buffer
  BY <1>2, <1>5, FromEnds
<1>9. IsStrictPrefix(pending, Marker)
  <2>1. Marker \in Text /\ Len(Marker) = 5
    BY MarkerIs
  <2>2. IsPrefix(<<>>, Marker)
    BY <1>7, <2>1, PrefixIs
  <2>3. Marker # <<>>
    BY <1>7, <2>1
  <2>. QED
    BY <1>1, <2>2, <2>3 DEF IsStrictPrefix
<1>10. value \in Text /\ Len(value) < FieldCap
  BY <1>1, <1>7, LimitsAssumption
<1>11. FileKept(form, 0, saved, file) /\ value = NoteTo(form, 0)
  BY <1>1, FileEnds, NoteEnds
<1>12. CASE streamed
  <2>1. used = 0 /\ pc = "first" /\ mustClose
    BY <1>1, <1>12
  <2>2. Unread = S
    <3>1. used + 1 = 1
      BY <2>1
    <3>. QED
      BY <1>1, <1>5, <1>7, <1>8, <3>1 DEF Unread, Left
  <2>3. Input(form, buffer, used, chunk, net, remaining)
    <3>1. used \in 0 .. Len(buffer) /\ remaining \in 0 .. a /\ Len(chunk) <= remaining /\ chunk \in Text
      BY <1>1, <1>2, <1>4, <1>5, <1>7, <2>1
    <3>2. a - remaining + 1 = 1
      BY <1>1, <1>2
    <3>3. Left(buffer, used, chunk, net) = From(S, a - remaining + 1)
      BY <1>8, <2>2, <3>2 DEF Unread
    <3>. QED
      BY <1>1, <1>5, <1>6, <1>18, <3>1, <3>3 DEF Input
  <2>4. FirstLineAt
    <3>1. AtLine(<<>>, FALSE, S, S)
      BY <1>2, LineStarts
    <3>. QED
      BY <1>1, <1>11, <1>18, <2>2, <3>1 DEF FirstLineAt
  <2>5. Streaming
    BY <1>1, <2>1, <2>3, <2>4 DEF Streaming
  <2>. QED
    BY <1>1, <1>9, <1>10, <1>12, <2>5 DEF UploadInv
<1>13. CASE ~streamed
  <2>1. used = 1 /\ pc = "parts" /\ ~mustClose
    BY <1>1, <1>13
  <2>2. PartReadTo(0)
    <3>1. used \in 1 .. Len(S)
      BY <1>2, <2>1
    <3>2. S = BoundaryLine \o Rest(form, 0)
      BY <1>1, <1>18, RestFacts
    <3>. QED
      BY <1>8, <1>11, <1>18, <2>1, <3>1, <3>2 DEF PartReadTo
  <2>3. 0 \in 0 .. Len(form.parts)
    BY <1>1, FormParts
  <2>4. InBody
    <3>1. used \in Nat \ {0} /\ remaining <= Len(buffer)
      BY <1>1, <1>4, <1>5, <1>13, <2>1
    <3>. QED
      BY <1>1, <1>5, <1>6, <1>18, <2>1, <2>2, <2>3, <3>1 DEF InBody
  <2>. QED
    BY <1>1, <1>9, <1>10, <1>13, <2>4 DEF UploadInv
<1>. QED
  BY <1>12, <1>13

\* A step keeps the invariant, the form, and where it is read from.
LEMMA StepKeeps ==
  ASSUME UploadInv, [UploadNext]_uploadVars
  PROVE  UploadInv' /\ form' = form /\ streamed' = streamed
<1>1. CASE UNCHANGED uploadVars
  <2>1. /\ form' = form /\ streamed' = streamed /\ buffer' = buffer /\ used' = used
        /\ chunk' = chunk /\ net' = net /\ remaining' = remaining /\ pc' = pc /\ cr' = cr
        /\ line' = line /\ disposition' = disposition /\ pending' = pending /\ file' = file
        /\ open' = open /\ saved' = saved /\ value' = value /\ rc' = rc /\ fault' = fault
        /\ mustClose' = mustClose
    BY <1>1 DEF uploadVars, inputVars, results
  <2>2. UploadInv'
    BY <2>1 DEF UploadInv, Streaming, InBody, FirstLineAt, HeaderAt, DataAt, AfterAt, AllRead, AtEnd,
                PartReadTo, Unread, SavedExact, NextRequestIntact, IsWanted
  <2>. QED
    BY <2>1, <2>2
<1>2. CASE UploadNext
  <2>1. form' = form /\ streamed' = streamed
    BY <1>2 DEF UploadNext, Receive, ReceiveFails, LineByte, LineBroken, EndsEarly, FirstLine,
                HeaderLine, HeadersEnd, AfterBoundary, LineEnds, DataByte, WriteFails, Drain,
                Drained, Leave, NextPart, NoMoreParts
  <2>2. CASE streamed
    <3>1. pc \in {"first", "header", "data", "after", "drain", "leave", "done"}
      BY <2>2 DEF UploadInv, Streaming
    <3>2. ~NextPart /\ ~NoMoreParts
      BY <3>1 DEF NextPart, NoMoreParts
    <3>3. UploadInv'
      BY <1>2, <2>2, <3>2, ReceiveKeeps, ReceiveFailsKeeps, LineByteKeeps, LineBrokenKeeps,
         EndsEarlyKeeps, FirstLineKeeps, HeaderLineKeeps, HeadersEndKeeps, AfterBoundaryKeeps,
         DataByteKeeps, WriteFailsKeeps, DrainKeeps, DrainedKeeps, LeaveKeeps DEF UploadNext
    <3>. QED
      BY <2>1, <3>3
  <2>3. CASE ~streamed
    <3>1. pc \in {"parts", "done"}
      BY <2>3 DEF UploadInv, InBody
    <3>2. NextPart \/ NoMoreParts
      BY <1>2, <3>1 DEF UploadNext, Receive, ReceiveFails, Waits, Reading, LineByte, LineBroken,
                EndsEarly, InLine, FirstLine, HeaderLine, HeadersEnd, AfterBoundary, LineEnds,
                DataByte, WriteFails, Drain, Drained, Leave
    <3>3. UploadInv'
      BY <2>3, <3>2, NextPartKeeps, NoMorePartsKeeps
    <3>. QED
      BY <2>1, <3>3
  <2>. QED
    BY <2>2, <2>3
<1>. QED
  BY <1>1, <1>2

\* What the invariant says of the connection when the upload is over.
LEMMA NextIsIntact ==
  ASSUME UploadInv
  PROVE  NextRequestIntact
<1>1. CASE streamed
  BY <1>1 DEF UploadInv, Streaming, NextRequestIntact
<1>2. CASE ~streamed
  <2> DEFINE S == Sent(form)
             a == Announced(form)
             s == SubSeq(buffer, 1, a)
             t == From(buffer, a + 1)
             u == From(S, a + 1)
  <2>1. /\ form \in Forms /\ buffer \in Text /\ net \in Text /\ buffer \o net = S
        /\ a <= Len(buffer) /\ chunk = <<>>
    BY <1>2 DEF UploadInv, InBody
  <2>2. a \in Nat /\ S \in Text /\ Len(buffer) \in Nat
    BY <2>1, RestFacts, TextFacts DEF Sizes
  <2> HIDE DEF a, S
  <2>3. a \in 0 .. Len(buffer) /\ a + 1 \in 1 .. Len(buffer) + 1
    BY <2>1, <2>2
  <2>4. From(buffer \o net, a + 1) = From(buffer, a + 1) \o net
    <3> DEFINE l == a + 1
    <3>1. l \in 1 .. Len(buffer) + 1
      BY <2>3
    <3> HIDE DEF l
    <3>2. From(buffer \o net, l) = From(buffer, l) \o net
      BY <2>1, <3>1, FromJoin
    <3>. QED
      BY <3>2 DEF l
  <2>5. t \o net = u
    BY <2>1, <2>4
  <2>. QED
    BY <1>2, <2>1, <2>5 DEF NextRequestIntact, From, a, S
<1>. QED
  BY <1>1, <1>2

\* The invariant holds in every state an upload reaches.
LEMMA UploadInvHolds == UploadSpec => []UploadInv
<1>1. UploadInit => UploadInv
  BY InitKeeps
<1>2. UploadInv /\ [UploadNext]_uploadVars => UploadInv'
  BY StepKeeps
<1>. QED
  BY <1>1, <1>2, PTL DEF UploadSpec

\* sw_http_upload_save_fields leaves the connection where the next request begins, or
\* marks it to be closed: whatever the form holds, however it arrives, and wherever the
\* call ends.  (sw_upload_reader_read, its "done", body_pending.)
THEOREM UploadLeavesNextRequest == UploadSpec => []NextRequestIntact
<1>1. UploadInv => NextRequestIntact
  BY NextIsIntact
<1>. QED
  BY <1>1, UploadInvHolds, PTL

\* What it stores is what the parts hold, to the byte, whether the form is read from
\* memory or from the socket, in pieces of any size, when each part has a header: the
\* reader from memory looks for a part's empty line behind its first line end, and
\* takes a part without headers for what follows it.
THEOREM UploadStoresExactly ==
  UploadSpec /\ (streamed \/ Headed(form)) => []UploadExact
<1> DEFINE J == UploadInv /\ (streamed \/ Headed(form))
<1>1. UploadInit /\ (streamed \/ Headed(form)) => J
  BY InitKeeps
<1>2. J /\ [UploadNext]_uploadVars => J'
  <2>1. SUFFICES ASSUME J, [UploadNext]_uploadVars PROVE J'
    OBVIOUS
  <2>2. UploadInv' /\ form' = form /\ streamed' = streamed
    BY <2>1, StepKeeps
  <2>. QED
    BY <2>1, <2>2
<1>3. J => UploadExact
  <2>1. SUFFICES ASSUME J PROVE UploadExact
    OBVIOUS
  <2>2. NextRequestIntact
    BY <2>1, NextIsIntact
  <2>3. SavedExact
    <3>1. CASE streamed
      BY <2>1, <3>1 DEF UploadInv, Streaming, SavedExact
    <3>2. CASE ~streamed
      BY <2>1, <3>2 DEF UploadInv, InBody, SavedExact
    <3>. QED
      BY <3>1, <3>2
  <2>. QED
    BY <2>1, <2>2, <2>3 DEF UploadExact, UploadInv
<1>. QED
  BY <1>1, <1>2, <1>3, PTL DEF UploadSpec
=============================================================================
