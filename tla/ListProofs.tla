----------------------------- MODULE ListProofs -----------------------------
(***************************************************************************)
(* Induction in a form the provers can use, on the members of a set rather *)
(* than on a predicate, and what it shows of the lists and loops that the  *)
(* modules are built from: what Kept keeps, for every list, and where      *)
(* Turns ends, for every loop.                                             *)
(***************************************************************************)
EXTENDS Lists, Loops, SequenceTheorems, FiniteSetTheorems, WellFoundedInduction, TLAPS

\* The order of the naturals has no descending chain: the set of its pairs is
\* what the library's theorem states of the operator.
LEMMA NatWellFounded == IsWellFoundedOn({p \in Nat \X Nat : p[1] < p[2]}, Nat)
BY NatLessThanWellFounded DEF OpToRel

\* A set of naturals that is not empty has a least member.
LEMMA NatMinimum ==
  ASSUME NEW T, T \subseteq Nat, T # {}
  PROVE  \E n \in T : \A m \in T : n <= m
<1> DEFINE L == {p \in Nat \X Nat : p[1] < p[2]}
<1>1. PICK x \in T : \A y \in T : ~ (<<y, x>> \in L)
  BY NatWellFounded, WFMin
<1>2. ASSUME NEW y \in T PROVE x <= y
  <2>1. x \in Nat /\ y \in Nat
    OBVIOUS
  <2>2. y < x => <<y, x>> \in L
    BY <2>1
  <2>. QED
    BY <1>1, <2>1, <2>2
<1>. QED
  BY <1>2

\* A set with 0 that has the successor of each of its members holds every natural.
LEMMA NatInduct ==
  ASSUME NEW T, 0 \in T, \A n \in Nat : n \in T => n + 1 \in T
  PROVE  Nat \subseteq T
<1> DEFINE U == Nat \ T
<1>1. SUFFICES ASSUME U # {} PROVE FALSE
  OBVIOUS
<1>2. PICK n \in U : \A m \in U : n <= m
  BY <1>1, NatMinimum
<1>3. n # 0 /\ n - 1 \in Nat /\ n - 1 \notin U
  BY <1>2
<1>. QED
  BY <1>2, <1>3

\* The first n naturals from 1 are n.
LEMMA Segment ==
  ASSUME NEW n \in Nat
  PROVE  IsFiniteSet(1 .. n) /\ Cardinality(1 .. n) = n
BY FS_Interval

\* What is made of s by n steps, the k-th of which is step[k].
LEMMA Recursion ==
  ASSUME NEW D, NEW s \in D, NEW n \in Nat, NEW step \in [1 .. n -> [D -> D]]
  PROVE  \E g \in [0 .. n -> D] : g[0] = s /\ \A k \in 1 .. n : g[k] = step[k][g[k - 1]]
<1> DEFINE Good(g, m) == g \in [0 .. m -> D] /\ g[0] = s /\ \A k \in 1 .. m : g[k] = step[k][g[k - 1]]
           T == {m \in Nat : m <= n => \E g : Good(g, m)}
<1>1. 0 \in T
  <2> DEFINE g == [k \in 0 .. 0 |-> s]
  <2>1. Good(g, 0)
    OBVIOUS
  <2>. QED
    BY <2>1
<1>2. ASSUME NEW m \in Nat, m \in T PROVE m + 1 \in T
  <2>1. SUFFICES ASSUME m + 1 <= n PROVE \E g : Good(g, m + 1)
    OBVIOUS
  <2>2. PICK g : Good(g, m)
    BY <1>2, <2>1
  <2> DEFINE h == [k \in 0 .. m + 1 |-> IF k = m + 1 THEN step[m + 1][g[m]] ELSE g[k]]
  <2>3. \A k \in 0 .. m : k \in 0 .. m + 1 /\ h[k] = g[k] /\ g[k] \in D
    BY <2>2
  <2>4. m + 1 \in 0 .. m + 1 /\ h[m + 1] = step[m + 1][g[m]] /\ step[m + 1][g[m]] \in D
    <3>1. m \in 0 .. m /\ m + 1 \in 1 .. n /\ m + 1 \in 0 .. m + 1
      BY <2>1
    <3>2. g[m] \in D
      BY <2>3, <3>1
    <3>3. step[m + 1][g[m]] \in D
      BY <3>1, <3>2
    <3>. QED
      BY <3>1, <3>3
  <2>5. \A k \in 0 .. m + 1 : k = m + 1 \/ k \in 0 .. m
    OBVIOUS
  <2>6. h = [k \in 0 .. m + 1 |-> h[k]]
    OBVIOUS
  <2> HIDE DEF h
  <2>7. h \in [0 .. m + 1 -> D]
    BY <2>3, <2>4, <2>5, <2>6
  <2>8. ASSUME NEW k \in 1 .. m + 1 PROVE h[k] = step[k][h[k - 1]]
    <3>1. CASE k = m + 1
      <4>1. k - 1 = m /\ m \in 0 .. m
        BY <3>1
      <4>. QED
        BY <2>3, <2>4, <3>1, <4>1
    <3>2. CASE k # m + 1
      <4>1. k \in 1 .. m /\ k \in 0 .. m /\ k - 1 \in 0 .. m
        BY <3>2
      <4>. QED
        BY <2>2, <2>3, <4>1
    <3>. QED
      BY <3>1, <3>2
  <2>9. h[0] = s
    <3>1. 0 \in 0 .. m
      OBVIOUS
    <3>. QED
      BY <2>2, <2>3, <3>1
  <2>10. Good(h, m + 1)
    BY <2>7, <2>8, <2>9
  <2>. QED
    BY <2>10
<1>3. Nat \subseteq T
  BY <1>1, <1>2, NatInduct
<1>4. \E g : Good(g, n)
  BY <1>3
<1>. QED
  BY <1>4

-----------------------------------------------------------------------------
(* Kept.                                                                    *)

\* The element of Kept's recursion after the first i positions.
KeptStep(s, I, g, i) ==
  IF i = 0 THEN <<>> ELSE IF i \in I THEN Append(g[i - 1], s[i]) ELSE g[i - 1]

\* f tells where the elements of t are in s: at each position in I, in its order.
Picks(f, t, s, I) ==
  /\ f \in [1 .. Len(t) -> I]
  /\ \A i \in I : \E k \in 1 .. Len(t) : f[k] = i
  /\ \A j, k \in 1 .. Len(t) : j < k => f[j] < f[k]
  /\ \A k \in 1 .. Len(t) : t[k] = s[f[k]]

\* The recursion that defines Kept has a solution.
LEMMA KeptSolution ==
  ASSUME NEW S, NEW s \in Seq(S), NEW I
  PROVE  \E g : g = [i \in 0 .. Len(s) |-> KeptStep(s, I, g, i)]
<1> DEFINE T == {n \in Nat : \E g : g = [i \in 0 .. n |-> KeptStep(s, I, g, i)]}
<1>1. 0 \in T
  <2> DEFINE g == [i \in 0 .. 0 |-> <<>>]
  <2>1. g = [i \in 0 .. 0 |-> KeptStep(s, I, g, i)]
    BY DEF KeptStep
  <2>. QED
    BY <2>1
<1>2. ASSUME NEW n \in Nat, n \in T PROVE n + 1 \in T
  <2>1. PICK g : g = [i \in 0 .. n |-> KeptStep(s, I, g, i)]
    BY <1>2
  <2> DEFINE h == [i \in 0 .. n + 1 |-> KeptStep(s, I, g, i)]
  <2>2. ASSUME NEW i \in 0 .. n + 1 PROVE h[i] = KeptStep(s, I, h, i)
    <3>1. CASE i = 0
      BY <3>1 DEF KeptStep
    <3>2. CASE i # 0
      <4>1. i - 1 \in 0 .. n /\ i - 1 \in 0 .. n + 1
        BY <3>2
      <4>2. h[i - 1] = g[i - 1]
        BY <4>1, <2>1
      <4>. QED
        BY <4>2 DEF KeptStep
    <3>. QED
      BY <3>1, <3>2
  <2>3. h = [i \in 0 .. n + 1 |-> KeptStep(s, I, h, i)]
    BY <2>2
  <2> HIDE DEF h
  <2>4. \E q : q = [i \in 0 .. n + 1 |-> KeptStep(s, I, q, i)]
    BY <2>3
  <2>. QED
    BY <2>4
<1>3. Nat \subseteq T
  BY <1>1, <1>2, NatInduct
<1>. QED
  BY <1>3, LenProperties
\* Kept(s, I) is the last of the lists kept from s's prefixes.
LEMMA KeptRecursion ==
  ASSUME NEW S, NEW s \in Seq(S), NEW I
  PROVE  \E g :
           /\ g[0] = <<>>
           /\ \A i \in 1 .. Len(s) : g[i] = IF i \in I THEN Append(g[i - 1], s[i]) ELSE g[i - 1]
           /\ Kept(s, I) = g[Len(s)]
<1> DEFINE g == CHOOSE h : h = [i \in 0 .. Len(s) |-> KeptStep(s, I, h, i)]
<1>1. g = [i \in 0 .. Len(s) |-> KeptStep(s, I, g, i)]
  BY KeptSolution
<1>2. Kept(s, I) = g[Len(s)]
  BY DEF Kept, KeptStep
<1>3. Len(s) \in Nat
  BY LenProperties
<1> HIDE DEF g
<1>4. g[0] = <<>>
  BY <1>1, <1>3 DEF KeptStep
<1>5. ASSUME NEW i \in 1 .. Len(s)
      PROVE  g[i] = IF i \in I THEN Append(g[i - 1], s[i]) ELSE g[i - 1]
  <2>1. i \in 0 .. Len(s) /\ i # 0
    BY <1>3
  <2>2. g[i] = KeptStep(s, I, g, i)
    BY <1>1, <2>1
  <2>. QED
    BY <2>1, <2>2 DEF KeptStep
<1>. QED
  BY <1>2, <1>4, <1>5

\* Kept returns the elements at the positions in I, in their order.
LEMMA KeptPicks ==
  ASSUME NEW S, NEW s \in Seq(S), NEW I, I \subseteq 1 .. Len(s)
  PROVE  /\ Kept(s, I) \in Seq(S)
         /\ \E f : Picks(f, Kept(s, I), s, I)
<1>1. PICK g :
        /\ g[0] = <<>>
        /\ \A i \in 1 .. Len(s) : g[i] = IF i \in I THEN Append(g[i - 1], s[i]) ELSE g[i - 1]
        /\ Kept(s, I) = g[Len(s)]
  BY KeptRecursion
<1>2. Len(s) \in Nat /\ \A i \in 1 .. Len(s) : s[i] \in S
  BY LenProperties
<1>0. \A i \in I : i \in Nat /\ 1 <= i /\ i <= Len(s)
  BY <1>2
<1> DEFINE Upto(n) == {i \in I : i <= n}
           Good(n) == g[n] \in Seq(S) /\ \E f : Picks(f, g[n], s, Upto(n))
           T == {n \in Nat : n <= Len(s) => Good(n)}
<1>3. Good(0)
  <2> DEFINE f == [k \in {} |-> k]
  <2>1. <<>> \in Seq(S) /\ Len(<<>>) = 0
    BY EmptySeq
  <2>0. g[0] = <<>> /\ Upto(0) = {}
    <3>1. ASSUME NEW i \in I PROVE ~ (i <= 0)
      BY <1>0
    <3>. QED
      BY <3>1, <1>1
  <2>2. f \in [{} -> {}] /\ 1 .. Len(<<>>) = {}
    BY <2>1
  <2>3. Picks(f, <<>>, s, {})
    BY <2>2 DEF Picks
  <2>. QED
    BY <2>0, <2>1, <2>3
<1>4. ASSUME NEW n \in Nat, n + 1 <= Len(s), Good(n) PROVE Good(n + 1)
  <2>2. n + 1 \in 1 .. Len(s) /\ n <= Len(s) /\ (n + 1) - 1 = n
    BY <1>2, <1>4
  <2>3. g[n] \in Seq(S) /\ \E f : Picks(f, g[n], s, Upto(n))
    BY <1>4
  <2>6. ASSUME NEW i \in I PROVE i <= n + 1 <=> i <= n \/ i = n + 1
    BY <1>0
  <2>4. CASE n + 1 \notin I
    <3>1. g[n + 1] = g[n]
      BY <2>2, <2>4, <1>1
    <3>2. Upto(n + 1) = Upto(n)
      BY <2>4, <2>6
    <3>. QED
      BY <3>1, <3>2, <2>3
  <2>5. CASE n + 1 \in I
    <3>1. g[n + 1] = Append(g[n], s[n + 1])
      BY <2>2, <2>5, <1>1
    <3>2. PICK f : Picks(f, g[n], s, Upto(n))
      BY <2>3
    <3> DEFINE m == Len(g[n])
               t == Append(g[n], s[n + 1])
    <3>3. /\ t \in Seq(S) /\ m \in Nat /\ Len(t) = m + 1
          /\ \A k \in 1 .. m : t[k] = g[n][k]
          /\ t[m + 1] = s[n + 1]
      BY <1>2, <2>2, <2>3, AppendProperties, LenProperties
    <3> HIDE DEF m, t
    <3>4. /\ f \in [1 .. m -> Upto(n)]
          /\ \A i \in Upto(n) : \E k \in 1 .. m : f[k] = i
          /\ \A j, k \in 1 .. m : j < k => f[j] < f[k]
          /\ \A k \in 1 .. m : g[n][k] = s[f[k]]
      BY <3>2 DEF Picks, m
    <3> DEFINE h == [k \in 1 .. m + 1 |-> IF k = m + 1 THEN n + 1 ELSE f[k]]
    <3>5. Upto(n + 1) = Upto(n) \union {n + 1}
      BY <2>5, <2>6
    <3>6. ASSUME NEW k \in 1 .. m
          PROVE  k \in 1 .. m + 1 /\ h[k] = f[k] /\ f[k] \in Upto(n) /\ f[k] < n + 1
      <4>1. f[k] \in Upto(n)
        BY <3>4
      <4>2. f[k] \in Nat /\ f[k] <= n
        BY <4>1, <1>0
      <4>3. k \in 1 .. m + 1 /\ k # m + 1
        BY <3>3
      <4>. QED
        BY <4>1, <4>2, <4>3
    <3>7. m + 1 \in 1 .. m + 1 /\ h[m + 1] = n + 1 /\ DOMAIN h = 1 .. m + 1
      BY <3>3
    <3>8. \A k \in 1 .. m + 1 : k = m + 1 \/ k \in 1 .. m
      BY <3>3
    <3> HIDE DEF h
    <3>9. h \in [1 .. m + 1 -> Upto(n + 1)]
      <4>1. h = [k \in 1 .. m + 1 |-> h[k]]
        BY DEF h
      <4>2. \A k \in 1 .. m + 1 : h[k] \in Upto(n + 1)
        BY <3>5, <3>6, <3>7, <3>8
      <4>. QED
        BY <4>1, <4>2
    <3>10. \A i \in Upto(n + 1) : \E k \in 1 .. m + 1 : h[k] = i
      BY <3>4, <3>5, <3>6, <3>7
    <3>11. \A j, k \in 1 .. m + 1 : j < k => h[j] < h[k]
      BY <3>3, <3>4, <3>6, <3>7, <3>8
    <3>12. \A k \in 1 .. m + 1 : t[k] = s[h[k]]
      BY <3>3, <3>4, <3>6, <3>7, <3>8
    <3>13. Picks(h, t, s, Upto(n + 1))
      BY <3>3, <3>9, <3>10, <3>11, <3>12 DEF Picks
    <3>. QED
      BY <3>1, <3>3, <3>13 DEF t
  <2>. QED
    BY <2>4, <2>5
<1> HIDE DEF Good
<1>5. 0 \in T /\ \A n \in Nat : n \in T => n + 1 \in T
  BY <1>2, <1>3, <1>4
<1>6. Nat \subseteq T
  BY <1>5, NatInduct
<1>7. Good(Len(s))
  BY <1>2, <1>6
<1>8. Upto(Len(s)) = I
  BY <1>0
<1>. QED
  BY <1>1, <1>7, <1>8 DEF Good

\* What Kept keeps is counted by the positions.
LEMMA KeptLen ==
  ASSUME NEW S, NEW s \in Seq(S), NEW I, I \subseteq 1 .. Len(s)
  PROVE  Len(Kept(s, I)) = Cardinality(I)
<1>1. PICK f : Picks(f, Kept(s, I), s, I)
  BY KeptPicks
<1>2. Kept(s, I) \in Seq(S)
  BY KeptPicks
<1> DEFINE n == Len(Kept(s, I))
<1>3. n \in Nat
  BY <1>2, LenProperties
<1> HIDE DEF n
<1>4. /\ f \in [1 .. n -> I]
      /\ \A i \in I : \E k \in 1 .. n : f[k] = i
      /\ \A j, k \in 1 .. n : j < k => f[j] < f[k]
  BY <1>1 DEF Picks, n
<1>5. \A i \in I : i \in Nat
  BY LenProperties
<1>6. ASSUME NEW j \in 1 .. n, NEW k \in 1 .. n, f[j] = f[k] PROVE j = k
  <2>1. f[j] \in Nat /\ f[k] \in Nat
    BY <1>4, <1>5
  <2>2. ~ (j < k) /\ ~ (k < j)
    BY <1>4, <1>6, <2>1
  <2>. QED
    BY <1>3, <2>2
<1>7. f \in Bijection(1 .. n, I)
  BY <1>4, <1>6 DEF Bijection, Injection, Surjection, IsInjective
<1>8. ExistsBijection(1 .. n, I)
  BY <1>7 DEF ExistsBijection
<1>9. IsFiniteSet(1 .. n) /\ Cardinality(1 .. n) = n
  BY <1>3, Segment
<1>. QED
  BY <1>8, <1>9, FS_Bijection DEF n

-----------------------------------------------------------------------------
(* Turns.                                                                   *)

\* The element of Turns's recursion after k turns.
TurnsStep(body, s, g, k) == IF k = 0 THEN s ELSE body[g[k - 1]]

\* The recursion that defines Turns has a solution.
LEMMA TurnsSolution ==
  ASSUME NEW body, NEW s, NEW n \in Nat
  PROVE  \E g : g = [k \in 0 .. n |-> TurnsStep(body, s, g, k)]
<1> DEFINE T == {m \in Nat : \E g : g = [k \in 0 .. m |-> TurnsStep(body, s, g, k)]}
<1>1. 0 \in T
  <2> DEFINE g == [k \in 0 .. 0 |-> s]
  <2>1. g = [k \in 0 .. 0 |-> TurnsStep(body, s, g, k)]
    BY DEF TurnsStep
  <2>. QED
    BY <2>1
<1>2. ASSUME NEW m \in Nat, m \in T PROVE m + 1 \in T
  <2>1. PICK g : g = [k \in 0 .. m |-> TurnsStep(body, s, g, k)]
    BY <1>2
  <2> DEFINE h == [k \in 0 .. m + 1 |-> TurnsStep(body, s, g, k)]
  <2>2. ASSUME NEW k \in 0 .. m + 1 PROVE h[k] = TurnsStep(body, s, h, k)
    <3>1. CASE k = 0
      BY <3>1 DEF TurnsStep
    <3>2. CASE k # 0
      <4>1. k - 1 \in 0 .. m /\ k - 1 \in 0 .. m + 1
        BY <3>2
      <4>2. h[k - 1] = g[k - 1]
        BY <4>1, <2>1
      <4>. QED
        BY <4>2 DEF TurnsStep
    <3>. QED
      BY <3>1, <3>2
  <2>3. h = [k \in 0 .. m + 1 |-> TurnsStep(body, s, h, k)]
    BY <2>2
  <2> HIDE DEF h
  <2>4. \E q : q = [k \in 0 .. m + 1 |-> TurnsStep(body, s, q, k)]
    BY <2>3
  <2>. QED
    BY <2>4
<1>3. Nat \subseteq T
  BY <1>1, <1>2, NatInduct
<1>. QED
  BY <1>3

\* Turns(body, s, n) is the last of the values that the first n turns make of s.
LEMMA TurnsRecursion ==
  ASSUME NEW body, NEW s, NEW n \in Nat
  PROVE  \E g :
           /\ g[0] = s
           /\ \A k \in 1 .. n : g[k] = body[g[k - 1]]
           /\ Turns(body, s, n) = g[n]
<1> DEFINE g == CHOOSE h : h = [k \in 0 .. n |-> TurnsStep(body, s, h, k)]
<1>1. g = [k \in 0 .. n |-> TurnsStep(body, s, g, k)]
  BY TurnsSolution
<1>2. Turns(body, s, n) = g[n]
  BY DEF Turns, TurnsStep
<1> HIDE DEF g
<1>3. g[0] = s
  BY <1>1 DEF TurnsStep
<1>4. ASSUME NEW k \in 1 .. n PROVE g[k] = body[g[k - 1]]
  <2>1. k \in 0 .. n /\ k # 0
    OBVIOUS
  <2>. QED
    BY <1>1, <2>1 DEF TurnsStep
<1>. QED
  BY <1>2, <1>3, <1>4

\* What a turn keeps, the loop keeps.
LEMMA TurnsKeep ==
  ASSUME NEW body, NEW I, NEW s \in I, NEW n \in Nat,
         \A x \in I : body[x] \in I
  PROVE  Turns(body, s, n) \in I
<1>1. PICK g : /\ g[0] = s
               /\ \A k \in 1 .. n : g[k] = body[g[k - 1]]
               /\ Turns(body, s, n) = g[n]
  BY TurnsRecursion
<1> DEFINE T == {k \in Nat : k <= n => g[k] \in I}
<1>2. 0 \in T
  BY <1>1
<1>3. ASSUME NEW k \in Nat, k \in T PROVE k + 1 \in T
  <2>1. CASE k + 1 <= n
    <3>1. k + 1 \in 1 .. n /\ (k + 1) - 1 = k /\ k <= n
      BY <2>1
    <3>2. g[k + 1] = body[g[k]] /\ g[k] \in I
      BY <1>1, <1>3, <3>1
    <3>. QED
      BY <3>2
  <2>. QED
    BY <2>1
<1>4. Nat \subseteq T
  BY <1>2, <1>3, NatInduct
<1>. QED
  BY <1>1, <1>4

\* A loop whose turns lessen m, until one changes nothing, has ended after m turns.
LEMMA TurnsEnd ==
  ASSUME NEW body, NEW I, NEW m, NEW s \in I, NEW n \in Nat,
         \A x \in I : body[x] \in I,
         \A x \in I : m[x] \in Nat,
         \A x \in I : body[x] = x \/ m[body[x]] < m[x],
         m[s] <= n
  PROVE  body[Turns(body, s, n)] = Turns(body, s, n)
<1>1. PICK g : /\ g[0] = s
               /\ \A k \in 1 .. n : g[k] = body[g[k - 1]]
               /\ Turns(body, s, n) = g[n]
  BY TurnsRecursion
<1> DEFINE Near(k) == g[k] \in I /\ (body[g[k]] = g[k] \/ m[g[k]] <= n - k)
           T == {k \in Nat : k <= n => Near(k)}
<1>2. 0 \in T
  BY <1>1
<1>3. ASSUME NEW k \in Nat, k \in T PROVE k + 1 \in T
  <2>1. CASE k + 1 <= n
    <3>1. k + 1 \in 1 .. n /\ (k + 1) - 1 = k /\ k <= n
      BY <2>1
    <3>2. g[k + 1] = body[g[k]]
      BY <1>1, <3>1
    <3>3. g[k] \in I /\ (body[g[k]] = g[k] \/ m[g[k]] <= n - k)
      BY <1>3, <3>1
    <3>4. g[k + 1] \in I
      BY <3>2, <3>3
    <3>5. CASE body[g[k]] = g[k]
      BY <3>2, <3>4, <3>5
    <3>6. CASE body[g[k]] # g[k]
      <4>1. m[g[k + 1]] < m[g[k]] /\ m[g[k]] <= n - k
        BY <3>2, <3>3, <3>6
      <4>2. m[g[k + 1]] \in Nat /\ m[g[k]] \in Nat
        BY <3>3, <3>4
      <4>3. m[g[k + 1]] <= n - (k + 1)
        BY <4>1, <4>2
      <4>. QED
        BY <3>4, <4>3
    <3>. QED
      BY <3>5, <3>6
  <2>. QED
    BY <2>1
<1>4. Nat \subseteq T
  BY <1>2, <1>3, NatInduct
<1>5. g[n] \in I /\ (body[g[n]] = g[n] \/ m[g[n]] <= n - n)
  BY <1>4
<1>6. m[g[n]] \in Nat /\ m[body[g[n]]] \in Nat
  BY <1>5
<1>7. body[g[n]] = g[n]
  BY <1>5, <1>6
<1>. QED
  BY <1>1, <1>7
=============================================================================
