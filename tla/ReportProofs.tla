---------------------------- MODULE ReportProofs ----------------------------
(***************************************************************************)
(* Proofs about Report: of any campaign a profile shows what it is there   *)
(* to find and nothing it must not show.  PipeInv says, for every pass, up *)
(* to which line it has read, and that what waits in front of it are the   *)
(* lines behind that the passes before it let through; FailInv, that a     *)
(* pass that failed is stuck in front of the line it failed on.            *)
(***************************************************************************)
EXTENDS JsonlProofs, FiniteSetTheorems

(***************************************************************************)
(* Subsequences                                                            *)
(***************************************************************************)

\* The function that Subsequence is defined with.
Picked(s, K) ==
  LET upto[n \in 0 .. Len(s)] ==
        IF n = 0 THEN <<>> ELSE IF n \in K THEN Append(upto[n - 1], s[n]) ELSE upto[n - 1]
  IN  upto

\* What is picked of the elements up to n.
LEMMA PickedIs ==
  ASSUME NEW s, NEW K, Len(s) \in Nat
  PROVE  Picked(s, K) = [n \in 0 .. Len(s) |->
           IF n = 0 THEN <<>> ELSE IF n \in K THEN Append(Picked(s, K)[n - 1], s[n])
             ELSE Picked(s, K)[n - 1]]
<1>. DEFINE Upto(g, k) == g = [n \in 0 .. k |->
              IF n = 0 THEN <<>> ELSE IF n \in K THEN Append(g[n - 1], s[n]) ELSE g[n - 1]]
            T == {k \in Nat : \E g : Upto(g, k)}
<1>1. 0 \in T
  <2>1. Upto([n \in 0 .. 0 |-> <<>>], 0)
    OBVIOUS
  <2>. QED  BY <2>1
<1>2. ASSUME NEW k \in T PROVE k + 1 \in T
  <2>1. PICK g : Upto(g, k)
    BY <1>2
  <2>. DEFINE last == IF k + 1 \in K THEN Append(g[k], s[k + 1]) ELSE g[k]
              h == [n \in 0 .. k + 1 |-> IF n <= k THEN g[n] ELSE last]
  <2>2. k \in Nat
    BY <1>2
  <2>3. ASSUME NEW n \in 0 .. k + 1
        PROVE  h[n] = IF n = 0 THEN <<>> ELSE IF n \in K THEN Append(h[n - 1], s[n]) ELSE h[n - 1]
    <3>1. CASE n = k + 1
      <4>1. n # 0 /\ n - 1 = k /\ h[n - 1] = g[k] /\ ~(n <= k)
        BY <2>2, <3>1
      <4>. QED  BY <3>1, <4>1
    <3>2. CASE n # k + 1
      <4>1. n \in 0 .. k /\ n <= k /\ h[n] = g[n]
        BY <2>2, <3>2
      <4>2. n # 0 => n - 1 \in 0 .. k /\ n - 1 <= k /\ h[n - 1] = g[n - 1]
        BY <2>2, <4>1
      <4>3. g[n] = IF n = 0 THEN <<>> ELSE IF n \in K THEN Append(g[n - 1], s[n]) ELSE g[n - 1]
        BY <2>1, <4>1
      <4>. QED  BY <4>1, <4>2, <4>3
    <3>. QED  BY <3>1, <3>2
  <2>4. DOMAIN h = 0 .. k + 1 /\ h = [n \in 0 .. k + 1 |-> h[n]]
    OBVIOUS
  <2>. HIDE DEF h
  <2>5. Upto(h, k + 1)
    BY <2>3, <2>4
  <2>6. \E f : Upto(f, k + 1)
    BY <2>5, Zenon
  <2>. HIDE DEF Upto
  <2>. QED  BY <2>2, <2>6
<1>. HIDE DEF Upto
<1>3. \E g : Upto(g, Len(s))
  <2>1. T \subseteq Nat
    OBVIOUS
  <2>. HIDE DEF T
  <2>2. T = Nat
    BY <1>1, <1>2, <2>1, Induction
  <2>. QED  BY <2>2 DEF T
<1>4. Upto(CHOOSE g : Upto(g, Len(s)), Len(s))
  BY <1>3, Zenon
<1>5. Picked(s, K) = CHOOSE g : Upto(g, Len(s))
  BY Zenon DEF Picked, Upto
<1>6. Upto(Picked(s, K), Len(s))
  BY <1>4, <1>5, Zenon
<1>. QED  BY <1>6, Zenon DEF Upto

LEMMA PickedStep ==
  ASSUME NEW s, NEW K, Len(s) \in Nat, NEW n \in 0 .. Len(s)
  PROVE  Picked(s, K)[n] = IF n = 0 THEN <<>> ELSE IF n \in K THEN Append(Picked(s, K)[n - 1],
           s[n]) ELSE Picked(s, K)[n - 1]
<1>. DEFINE f == Picked(s, K)
<1>1. f = [k \in 0 .. Len(s) |-> IF k = 0 THEN <<>> ELSE IF k \in K
        THEN Append(f[k - 1], s[k]) ELSE f[k - 1]]
  BY PickedIs
<1>. HIDE DEF f
<1>2. f[n] = IF n = 0 THEN <<>> ELSE IF n \in K THEN Append(f[n - 1], s[n]) ELSE f[n - 1]
  BY <1>1
<1>. QED  BY <1>2 DEF f

LEMMA SubsequenceIs == ASSUME NEW s, NEW K PROVE Subsequence(s, K) = Picked(s, K)[Len(s)]
BY Zenon DEF Subsequence, Picked

LEMMA PickedNone == ASSUME NEW s, NEW K, Len(s) \in Nat PROVE Picked(s, K)[0] = <<>>
<1>1. 0 \in 0 .. Len(s)
  OBVIOUS
<1>. QED  BY <1>1, PickedStep

LEMMA PickedNext ==
  ASSUME NEW s, NEW K, Len(s) \in Nat, NEW n \in Nat, NEW m \in Nat, m = n + 1, m <= Len(s)
  PROVE  Picked(s, K)[m] = IF m \in K THEN Append(Picked(s, K)[n], s[m]) ELSE Picked(s, K)[n]
<1>1. m \in 0 .. Len(s) /\ m # 0 /\ m - 1 = n
  OBVIOUS
<1>2. Picked(s, K)[m] = IF m = 0 THEN <<>> ELSE IF m \in K THEN Append(Picked(s, K)[m - 1],
        s[m]) ELSE Picked(s, K)[m - 1]
  BY <1>1, PickedStep
<1>. QED  BY <1>1, <1>2

\* What is picked depends only on what stands at the places that are picked.
LEMMA PickedSame ==
  ASSUME NEW s, NEW t, NEW K, NEW L, Len(s) \in Nat, Len(t) \in Nat,
         NEW top \in Nat, top <= Len(s), top <= Len(t),
         \A j \in 1 .. top : (j \in K <=> j \in L) /\ (j \in K => s[j] = t[j])
  PROVE  \A n \in 0 .. top : Picked(s, K)[n] = Picked(t, L)[n]
<1>. DEFINE T == {n \in Nat : n <= top => Picked(s, K)[n] = Picked(t, L)[n]}
<1>1. 0 \in T
  BY PickedNone
<1>2. ASSUME NEW n \in T PROVE n + 1 \in T
  <2>1. CASE n + 1 <= top
    <3>1. PICK m \in Nat : m = n + 1
      BY <1>2
    <3>2. m <= Len(s) /\ m <= Len(t) /\ m \in 1 .. top /\ n \in Nat /\ n <= top
      BY <1>2, <2>1, <3>1
    <3>3. Picked(s, K)[m] = IF m \in K THEN Append(Picked(s, K)[n], s[m]) ELSE Picked(s, K)[n]
      BY <3>1, <3>2, PickedNext
    <3>4. Picked(t, L)[m] = IF m \in L THEN Append(Picked(t, L)[n], t[m]) ELSE Picked(t, L)[n]
      BY <3>1, <3>2, PickedNext
    <3>5. Picked(s, K)[n] = Picked(t, L)[n]
      BY <1>2, <3>2
    <3>6. (m \in K <=> m \in L) /\ (m \in K => s[m] = t[m])
      BY <3>2
    <3>. QED  BY <3>1, <3>3, <3>4, <3>5, <3>6
  <2>2. CASE ~(n + 1 <= top)
    BY <1>2, <2>2
  <2>. QED  BY <2>1, <2>2
<1>3. T \subseteq Nat
  OBVIOUS
<1>. HIDE DEF T
<1>4. T = Nat
  BY <1>1, <1>2, <1>3, Induction
<1>. QED  BY <1>4 DEF T

\* Nothing is picked where there is no place of K.
LEMMA PickedFlat ==
  ASSUME NEW s, NEW K, Len(s) \in Nat, NEW a \in Nat, NEW b \in Nat, a <= b, b <= Len(s),
         \A j \in a + 1 .. b : j \notin K
  PROVE  Picked(s, K)[b] = Picked(s, K)[a]
<1>. DEFINE T == {n \in Nat : a <= n /\ n <= b => Picked(s, K)[n] = Picked(s, K)[a]}
<1>1. 0 \in T
  OBVIOUS
<1>2. ASSUME NEW n \in T PROVE n + 1 \in T
  <2>. n \in Nat
    BY <1>2
  <2>1. CASE a <= n /\ n + 1 <= b
    <3>1. PICK m \in Nat : m = n + 1
      OBVIOUS
    <3>2. m <= Len(s) /\ m \in a + 1 .. b
      BY <2>1, <3>1
    <3>3. Picked(s, K)[m] = IF m \in K THEN Append(Picked(s, K)[n], s[m]) ELSE Picked(s, K)[n]
      BY <3>1, <3>2, PickedNext
    <3>4. Picked(s, K)[n] = Picked(s, K)[a]
      BY <1>2, <2>1
    <3>. QED  BY <3>1, <3>2, <3>3, <3>4
  <2>2. CASE n + 1 = a
    BY <2>2
  <2>3. CASE ~(a <= n /\ n + 1 <= b) /\ n + 1 # a
    BY <2>3
  <2>. QED  BY <2>1, <2>2, <2>3
<1>3. T \subseteq Nat
  OBVIOUS
<1>. HIDE DEF T
<1>4. T = Nat
  BY <1>1, <1>2, <1>3, Induction
<1>. QED  BY <1>4 DEF T

LEMMA PickedType ==
  ASSUME NEW E, NEW s \in Seq(E), NEW K
  PROVE  \A n \in 0 .. Len(s) : Picked(s, K)[n] \in Seq(E)
<1>1. Len(s) \in Nat /\ \A j \in 1 .. Len(s) : s[j] \in E
  BY LenProperties, ElementOfSeq
<1>. DEFINE T == {n \in Nat : n <= Len(s) => Picked(s, K)[n] \in Seq(E)}
<1>2. 0 \in T
  BY <1>1, PickedNone, EmptySeq
<1>3. ASSUME NEW n \in T PROVE n + 1 \in T
  <2>. n \in Nat
    BY <1>3
  <2>1. CASE n + 1 <= Len(s)
    <3>1. PICK m \in Nat : m = n + 1
      OBVIOUS
    <3>2. m <= Len(s) /\ m \in 1 .. Len(s)
      BY <1>1, <2>1, <3>1
    <3>3. Picked(s, K)[m] = IF m \in K THEN Append(Picked(s, K)[n], s[m]) ELSE Picked(s, K)[n]
      BY <1>1, <3>1, <3>2, PickedNext
    <3>4. Picked(s, K)[n] \in Seq(E)
      BY <1>1, <1>3, <2>1
    <3>5. Append(Picked(s, K)[n], s[m]) \in Seq(E)
      BY <1>1, <3>2, <3>4, AppendProperties
    <3>. QED  BY <3>1, <3>3, <3>4, <3>5
  <2>2. CASE ~(n + 1 <= Len(s))
    BY <2>2
  <2>. QED  BY <2>1, <2>2
<1>4. T \subseteq Nat
  OBVIOUS
<1>. HIDE DEF T
<1>5. T = Nat
  BY <1>2, <1>3, <1>4, Induction
<1>. QED  BY <1>5 DEF T

Prefixed(e, s) == <<e>> \o s

\* From the first place on, what is picked begins with what stands there.
LEMMA PickedFirst ==
  ASSUME NEW E, NEW s \in Seq(E), NEW K, NEW j \in 1 .. Len(s), j \in K,
         \A l \in 1 .. j - 1 : l \notin K, NEW top \in j .. Len(s)
  PROVE  Picked(s, K)[top] = Prefixed(s[j], Picked(s, K \ {j})[top])
<1>1. Len(s) \in Nat /\ \A l \in 1 .. Len(s) : s[l] \in E
  BY LenProperties, ElementOfSeq
<1>2. j \in Nat /\ j # 0 /\ j \in 0 .. Len(s) /\ j - 1 \in Nat /\ j - 1 \in 0 .. Len(s)
  BY <1>1
<1>. DEFINE D == K \ {j}
            T == {n \in Nat : j <= n /\ n <= Len(s) => Picked(s, K)[n] =
              <<s[j]>> \o Picked(s, D)[n]}
<1>3. Picked(s, K)[j] = <<s[j]>> /\ Picked(s, D)[j] = <<>>
  <2>1. Picked(s, K)[0] = <<>> /\ Picked(s, D)[0] = <<>>
    BY <1>1, PickedNone
  <2>. HIDE DEF D
  <2>2. PICK z \in Nat : z = 0
    OBVIOUS
  <2>3. PICK b \in Nat : b = j - 1
    BY <1>2
  <2>4. z <= b /\ b <= Len(s) /\ \A l \in z + 1 .. b : l \notin K /\ l \notin D
    BY <1>1, <1>2, <2>2, <2>3 DEF D
  <2>5. Picked(s, K)[b] = Picked(s, K)[z] /\ Picked(s, D)[b] = Picked(s, D)[z]
    BY <1>1, <2>4, PickedFlat, Zenon
  <2>6. j \notin D
    BY DEF D
  <2>7. /\ Picked(s, K)[j] = Append(Picked(s, K)[j - 1], s[j])
        /\ Picked(s, D)[j] = Picked(s, D)[j - 1]
    <3>1. j = b + 1 /\ j <= Len(s)
      BY <1>1, <1>2, <2>3
    <3>2. j - 1 = b
      BY <2>3
    <3>3. Picked(s, K)[j] = Append(Picked(s, K)[b], s[j])
      BY <1>1, <1>2, <2>3, <3>1, PickedNext
    <3>4. Picked(s, D)[j] = Picked(s, D)[b]
      BY <1>1, <1>2, <2>3, <2>6, <3>1, PickedNext
    <3>. QED  BY <3>2, <3>3, <3>4
  <2>8. Picked(s, K)[j] = Append(<<>>, s[j]) /\ Picked(s, D)[j] = <<>>
    BY <2>1, <2>2, <2>3, <2>5, <2>7
  <2>. QED  BY <2>8
<1>4. 0 \in T
  BY <1>2
<1>5. ASSUME NEW n \in T PROVE n + 1 \in T
  <2>. n \in Nat
    BY <1>5
  <2>1. CASE j <= n /\ n + 1 <= Len(s)
    <3>1. PICK m \in Nat : m = n + 1
      OBVIOUS
    <3>2. m <= Len(s) /\ m \in 1 .. Len(s) /\ m # j /\ n \in 0 .. Len(s)
      BY <1>1, <1>2, <2>1, <3>1
    <3>3. Picked(s, K)[m] = IF m \in K THEN Append(Picked(s, K)[n], s[m]) ELSE Picked(s, K)[n]
      BY <1>1, <3>1, <3>2, PickedNext
    <3>4. Picked(s, D)[m] = IF m \in D THEN Append(Picked(s, D)[n], s[m]) ELSE Picked(s, D)[n]
      BY <1>1, <3>1, <3>2, PickedNext
    <3>5. m \in D <=> m \in K
      BY <3>2
    <3>6. Picked(s, K)[n] = <<s[j]>> \o Picked(s, D)[n]
      <4>1. n <= Len(s)
        BY <1>1, <2>1
      <4>. HIDE DEF D
      <4>. QED  BY <1>5, <2>1, <4>1
    <3>. DEFINE q == Picked(s, D)[n]
                e == s[m]
                h == <<s[j]>>
    <3>7. q \in Seq(E) /\ e \in E /\ h \in Seq(E)
      <4>. HIDE DEF D
      <4>. QED  BY <1>1, <3>2, PickedType
    <3>8. Append(h \o q, e) = h \o Append(q, e)
      <4>. HIDE DEF q, e, h
      <4>1. Append(q, e) = q \o <<e>> /\ Append(h \o q, e) = (h \o q) \o <<e>>
        BY <3>7, AppendIsConcat, ConcatProperties
      <4>2. PICK u : u = <<e>>
        OBVIOUS
      <4>3. u \in Seq(E)
        BY <3>7, <4>2
      <4>4. (h \o q) \o u = h \o (q \o u)
        BY <3>7, <4>3, ConcatAssociative, SMTT(30)
      <4>. QED  BY <4>1, <4>2, <4>4
    <3>. HIDE DEF D
    <3>. QED  BY <3>1, <3>3, <3>4, <3>5, <3>6, <3>8 DEF T
  <2>2. CASE n + 1 = j
    <3>. HIDE DEF D
    <3>1. Picked(s, K)[j] = <<s[j]>> \o Picked(s, D)[j]
      BY <1>3
    <3>. QED  BY <2>2, <3>1
  <2>3. CASE ~(j <= n /\ n + 1 <= Len(s)) /\ n + 1 # j
    BY <1>1, <2>3
  <2>. QED  BY <2>1, <2>2, <2>3
<1>6. T \subseteq Nat
  OBVIOUS
<1>. HIDE DEF T
<1>7. T = Nat
  BY <1>4, <1>5, <1>6, Induction
<1>8. top \in Nat /\ j <= top /\ top <= Len(s)
  BY <1>1
<1>. HIDE DEF D
<1>9. Picked(s, K)[top] = <<s[j]>> \o Picked(s, D)[top]
  BY <1>7, <1>8 DEF T
<1>. QED  BY <1>9 DEF D, Prefixed

LEMMA SubsequenceType ==
  ASSUME NEW E, NEW s \in Seq(E), NEW K
  PROVE  Subsequence(s, K) \in Seq(E)
<1>1. Len(s) \in 0 .. Len(s)
  BY LenProperties
<1>. QED  BY <1>1, PickedType, SubsequenceIs

LEMMA SubsequenceSame ==
  ASSUME NEW s, NEW t, NEW K, NEW L, Len(s) \in Nat, Len(t) \in Nat, Len(s) <= Len(t),
         \A j \in 1 .. Len(s) : (j \in K <=> j \in L) /\ (j \in K => s[j] = t[j]),
         \A j \in Len(s) + 1 .. Len(t) : j \notin L
  PROVE  Subsequence(s, K) = Subsequence(t, L)
<1>1. PICK n \in Nat : n = Len(s)
  OBVIOUS
<1>2. PICK m \in Nat : m = Len(t)
  OBVIOUS
<1>3. n <= Len(s) /\ n <= Len(t) /\ n \in 0 .. n
  BY <1>1
<1>4. \A j \in 1 .. n : (j \in K <=> j \in L) /\ (j \in K => s[j] = t[j])
  BY <1>1
<1>5. Picked(s, K)[n] = Picked(t, L)[n]
  BY <1>3, <1>4, PickedSame
<1>6. n <= m /\ m <= Len(t) /\ \A j \in n + 1 .. m : j \notin L
  BY <1>1, <1>2
<1>7. Picked(t, L)[m] = Picked(t, L)[n]
  BY <1>6, PickedFlat
<1>. QED  BY <1>1, <1>2, <1>5, <1>7, SubsequenceIs

LEMMA SubsequenceNone ==
  ASSUME NEW s, NEW K, Len(s) \in Nat, \A j \in 1 .. Len(s) : j \notin K
  PROVE  Subsequence(s, K) = <<>>
<1>1. PICK n \in Nat : n = Len(s)
  OBVIOUS
<1>2. PICK z \in Nat : z = 0
  OBVIOUS
<1>3. z <= n /\ n <= Len(s) /\ \A j \in z + 1 .. n : j \notin K
  BY <1>1, <1>2
<1>4. Picked(s, K)[n] = Picked(s, K)[z]
  BY <1>3, PickedFlat
<1>. QED  BY <1>1, <1>2, <1>4, PickedNone, SubsequenceIs

\* One more place, behind all the others.
LEMMA SubsequenceLast ==
  ASSUME NEW s, NEW K, NEW L, Len(s) \in Nat, NEW j \in 1 .. Len(s), j \in L,
         \A l \in 1 .. j - 1 : l \in K <=> l \in L,
         \A l \in j .. Len(s) : l \notin K,
         \A l \in j + 1 .. Len(s) : l \notin L
  PROVE  Subsequence(s, L) = Append(Subsequence(s, K), s[j])
<1>1. PICK n \in Nat : n = Len(s)
  OBVIOUS
<1>2. PICK b \in Nat : b = j - 1
  OBVIOUS
<1>3. j \in Nat /\ j = b + 1 /\ j <= Len(s) /\ b <= Len(s) /\ b <= n /\ n <= Len(s) /\ j <= n
        /\ b \in 0 .. b
  BY <1>1, <1>2
<1>4. \A l \in 1 .. b : (l \in K <=> l \in L) /\ (l \in K => s[l] = s[l])
  BY <1>2
<1>5. Picked(s, K)[b] = Picked(s, L)[b]
  BY <1>3, <1>4, PickedSame
<1>6. (\A l \in b + 1 .. n : l \notin K) /\ (\A l \in j + 1 .. n : l \notin L)
  BY <1>1, <1>2
<1>7. Picked(s, K)[n] = Picked(s, K)[b]
  BY <1>3, <1>6, PickedFlat
<1>8. Picked(s, L)[n] = Picked(s, L)[j]
  BY <1>3, <1>6, PickedFlat
<1>9. Picked(s, L)[j] = Append(Picked(s, L)[b], s[j])
  BY <1>3, PickedNext
<1>. QED  BY <1>1, <1>5, <1>7, <1>8, <1>9, SubsequenceIs

\* The first place.
LEMMA SubsequenceFirst ==
  ASSUME NEW E, NEW s \in Seq(E), NEW K, NEW j \in 1 .. Len(s), j \in K,
         \A l \in 1 .. j - 1 : l \notin K
  PROVE  /\ Head(Subsequence(s, K)) = s[j]
         /\ Tail(Subsequence(s, K)) = Subsequence(s, K \ {j})
<1>1. Len(s) \in Nat /\ s[j] \in E /\ Len(s) \in j .. Len(s) /\ Len(s) \in 0 .. Len(s)
  BY LenProperties, ElementOfSeq
<1>. DEFINE q == Subsequence(s, K \ {j})
            e == s[j]
<1>2. q \in Seq(E) /\ e \in E
  BY <1>1, SubsequenceType
<1>3. Subsequence(s, K) = <<e>> \o q
  <2>1. PICK n \in j .. Len(s) : n = Len(s)
    BY <1>1
  <2>2. Picked(s, K)[n] = Prefixed(s[j], Picked(s, K \ {j})[n])
    BY PickedFirst
  <2>. QED  BY <2>1, <2>2, SubsequenceIs DEF Prefixed
<1>. HIDE DEF q, e
<1>4. Head(<<e>> \o q) = e /\ Tail(<<e>> \o q) = q
  BY <1>2
<1>. QED  BY <1>3, <1>4 DEF q, e

\* Among places there is a least one.
LEMMA LeastOf ==
  ASSUME NEW K, NEW top \in Nat, NEW l \in 1 .. top, l \in K
  PROVE  \E j \in 1 .. top : j \in K /\ \A x \in 1 .. j - 1 : x \notin K
<1>. DEFINE T == {n \in Nat : (\E x \in 1 .. n : x \in 1 .. top /\ x \in K) =>
                    \E j \in 1 .. top : j \in K /\ \A x \in 1 .. j - 1 : x \notin K}
<1>2. 0 \in T
  OBVIOUS
<1>3. ASSUME NEW n \in T PROVE n + 1 \in T
  <2>. n \in Nat
    BY <1>3
  <2>1. CASE \E x \in 1 .. n : x \in 1 .. top /\ x \in K
    BY <1>3, <2>1
  <2>2. CASE ~\E x \in 1 .. n : x \in 1 .. top /\ x \in K
    <3>1. ASSUME NEW x \in 1 .. n + 1, x \in 1 .. top, x \in K
          PROVE  x = n + 1 /\ \A y \in 1 .. x - 1 : y \notin K
      BY <2>2, <3>1
    <3>. QED  BY <3>1
  <2>. QED  BY <2>1, <2>2
<1>4. T \subseteq Nat
  OBVIOUS
<1>. HIDE DEF T
<1>5. T = Nat
  BY <1>2, <1>3, <1>4, Induction
<1>6. l \in Nat /\ l \in 1 .. l
  OBVIOUS
<1>. QED  BY <1>5, <1>6 DEF T

\* What is picked begins with the least place there is.
LEMMA LeastPlace ==
  ASSUME NEW s, NEW K, Len(s) \in Nat, Subsequence(s, K) # <<>>
  PROVE  \E j \in 1 .. Len(s) : j \in K /\ \A l \in 1 .. j - 1 : l \notin K
<1>1. PICK l \in 1 .. Len(s) : l \in K
  BY SubsequenceNone
<1>. QED  BY <1>1, LeastOf

LEMMA SubsequenceEmpty ==
  ASSUME NEW E, NEW s \in Seq(E), NEW K, Subsequence(s, K) = <<>>
  PROVE  \A j \in 1 .. Len(s) : j \notin K
<1>1. Len(s) \in Nat /\ \A j \in 1 .. Len(s) : s[j] \in E
  BY LenProperties, ElementOfSeq
<1>2. SUFFICES ASSUME NEW l \in 1 .. Len(s), l \in K PROVE FALSE
  OBVIOUS
<1>3. PICK j \in 1 .. Len(s) : j \in K /\ \A x \in 1 .. j - 1 : x \notin K
  BY <1>1, <1>2, LeastOf
<1>4. PICK n \in j .. Len(s) : n = Len(s)
  BY <1>1
<1>5. Picked(s, K)[n] = Prefixed(s[j], Picked(s, K \ {j})[n])
  BY <1>3, PickedFirst
<1>. DEFINE q == Picked(s, K \ {j})[n]
            e == s[j]
<1>6. q \in Seq(E) /\ e \in E
  <2>1. n \in 0 .. Len(s)
    BY <1>1
  <2>. QED  BY <1>1, <2>1, PickedType
<1>. HIDE DEF q, e
<1>7. <<e>> \o q # <<>>
  BY <1>6
<1>. QED  BY <1>4, <1>5, <1>7, SubsequenceIs DEF Prefixed, q, e

(***************************************************************************)
(* The invariant of the passes                                             *)
(***************************************************************************)

Among(chain, k, pass) == \E l \in 1 .. k : chain[l] = pass

\* A line after k passes that kept it.
Changed(chain, k, c) ==
  LET short == IF Among(chain, k, "minimize-input") THEN Minimize(c) ELSE c
  IN  IF Among(chain, k, "normalize") THEN Normalize(short) ELSE short

\* k passes keep the line, but for dedupe.
Clear(chain, k, c) ==
  \A l \in 1 .. k : chain[l] = "dedupe" \/ Keeps(chain[l], Changed(chain, l - 1, c), {})

\* No earlier line that reaches dedupe has the input of line j.
First(chain, lines, k, j) ==
  \A d \in 1 .. k : chain[d] = "dedupe" =>
    \A l \in 1 .. j - 1 : Clear(chain, d - 1, lines[l]) => lines[l].input # lines[j].input

\* The places of the lines that k passes let through.
Alive(chain, lines, k) ==
  {j \in 1 .. Len(lines) : Clear(chain, k, lines[j]) /\ First(chain, lines, k, j)}

\* The lines as they are after k passes, were none dropped.
Stage(chain, lines, k) == [j \in 1 .. Len(lines) |-> Changed(chain, k, lines[j])]

\* What k passes make of the lines behind low up to high.
Waiting(chain, lines, k, low, high) ==
  Subsequence(Stage(chain, lines, k), {j \in Alive(chain, lines, k) : low < j /\ j <= high})

\* The inputs of the lines up to high that k passes let through.
Met(chain, lines, k, high) ==
  {Changed(chain, k, lines[j]).input : j \in {l \in Alive(chain, lines, k) : l <= high}}

\* Pass k has read the lines up to p[k].
PipesAt(chain, lines, pipes, met, p) ==
  LET m == Len(chain)
  IN  /\ p[0] = Len(lines) /\ p[m + 1] = 0
      /\ \A k \in 1 .. m + 1 :
           p[k] <= p[k - 1] /\ pipes[k] = Waiting(chain, lines, k - 1, p[k], p[k - 1])
      /\ \A k \in 1 .. m :
           /\ chain[k] = "dedupe" => met = Met(chain, lines, k - 1, p[k])
           /\ \A j \in Alive(chain, lines, k - 1) :
                j <= p[k] => ~Raises(chain[k], Changed(chain, k - 1, lines[j]))

PipeInv ==
  /\ profile \in ProfileNames
  /\ DOMAIN pipe = 1 .. Len(Passing) + 1
  /\ mode = "JSONL" => \E p \in [0 .. Len(Passing) + 1 -> 0 .. Len(printed)] :
       PipesAt(Passing, printed, pipe, seen, p)

\* What may come before dedupe.
Early == {"filter-all-failure", "filter-all-success", "filter-ndecoded-same", "filter-incomparable"}

\* dedupe comes before what changes a line; no line is changed twice alike.
ChainOK(chain) ==
  /\ Len(chain) \in Nat /\ Len(chain) > 0 /\ DOMAIN chain = 1 .. Len(chain)
  /\ \A k \in 1 .. Len(chain) : chain[k] \in Installed
  /\ \A k, l \in 1 .. Len(chain) : l < k =>
       /\ chain[k] = "dedupe" => chain[l] \in Early
       /\ chain[k] \in {"minimize-input", "normalize"} => chain[l] # chain[k]

\* Only dedupe looks at earlier lines.
LEMMA KeepsAlone ==
  ASSUME NEW pass \in Installed, pass # "dedupe", NEW c, NEW S, NEW Q
  PROVE  Keeps(pass, c, S) <=> Keeps(pass, c, Q)
BY DEF Keeps, Installed

LEMMA DedupeKeeps == ASSUME NEW c, NEW S PROVE Keeps("dedupe", c, S) <=> c.input \notin S
BY DEF Keeps, Dedupe

LEMMA ChangedNone == ASSUME NEW chain, NEW c PROVE Changed(chain, 0, c) = c
<1>1. \A pass : ~Among(chain, 0, pass)
  BY DEF Among
<1>. QED  BY <1>1 DEF Changed

\* A line, whatever its input.
LineOK(c) == c = [input |-> c.input, outputs |-> c.outputs] /\ c.outputs \in Seq(PrintedOutput)

LEMMA NormalizeParts ==
  ASSUME NEW c, LineOK(c)
  PROVE  /\ Normalize(c).input = c.input
         /\ DOMAIN Normalize(c).outputs = DOMAIN c.outputs
         /\ \A w \in DOMAIN c.outputs :
              /\ Normalize(c).outputs[w].so = c.outputs[w].so
              /\ Normalize(c).outputs[w].status = c.outputs[w].status
              /\ Normalize(c).outputs[w].ndecoded = c.outputs[w].ndecoded
              /\ Normalize(c).outputs[w].result = Normalized(c.outputs[w].result)
         /\ Normalize(c) = [input |-> c.input, outputs |-> Normalize(c).outputs]
<1>. DEFINE T(o) == [o EXCEPT !.result = Normalized(o.result), !.len = Len(Normalized(o.result))]
            F == [w \in DOMAIN c.outputs |-> T(c.outputs[w])]
<1>1. Normalize(c) = [c EXCEPT !.outputs = F]
  BY DEF Normalize
<1>2. ASSUME NEW o \in PrintedOutput
      PROVE  /\ T(o).so = o.so /\ T(o).status = o.status /\ T(o).ndecoded = o.ndecoded
             /\ T(o).result = Normalized(o.result)
  BY DEF PrintedOutput
<1>3. c.outputs \in Seq(PrintedOutput)
  BY DEF LineOK
<1>4. \A w \in DOMAIN c.outputs : c.outputs[w] \in PrintedOutput
  BY <1>3, LenProperties, ElementOfSeq
<1>5. F = [w \in DOMAIN c.outputs |-> T(c.outputs[w])]
  OBVIOUS
<1>. HIDE DEF F
<1>6. [c EXCEPT !.outputs = F] = [input |-> c.input, outputs |-> F]
  BY DEF LineOK
<1>7. DOMAIN F = DOMAIN c.outputs /\ \A w \in DOMAIN c.outputs : F[w] = T(c.outputs[w])
  BY <1>5
<1>8. Normalize(c).outputs = F /\ Normalize(c).input = c.input
  BY <1>1, <1>6
<1>. HIDE DEF T
<1>. QED  BY <1>1, <1>2, <1>4, <1>6, <1>7, <1>8

LEMMA MinimizeParts ==
  ASSUME NEW c, LineOK(c)
  PROVE  /\ Minimize(c).outputs = c.outputs
         /\ Minimize(c).input = SubSeq(c.input, 1, Min({Len(c.input), 2 * MaxNDecoded(c)}))
         /\ Minimize(c) = [input |-> Minimize(c).input, outputs |-> c.outputs]
<1>. DEFINE s == SubSeq(c.input, 1, Min({Len(c.input), 2 * MaxNDecoded(c)}))
<1>1. Minimize(c) = [c EXCEPT !.input = s]
  BY DEF Minimize
<1>. HIDE DEF s
<1>2. [c EXCEPT !.input = s] = [input |-> s, outputs |-> c.outputs]
  BY DEF LineOK
<1>3. Minimize(c).outputs = c.outputs /\ Minimize(c).input = s
  BY <1>1, <1>2
<1>. QED  BY <1>1, <1>2, <1>3 DEF s

LEMMA NormalizeNDecoded ==
  ASSUME NEW c, LineOK(c)
  PROVE  NDecoded(Normalize(c)) = NDecoded(c)
<1>. DEFINE d == Normalize(c)
<1>1. DOMAIN d.outputs = DOMAIN c.outputs /\ \A w \in DOMAIN c.outputs : d.outputs[w].ndecoded =
        c.outputs[w].ndecoded
  BY NormalizeParts
<1>. HIDE DEF d
<1>2. NDecoded(d) = {d.outputs[w].ndecoded : w \in DOMAIN d.outputs}
  BY DEF NDecoded, Outputs
<1>3. NDecoded(c) = {c.outputs[w].ndecoded : w \in DOMAIN c.outputs}
  BY DEF NDecoded, Outputs
<1>. QED  BY <1>1, <1>2, <1>3 DEF d

LEMMA MinimizeOK == ASSUME NEW c, LineOK(c) PROVE LineOK(Minimize(c))
<1>. DEFINE d == Minimize(c)
<1>1. d.outputs = c.outputs /\ d = [input |-> d.input, outputs |-> c.outputs]
  BY MinimizeParts
<1>. HIDE DEF d
<1>2. LineOK(d)
  BY <1>1 DEF LineOK
<1>. QED  BY <1>2 DEF d

\* The two passes that change a line may come in either order.
LEMMA ChangesCommute ==
  ASSUME NEW c, LineOK(c)
  PROVE  Minimize(Normalize(c)) = Normalize(Minimize(c))
<1>. DEFINE n == Normalize(c)
            d == Minimize(c)
            T(o) == [o EXCEPT !.result = Normalized(o.result), !.len = Len(Normalized(o.result))]
            F(e) == [w \in DOMAIN e.outputs |-> T(e.outputs[w])]
<1>1. \A e : Normalize(e) = [e EXCEPT !.outputs = F(e)]
  BY DEF Normalize
<1>2. n = [input |-> c.input, outputs |-> F(c)]
  <2>1. n = [c EXCEPT !.outputs = F(c)]
    BY <1>1
  <2>. HIDE DEF F, n
  <2>. QED  BY <2>1 DEF LineOK
<1>3. MaxNDecoded(n) = MaxNDecoded(c)
  BY NormalizeNDecoded DEF MaxNDecoded
<1>4. LineOK(d) /\ d.outputs = c.outputs /\ d = [input |-> d.input, outputs |-> c.outputs]
  BY MinimizeOK, MinimizeParts
<1>5. d.input = SubSeq(c.input, 1, Min({Len(c.input), 2 * MaxNDecoded(c)}))
  BY MinimizeParts
<1>6. Minimize(n) = [n EXCEPT !.input = SubSeq(n.input, 1, Min({Len(n.input), 2 * MaxNDecoded(n)}))]
  BY DEF Minimize
<1>7. Normalize(d) = [d EXCEPT !.outputs = F(d)]
  BY <1>1
<1>8. F(d) = F(c)
  BY <1>4
<1>. HIDE DEF F, n, d
<1>9. n.input = c.input
  BY <1>2
<1>10. Minimize(n) = [n EXCEPT !.input = d.input]
  BY <1>3, <1>5, <1>6, <1>9
<1>11. Minimize(n) = [input |-> d.input, outputs |-> F(c)]
  BY <1>2, <1>10
<1>12. Normalize(d) = [input |-> d.input, outputs |-> F(c)]
  BY <1>4, <1>7, <1>8
<1>. QED  BY <1>11, <1>12 DEF n, d

\* What one more pass makes of a line.
LEMMA ChangedStep ==
  ASSUME NEW chain, ChainOK(chain), NEW k \in 1 .. Len(chain), NEW c, LineOK(c)
  PROVE  Changed(chain, k, c) = Emits(chain[k], Changed(chain, k - 1, c))
<1>1. k \in Nat /\ k > 0 /\ Len(chain) \in Nat
  BY DEF ChainOK
<1>2. \A pass : Among(chain, k, pass) <=> chain[k] = pass \/ Among(chain, k - 1, pass)
  BY <1>1 DEF Among
<1>3. \A l \in 1 .. k - 1 : chain[k] \in {"minimize-input", "normalize"} => chain[l] # chain[k]
  BY <1>1 DEF ChainOK
<1>4. chain[k] \in {"minimize-input", "normalize"} => ~Among(chain, k - 1, chain[k])
  BY <1>3 DEF Among
<1>5. CASE chain[k] = "minimize-input"
  <2>1. Changed(chain, k - 1, c) = IF Among(chain, k - 1, "normalize") THEN Normalize(c) ELSE c
    BY <1>4, <1>5 DEF Changed
  <2>2. Changed(chain, k, c) = IF Among(chain, k - 1, "normalize")
          THEN Normalize(Minimize(c)) ELSE Minimize(c)
    BY <1>2, <1>5 DEF Changed
  <2>3. \A d : Emits(chain[k], d) = Minimize(d)
    BY <1>5 DEF Emits
  <2>. QED  BY <2>1, <2>2, <2>3, ChangesCommute
<1>6. CASE chain[k] = "normalize"
  <2>1. \A d : Emits(chain[k], d) = Normalize(d)
    BY <1>6 DEF Emits
  <2>. QED  BY <1>2, <1>4, <1>6, <2>1 DEF Changed
<1>7. CASE chain[k] \notin {"minimize-input", "normalize"}
  <2>1. \A d : Emits(chain[k], d) = d
    BY <1>7 DEF Emits
  <2>. QED  BY <1>2, <1>7, <2>1 DEF Changed
<1>. QED  BY <1>5, <1>6, <1>7

\* Lines that a document of mish2jsonl may have.
LinesOK(lines) ==
  Len(lines) \in Nat /\ DOMAIN lines = 1 .. Len(lines) /\ \A j \in 1 .. Len(lines) :
    LineOK(lines[j])

LEMMA AliveNone ==
  ASSUME NEW chain, NEW lines
  PROVE  Alive(chain, lines, 0) = 1 .. Len(lines)
BY DEF Alive, Clear, First

LEMMA ClearStep ==
  ASSUME NEW chain, NEW k \in Nat, k > 0, NEW c
  PROVE  Clear(chain, k, c) <=>
           /\ Clear(chain, k - 1, c)
           /\ chain[k] = "dedupe" \/ Keeps(chain[k], Changed(chain, k - 1, c), {})
<1>1. \A l : l \in 1 .. k <=> l \in 1 .. k - 1 \/ l = k
  OBVIOUS
<1>. QED  BY <1>1, Zenon DEF Clear

LEMMA FirstStep ==
  ASSUME NEW chain, NEW lines, NEW k \in Nat, k > 0, NEW j
  PROVE  First(chain, lines, k, j) <=>
           /\ First(chain, lines, k - 1, j)
           /\ chain[k] = "dedupe" =>
                \A l \in 1 .. j - 1 : Clear(chain, k - 1, lines[l]) =>
                  lines[l].input # lines[j].input
<1>1. \A l : l \in 1 .. k <=> l \in 1 .. k - 1 \/ l = k
  OBVIOUS
<1>. QED  BY <1>1, Zenon DEF First

\* dedupe gets the lines as they were printed, and all that are clear.
LEMMA BeforeDedupe ==
  ASSUME NEW chain, ChainOK(chain), NEW k \in 1 .. Len(chain), chain[k] = "dedupe",
         NEW lines
  PROVE  /\ \A c : Changed(chain, k - 1, c) = c
         /\ Alive(chain, lines, k - 1) = {j \in 1 .. Len(lines) : Clear(chain, k - 1, lines[j])}
<1>1. k \in Nat /\ Len(chain) \in Nat
  BY DEF ChainOK
<1>2. \A l \in 1 .. k - 1 : chain[l] \notin {"dedupe", "minimize-input", "normalize"}
  BY <1>1 DEF ChainOK, Early
<1>3. ~Among(chain, k - 1, "minimize-input") /\ ~Among(chain, k - 1, "normalize")
  BY <1>2 DEF Among
<1>4. \A j : First(chain, lines, k - 1, j)
  BY <1>2 DEF First
<1>. QED  BY <1>3, <1>4 DEF Changed, Alive

\* The lines one more pass lets through.
LEMMA AliveStep ==
  ASSUME NEW chain, ChainOK(chain), NEW k \in 1 .. Len(chain), NEW lines, Len(lines) \in Nat, NEW j,
         NEW S, chain[k] = "dedupe" =>
           S = {Changed(chain, k - 1, lines[l]).input : l \in {x \in Alive(chain, lines, k - 1) :
             x < j}}
  PROVE  j \in Alive(chain, lines, k) <=>
           j \in Alive(chain, lines, k - 1) /\ Keeps(chain[k], Changed(chain, k - 1, lines[j]), S)
<1>1. k \in Nat /\ k > 0 /\ chain[k] \in Installed /\ Len(chain) \in Nat
  BY DEF ChainOK
<1>2. CASE chain[k] # "dedupe"
  <2>1. Keeps(chain[k], Changed(chain, k - 1, lines[j]), S) <=> Keeps(chain[k], Changed(chain,
          k - 1, lines[j]), {})
    BY <1>1, <1>2, KeepsAlone
  <2>2. Clear(chain, k, lines[j]) <=> Clear(chain, k - 1, lines[j])
          /\ Keeps(chain[k], Changed(chain, k - 1, lines[j]), {})
    BY <1>1, <1>2, ClearStep
  <2>3. First(chain, lines, k, j) <=> First(chain, lines, k - 1, j)
    BY <1>1, <1>2, FirstStep
  <2>. QED  BY <2>1, <2>2, <2>3, Zenon DEF Alive
<1>3. CASE chain[k] = "dedupe"
  <2>. DEFINE A == Alive(chain, lines, k - 1)
              far == \A l \in 1 .. j - 1 : Clear(chain, k - 1, lines[l]) =>
                lines[l].input # lines[j].input
  <2>1. /\ \A c : Changed(chain, k - 1, c) = c
        /\ \A l : l \in A <=> l \in 1 .. Len(lines) /\ Clear(chain, k - 1, lines[l])
    BY <1>3, BeforeDedupe
  <2>2. Clear(chain, k, lines[j]) <=> Clear(chain, k - 1, lines[j])
    BY <1>1, <1>3, ClearStep
  <2>3. First(chain, lines, k, j) <=> First(chain, lines, k - 1, j) /\ far
    BY <1>1, <1>3, FirstStep
  <2>4. j \in Alive(chain, lines, k) <=> j \in A /\ far
    BY <2>2, <2>3, Zenon DEF Alive
  <2>5. S = {lines[l].input : l \in {x \in A : x < j}}
    BY <1>3, <2>1
  <2>6. Keeps(chain[k], Changed(chain, k - 1, lines[j]), S) <=> lines[j].input \notin S
    BY <1>3, <2>1, DedupeKeeps
  <2>7. ASSUME j \in A PROVE far <=> lines[j].input \notin S
    <3>1. j \in 1 .. Len(lines)
      BY <2>1, <2>7
    <3>2. \A l : (l \in A /\ l < j) <=> (l \in 1 .. j - 1 /\ Clear(chain, k - 1, lines[l]))
      <4>. HIDE DEF A
      <4>. QED  BY <2>1, <3>1
    <3>. HIDE DEF A
    <3>. QED  BY <2>5, <3>2
  <2>. QED  BY <2>4, <2>6, <2>7
<1>. QED  BY <1>2, <1>3

LEMMA AliveShrinks ==
  ASSUME NEW chain, ChainOK(chain), NEW k \in 1 .. Len(chain), NEW lines
  PROVE  Alive(chain, lines, k) \subseteq Alive(chain, lines, k - 1)
<1>1. k \in Nat /\ k > 0
  BY DEF ChainOK
<1>. QED  BY <1>1, ClearStep, FirstStep DEF Alive

\* A line that is printed later changes nothing for the earlier ones.
LEMMA AliveMore ==
  ASSUME NEW chain, NEW k, NEW lines, NEW more, Len(lines) \in Nat, Len(more) \in Nat,
         Len(lines) <= Len(more), \A j \in 1 .. Len(lines) : more[j] = lines[j],
         NEW j \in 1 .. Len(lines)
  PROVE  j \in Alive(chain, more, k) <=> j \in Alive(chain, lines, k)
<1>1. \A l \in 1 .. j - 1 : l \in 1 .. Len(lines)
  OBVIOUS
<1>2. j \in 1 .. Len(more)
  OBVIOUS
<1>3. First(chain, more, k, j) <=> First(chain, lines, k, j)
  BY <1>1, Zenon DEF First
<1>. QED  BY <1>2, <1>3, Zenon DEF Alive

LEMMA StageType ==
  ASSUME NEW chain, NEW lines, NEW k, Len(lines) \in Nat
  PROVE  /\ Len(Stage(chain, lines, k)) = Len(lines)
         /\ \A j \in 1 .. Len(lines) : Stage(chain, lines, k)[j] = Changed(chain, k, lines[j])
         /\ Stage(chain, lines, k) \in Seq({Changed(chain, k, lines[j]) : j \in 1 .. Len(lines)})
<1>. DEFINE s == Stage(chain, lines, k)
            E == {Changed(chain, k, lines[j]) : j \in 1 .. Len(lines)}
<1>1. s = [j \in 1 .. Len(lines) |-> Changed(chain, k, lines[j])]
  BY DEF Stage
<1>2. s \in [1 .. Len(lines) -> E]
  BY <1>1
<1>. HIDE DEF s, E
<1>3. s \in Seq(E)
  BY <1>2, SeqDef
<1>4. Len(s) = Len(lines)
  BY <1>2, <1>3, LenProperties
<1>5. \A j \in 1 .. Len(lines) : s[j] = Changed(chain, k, lines[j])
  BY <1>1
<1>. QED  BY <1>3, <1>4, <1>5 DEF s, E

LEMMA WaitingMore ==
  ASSUME NEW chain, NEW k, NEW lines, NEW more, Len(lines) \in Nat, Len(more) \in Nat,
         Len(lines) <= Len(more), \A j \in 1 .. Len(lines) : more[j] = lines[j],
         NEW low \in Nat, NEW high \in Nat, high <= Len(lines)
  PROVE  Waiting(chain, more, k, low, high) = Waiting(chain, lines, k, low, high)
<1>. DEFINE s == Stage(chain, lines, k)
            t == Stage(chain, more, k)
            K == {j \in Alive(chain, lines, k) : low < j /\ j <= high}
            L == {j \in Alive(chain, more, k) : low < j /\ j <= high}
<1>1. Len(s) = Len(lines) /\ Len(t) = Len(more)
  BY StageType
<1>2. ASSUME NEW j \in 1 .. Len(lines) PROVE s[j] = t[j] /\ (j \in K <=> j \in L)
  <2>1. s[j] = Changed(chain, k, lines[j])
    BY StageType
  <2>2. t[j] = Changed(chain, k, more[j])
    <3>1. j \in 1 .. Len(more)
      OBVIOUS
    <3>. QED  BY <3>1, StageType
  <2>3. j \in Alive(chain, lines, k) <=> j \in Alive(chain, more, k)
    BY AliveMore
  <2>. QED  BY <2>1, <2>2, <2>3
<1>3. \A j \in Len(lines) + 1 .. Len(more) : j \notin L
  OBVIOUS
<1>. HIDE DEF s, t, K, L
<1>4. Subsequence(s, K) = Subsequence(t, L)
  BY <1>1, <1>2, <1>3, SubsequenceSame
<1>. QED  BY <1>4 DEF Waiting, s, t, K, L

LEMMA WaitingNone ==
  ASSUME NEW chain, NEW k, NEW lines, Len(lines) \in Nat, NEW low \in Nat
  PROVE  Waiting(chain, lines, k, low, low) = <<>>
<1>. DEFINE s == Stage(chain, lines, k)
            K == {j \in Alive(chain, lines, k) : low < j /\ j <= low}
<1>1. Len(s) \in Nat
  BY StageType
<1>2. \A j \in 1 .. Len(s) : j \notin K
  BY <1>1
<1>. HIDE DEF s, K
<1>3. Subsequence(s, K) = <<>>
  BY <1>1, <1>2, SubsequenceNone
<1>. QED  BY <1>3 DEF Waiting, s, K

\* Line j is the first of what waits; the others wait behind it.
ComesFirst(chain, k, lines, low, high, j) ==
  /\ j \in Alive(chain, lines, k) /\ \A l \in low + 1 .. j - 1 : l \notin Alive(chain, lines, k)
  /\ Head(Waiting(chain, lines, k, low, high)) = Changed(chain, k, lines[j])
  /\ Tail(Waiting(chain, lines, k, low, high)) = Waiting(chain, lines, k, j, high)

LEMMA WaitingTaken ==
  ASSUME NEW chain, NEW k, NEW lines, Len(lines) \in Nat, NEW low \in Nat, NEW high \in Nat,
         high <= Len(lines), Waiting(chain, lines, k, low, high) # <<>>
  PROVE  \E j \in low + 1 .. high : ComesFirst(chain, k, lines, low, high, j)
<1>. DEFINE s == Stage(chain, lines, k)
            E == {Changed(chain, k, lines[j]) : j \in 1 .. Len(lines)}
            A == Alive(chain, lines, k)
            K == {j \in A : low < j /\ j <= high}
<1>1. Len(s) = Len(lines) /\ s \in Seq(E)
  BY StageType
<1>2. A \subseteq 1 .. Len(lines)
  BY DEF Alive
<1>3. Subsequence(s, K) # <<>>
  BY DEF Waiting
<1>. HIDE DEF s, E, A
<1>4. PICK j \in 1 .. Len(s) : j \in K /\ \A l \in 1 .. j - 1 : l \notin K
  BY <1>1, <1>3, LeastPlace
<1>5. j \in low + 1 .. high /\ j \in A /\ \A l \in low + 1 .. j - 1 : l \notin A
  BY <1>1, <1>4
<1>. DEFINE L == {l \in A : j < l /\ l <= high}
<1>6. K \ {j} = L
  <2>1. ASSUME NEW l \in K, l # j PROVE j < l
    <3>1. l \in 1 .. Len(lines) /\ l \notin 1 .. j - 1
      BY <1>2, <1>4, <2>1
    <3>. QED  BY <1>1, <2>1, <3>1
  <2>2. ASSUME NEW l \in L PROVE l \in K /\ l # j
    BY <1>2, <1>5, <2>2
  <2>3. ASSUME NEW l \in K, l # j PROVE l \in L
    BY <2>1, <2>3
  <2>. QED  BY <2>2, <2>3
<1>7. Head(Subsequence(s, K)) = s[j] /\ Tail(Subsequence(s, K)) = Subsequence(s, K \ {j})
  <2>. HIDE DEF K
  <2>. QED  BY <1>1, <1>4, SubsequenceFirst
<1>8. s[j] = Changed(chain, k, lines[j])
  BY <1>1, StageType DEF s
<1>9. Waiting(chain, lines, k, low, high) = Subsequence(s, K)
  BY DEF Waiting, s, K, A
<1>10. Waiting(chain, lines, k, j, high) = Subsequence(s, L)
  BY DEF Waiting, s, L, A
<1>. QED  BY <1>5, <1>6, <1>7, <1>8, <1>9, <1>10 DEF A, ComesFirst

\* A pass is at line j; what it lets through waits behind the rest.
LEMMA WaitingPassed ==
  ASSUME NEW chain, NEW k, NEW lines, Len(lines) \in Nat, NEW low \in Nat, NEW high \in Nat,
         low <= high, NEW j \in high + 1 .. Len(lines),
         \A l \in high + 1 .. j - 1 : l \notin Alive(chain, lines, k)
  PROVE  Waiting(chain, lines, k, low, j) =
           IF j \in Alive(chain, lines, k)
           THEN Append(Waiting(chain, lines, k, low, high), Changed(chain, k, lines[j]))
           ELSE Waiting(chain, lines, k, low, high)
<1>. DEFINE s == Stage(chain, lines, k)
            A == Alive(chain, lines, k)
            K == {l \in A : low < l /\ l <= high}
            L == {l \in A : low < l /\ l <= j}
<1>0. j \in 1 .. Len(lines)
  OBVIOUS
<1>1. Len(s) = Len(lines) /\ s[j] = Changed(chain, k, lines[j])
  BY <1>0, StageType
<1>2. A \subseteq 1 .. Len(lines)
  BY DEF Alive
<1>3. Waiting(chain, lines, k, low, high) = Subsequence(s, K)
        /\ Waiting(chain, lines, k, low, j) = Subsequence(s, L)
  BY DEF Waiting
<1>. HIDE DEF s
<1>4. CASE j \in A
  <2>1. j \in 1 .. Len(s) /\ j \in L
    <3>. HIDE DEF A
    <3>. QED  BY <1>1, <1>4
  <2>2. \A l \in 1 .. j - 1 : l \in K <=> l \in L
    <3>1. \A l \in high + 1 .. j - 1 : l \notin A
      OBVIOUS
    <3>. HIDE DEF A
    <3>. QED  BY <3>1
  <2>3. (\A l \in j .. Len(s) : l \notin K) /\ (\A l \in j + 1 .. Len(s) : l \notin L)
    <3>. HIDE DEF A
    <3>. QED  BY <1>1
  <2>. HIDE DEF K, L
  <2>4. Subsequence(s, L) = Append(Subsequence(s, K), s[j])
    BY <1>1, <2>1, <2>2, <2>3, SubsequenceLast
  <2>. QED  BY <1>1, <1>3, <1>4, <2>4
<1>5. CASE j \notin A
  <2>1. \A l \in high + 1 .. j - 1 : l \notin A
    OBVIOUS
  <2>2. K = L
    <3>. HIDE DEF A
    <3>1. ASSUME NEW l \in A, low < l, l <= j PROVE l <= high
      <4>1. l \in Nat /\ l # j /\ l \notin high + 1 .. j - 1
        BY <1>2, <1>5, <2>1, <3>1
      <4>. QED  BY <3>1, <4>1
    <3>2. \A l \in A : l <= high => l <= j
      BY <1>2
    <3>. QED  BY <3>1, <3>2
  <2>. HIDE DEF A
  <2>. QED  BY <1>3, <1>5, <2>2 DEF A
<1>. QED  BY <1>4, <1>5

\* No line behind high and before j gets through k passes.
NoneBetween(chain, k, lines, high, j) == \A l \in high + 1 .. j - 1 : l \notin Alive(chain, lines, k)

\* What waits up to line j is what waits up to high, and line j if it gets through.
GrowsBy(chain, k, lines, low, high, j) ==
  Waiting(chain, lines, k, low, j) =
    IF j \in Alive(chain, lines, k)
    THEN Append(Waiting(chain, lines, k, low, high), Changed(chain, k, lines[j]))
    ELSE Waiting(chain, lines, k, low, high)

\* The same in these words.
LEMMA WaitingGrows ==
  ASSUME NEW chain, NEW k, NEW lines, Len(lines) \in Nat, NEW low \in Nat, NEW high \in Nat,
         low <= high, NEW j \in high + 1 .. Len(lines), NoneBetween(chain, k, lines, high, j)
  PROVE  GrowsBy(chain, k, lines, low, high, j)
<1>1. \A l \in high + 1 .. j - 1 : l \notin Alive(chain, lines, k)
  BY DEF NoneBetween
<1>. QED  BY <1>1, WaitingPassed DEF GrowsBy

\* Nothing waits.
LEMMA WaitingEmpty ==
  ASSUME NEW chain, NEW k, NEW lines, Len(lines) \in Nat, NEW low \in Nat, NEW high \in Nat,
         Waiting(chain, lines, k, low, high) = <<>>
  PROVE  \A j \in Alive(chain, lines, k) : ~(low < j /\ j <= high)
<1>. DEFINE s == Stage(chain, lines, k)
            E == {Changed(chain, k, lines[j]) : j \in 1 .. Len(lines)}
            K == {l \in Alive(chain, lines, k) : low < l /\ l <= high}
<1>1. Len(s) = Len(lines) /\ s \in Seq(E)
  BY StageType
<1>2. Alive(chain, lines, k) \subseteq 1 .. Len(lines)
  BY DEF Alive
<1>3. Subsequence(s, K) = <<>>
  BY DEF Waiting
<1>4. \A j \in 1 .. Len(s) : j \notin K
  <2>. HIDE DEF s, E, K
  <2>. QED  BY <1>1, <1>3, SubsequenceEmpty
<1>. QED  BY <1>1, <1>2, <1>4

PlacesOf(chain, lines) == [0 .. Len(chain) + 1 -> 0 .. Len(lines)]

LinesAfter(chain, lines, k) == {Changed(chain, k, lines[j]) : j \in 1 .. Len(lines)}

LEMMA WaitingType ==
  ASSUME NEW chain, NEW k, NEW lines, Len(lines) \in Nat, NEW low, NEW high
  PROVE  Waiting(chain, lines, k, low, high) \in Seq(LinesAfter(chain, lines, k))
BY StageType, SubsequenceType DEF Waiting, LinesAfter

LEMMA MetMore ==
  ASSUME NEW chain, NEW k, NEW lines, NEW more, Len(lines) \in Nat, Len(more) \in Nat,
         Len(lines) <= Len(more), \A j \in 1 .. Len(lines) : more[j] = lines[j],
         NEW high \in Nat, high <= Len(lines)
  PROVE  Met(chain, more, k, high) = Met(chain, lines, k, high)
<1>. DEFINE A == {l \in Alive(chain, lines, k) : l <= high}
            B == {l \in Alive(chain, more, k) : l <= high}
<1>1. Alive(chain, lines, k) \subseteq 1 .. Len(lines)
        /\ Alive(chain, more, k) \subseteq 1 .. Len(more)
  BY DEF Alive
<1>2. \A j \in 1 .. Len(lines) : j \in Alive(chain, more, k) <=> j \in Alive(chain, lines, k)
  BY AliveMore
<1>3. A = B
  <2>1. ASSUME NEW j \in B PROVE j \in 1 .. Len(lines)
    BY <1>1
  <2>. QED  BY <1>1, <1>2, <2>1
<1>4. \A j \in A : Changed(chain, k, more[j]) = Changed(chain, k, lines[j])
  BY <1>1
<1>5. Met(chain, more, k, high) = {Changed(chain, k, more[j]).input : j \in B}
  BY DEF Met
<1>6. Met(chain, lines, k, high) = {Changed(chain, k, lines[j]).input : j \in A}
  BY DEF Met
<1>. HIDE DEF A, B
<1>. QED  BY <1>3, <1>4, <1>5, <1>6

LEMMA PipesInit ==
  ASSUME NEW chain, ChainOK(chain), NEW pipes, pipes = [k \in 1 .. Len(chain) + 1 |-> <<>>]
  PROVE  \E p \in PlacesOf(chain, <<>>) : PipesAt(chain, <<>>, pipes, {}, p)
<1>. DEFINE m == Len(chain)
            p == [k \in 0 .. m + 1 |-> 0]
<1>1. m \in Nat
  BY DEF ChainOK
<1>2. PICK lines : lines = <<>>
  OBVIOUS
<1>3. Len(lines) = 0
  BY <1>2
<1>4. \A k \in 0 .. m + 1 : p[k] = 0
  OBVIOUS
<1>5. p \in PlacesOf(chain, lines)
  BY <1>3 DEF PlacesOf
<1>. HIDE DEF p
<1>6. ASSUME NEW k \in 1 .. m + 1
      PROVE  p[k] <= p[k - 1] /\ pipes[k] = Waiting(chain, lines, k - 1, p[k], p[k - 1])
  <2>1. p[k] = 0 /\ p[k - 1] = 0
    BY <1>1, <1>4
  <2>2. Waiting(chain, lines, k - 1, 0, 0) = <<>>
    BY <1>3, WaitingNone
  <2>. QED  BY <2>1, <2>2
<1>7. ASSUME NEW k PROVE Alive(chain, lines, k) = {}
  BY <1>3 DEF Alive
<1>8. \A k \in 1 .. m : {} = Met(chain, lines, k - 1, p[k])
  BY <1>7 DEF Met
<1>9. p[0] = Len(lines) /\ p[m + 1] = 0
  BY <1>1, <1>3, <1>4
<1>10. PipesAt(chain, lines, pipes, {}, p)
  BY <1>6, <1>7, <1>8, <1>9 DEF PipesAt
<1>. QED  BY <1>2, <1>5, <1>10

\* A line is printed.
LEMMA PipesPrint ==
  ASSUME NEW chain, ChainOK(chain), NEW lines, NEW more, NEW c, NEW pipes, NEW met, NEW next,
         NEW p \in PlacesOf(chain, lines), PipesAt(chain, lines, pipes, met, p),
         Len(lines) \in Nat, Len(more) = Len(lines) + 1, more[Len(lines) + 1] = c,
         \A j \in 1 .. Len(lines) : more[j] = lines[j],
         DOMAIN pipes = 1 .. Len(chain) + 1, next = [pipes EXCEPT ![1] = Append(@, c)]
  PROVE  \E q \in PlacesOf(chain, more) : PipesAt(chain, more, next, met, q)
<1>. DEFINE m == Len(chain)
            n == Len(lines)
            q == [p EXCEPT ![0] = n + 1]
<1>1. m \in Nat /\ m > 0 /\ n \in Nat /\ Len(more) \in Nat /\ n <= Len(more) /\ Len(more) = n + 1
  BY DEF ChainOK
<1>2. DOMAIN p = 0 .. m + 1 /\ \A k \in 0 .. m + 1 : p[k] \in Nat /\ p[k] <= n
  BY DEF PlacesOf
<1>3. q[0] = n + 1 /\ \A k \in 1 .. m + 1 : q[k] = p[k]
  BY <1>1, <1>2
<1>4. q \in PlacesOf(chain, more)
  BY <1>1, <1>2 DEF PlacesOf
<1>5. /\ p[0] = n /\ p[m + 1] = 0
      /\ \A k \in 1 .. m + 1 : p[k] <= p[k - 1] /\ pipes[k] = Waiting(chain, lines, k - 1, p[k],
           p[k - 1])
      /\ \A k \in 1 .. m :
           /\ chain[k] = "dedupe" => met = Met(chain, lines, k - 1, p[k])
           /\ \A j \in Alive(chain, lines, k - 1) :
                j <= p[k] => ~Raises(chain[k], Changed(chain, k - 1, lines[j]))
  BY DEF PipesAt
<1>6. next[1] = Append(pipes[1], c) /\ \A k \in 2 .. m + 1 : next[k] = pipes[k]
  BY <1>1
<1>. HIDE DEF q
<1>7. ASSUME NEW k \in 1 .. m + 1
      PROVE  q[k] <= q[k - 1] /\ next[k] = Waiting(chain, more, k - 1, q[k], q[k - 1])
  <2>1. CASE k = 1
    <3>1. p[1] \in Nat /\ p[1] <= n /\ q[1] = p[1] /\ q[k - 1] = n + 1
      BY <1>1, <1>2, <1>3, <2>1
    <3>2. pipes[1] = Waiting(chain, lines, 0, p[1], n)
      <4>1. pipes[k] = Waiting(chain, lines, k - 1, p[k], p[k - 1])
        BY <1>5
      <4>2. k - 1 = 0
        BY <2>1
      <4>. QED  BY <1>5, <2>1, <4>1, <4>2
    <3>3. Waiting(chain, more, 0, p[1], n) = Waiting(chain, lines, 0, p[1], n)
      BY <1>1, <3>1, WaitingMore
    <3>4. PICK j \in n + 1 .. Len(more) : j = n + 1
      BY <1>1
    <3>5. j \in Alive(chain, more, 0) /\ \A l \in n + 1 .. j - 1 : l \notin Alive(chain, more, 0)
      BY <1>1, <3>4, AliveNone
    <3>6. Waiting(chain, more, 0, p[1], j) = Append(Waiting(chain, more, 0, p[1], n),
            Changed(chain, 0, more[j]))
      <4>1. PICK low \in Nat, high \in Nat : low = p[1] /\ high = n
        BY <1>1, <3>1
      <4>2. low <= high /\ j \in high + 1 .. Len(more)
            /\ \A l \in high + 1 .. j - 1 : l \notin Alive(chain, more, 0)
        BY <1>1, <3>1, <3>4, <3>5, <4>1
      <4>3. Waiting(chain, more, 0, low, j) =
              IF j \in Alive(chain, more, 0)
              THEN Append(Waiting(chain, more, 0, low, high), Changed(chain, 0, more[j]))
              ELSE Waiting(chain, more, 0, low, high)
        <5>1. NoneBetween(chain, 0, more, high, j)
          BY <4>2 DEF NoneBetween
        <5>2. GrowsBy(chain, 0, more, low, high, j)
          BY <1>1, <4>2, <5>1, WaitingGrows
        <5>. QED  BY <5>2 DEF GrowsBy
      <4>. QED  BY <3>5, <4>1, <4>3
    <3>7. Changed(chain, 0, more[j]) = c
      BY <3>4, ChangedNone
    <3>8. next[k] = Waiting(chain, more, 0, p[1], n + 1)
      BY <1>6, <2>1, <3>2, <3>3, <3>4, <3>6, <3>7
    <3>9. k - 1 = 0
      BY <2>1
    <3>. QED  BY <2>1, <3>1, <3>8, <3>9
  <2>2. CASE k # 1
    <3>1. k - 1 \in 1 .. m + 1 /\ k \in 2 .. m + 1 /\ k \in 0 .. m + 1 /\ k - 1 \in 0 .. m + 1
      BY <1>1, <2>2
    <3>2. q[k] = p[k] /\ q[k - 1] = p[k - 1] /\ p[k] \in Nat /\ p[k - 1] \in Nat /\ p[k - 1] <= n
      BY <1>2, <1>3, <3>1
    <3>3. Waiting(chain, more, k - 1, p[k], p[k - 1]) = Waiting(chain, lines, k - 1, p[k], p[k - 1])
      BY <1>1, <3>2, WaitingMore
    <3>4. p[k] <= p[k - 1] /\ pipes[k] = Waiting(chain, lines, k - 1, p[k], p[k - 1])
      BY <1>5
    <3>. QED  BY <1>6, <3>1, <3>2, <3>3, <3>4
  <2>. QED  BY <2>1, <2>2
<1>8. ASSUME NEW k \in 1 .. m
      PROVE  /\ chain[k] = "dedupe" => met = Met(chain, more, k - 1, q[k])
             /\ \A j \in Alive(chain, more, k - 1) :
                  j <= q[k] => ~Raises(chain[k], Changed(chain, k - 1, more[j]))
  <2>1. q[k] = p[k] /\ p[k] \in Nat /\ p[k] <= n
    BY <1>1, <1>2, <1>3
  <2>2. Met(chain, more, k - 1, p[k]) = Met(chain, lines, k - 1, p[k])
    BY <1>1, <2>1, MetMore
  <2>3. ASSUME NEW j \in Alive(chain, more, k - 1), j <= p[k]
        PROVE  ~Raises(chain[k], Changed(chain, k - 1, more[j]))
    <3>1. j \in 1 .. Len(more)
      BY DEF Alive
    <3>2. j \in 1 .. n
      BY <1>1, <2>1, <2>3, <3>1
    <3>3. j \in Alive(chain, lines, k - 1) /\ more[j] = lines[j]
      BY <1>1, <3>2, AliveMore
    <3>. QED  BY <1>5, <2>3, <3>3
  <2>. QED  BY <1>5, <2>1, <2>2, <2>3
<1>9. q[0] = Len(more) /\ q[m + 1] = 0
  BY <1>1, <1>3, <1>5
<1>10. PipesAt(chain, more, next, met, q)
  BY <1>7, <1>8, <1>9 DEF PipesAt
<1>. QED  BY <1>4, <1>10

\* The inputs met grow by that of the next line.
LEMMA MetNext ==
  ASSUME NEW chain, NEW k, NEW lines, Len(lines) \in Nat, NEW low \in Nat,
         NEW j \in low + 1 .. Len(lines),
         j \in Alive(chain, lines, k), \A l \in low + 1 .. j - 1 : l \notin Alive(chain, lines, k)
  PROVE  Met(chain, lines, k, j) = Met(chain, lines, k, low) \cup {Changed(chain, k,
           lines[j]).input}
<1>. DEFINE A == Alive(chain, lines, k)
            B == {l \in A : l <= low}
            C == {l \in A : l <= j}
<1>1. A \subseteq 1 .. Len(lines)
  BY DEF Alive
<1>2. j \in A /\ \A l \in low + 1 .. j - 1 : l \notin A
  OBVIOUS
<1>3. Met(chain, lines, k, j) = {Changed(chain, k, lines[l]).input : l \in C}
  BY DEF Met
<1>4. Met(chain, lines, k, low) = {Changed(chain, k, lines[l]).input : l \in B}
  BY DEF Met
<1>. HIDE DEF A
<1>5. C = B \cup {j}
  <2>1. ASSUME NEW l \in C, l # j PROVE l <= low
    <3>1. l \in Nat /\ l <= j /\ l \notin low + 1 .. j - 1
      BY <1>1, <1>2, <2>1
    <3>. QED  BY <2>1, <3>1
  <2>2. \A l \in B : l \in C
    BY <1>1
  <2>3. j \in C
    BY <1>2
  <2>. QED  BY <2>1, <2>2, <2>3
<1>. HIDE DEF B, C
<1>. QED  BY <1>3, <1>4, <1>5

\* Below line j are the lines up to the one before it.
LEMMA MetBelow ==
  ASSUME NEW chain, NEW k, NEW lines, Len(lines) \in Nat, NEW low \in Nat,
         NEW j \in low + 1 .. Len(lines),
         \A l \in low + 1 .. j - 1 : l \notin Alive(chain, lines, k)
  PROVE  Met(chain, lines, k, low) = {Changed(chain, k, lines[l]).input :
           l \in {x \in Alive(chain, lines, k) : x < j}}
<1>. DEFINE A == Alive(chain, lines, k)
<1>1. A \subseteq 1 .. Len(lines)
  BY DEF Alive
<1>2. \A l \in low + 1 .. j - 1 : l \notin A
  OBVIOUS
<1>3. {l \in A : l <= low} = {x \in A : x < j}
  <2>. HIDE DEF A
  <2>1. ASSUME NEW l \in A, l < j PROVE l <= low
    <3>1. l \in Nat /\ l \notin low + 1 .. j - 1
      BY <1>1, <1>2
    <3>. QED  BY <2>1, <3>1
  <2>2. \A l \in A : l <= low => l < j
    BY <1>1
  <2>. QED  BY <2>1, <2>2
<1>. QED  BY <1>3, Zenon DEF Met

Taken(chain, k, pipes, met, next, then) ==
  LET c == Head(pipes[k])
      out == IF Keeps(chain[k], c, met) THEN <<Emits(chain[k], c)>> ELSE <<>>
  IN  /\ pipes[k] # <<>> /\ ~Raises(chain[k], c)
      /\ next = [pipes EXCEPT ![k] = Tail(@), ![k + 1] = @ \o out]
      /\ then = IF chain[k] = "dedupe" THEN met \cup {c.input} ELSE met

\* A pass takes a line.
LEMMA PipesPass ==
  ASSUME NEW chain, ChainOK(chain), NEW lines, LinesOK(lines), NEW pipes, NEW met, NEW next,
         NEW then,
         NEW p \in PlacesOf(chain, lines), PipesAt(chain, lines, pipes, met, p),
         DOMAIN pipes = 1 .. Len(chain) + 1,
         NEW k \in 1 .. Len(chain), Taken(chain, k, pipes, met, next, then)
  PROVE  \E q \in PlacesOf(chain, lines) : PipesAt(chain, lines, next, then, q)
<1>. DEFINE m == Len(chain)
            n == Len(lines)
            c == Head(pipes[k])
            out == IF Keeps(chain[k], c, met) THEN <<Emits(chain[k], c)>> ELSE <<>>
<1>0. /\ pipes[k] # <<>> /\ ~Raises(chain[k], c)
      /\ next = [pipes EXCEPT ![k] = Tail(@), ![k + 1] = @ \o out]
      /\ then = IF chain[k] = "dedupe" THEN met \cup {c.input} ELSE met
  BY DEF Taken
<1>. HIDE DEF c, out
<1>90. Len(lines) \in Nat
  BY DEF LinesOK
<1>1. m \in Nat /\ n \in Nat /\ k \in Nat /\ k - 1 \in Nat /\ k <= m /\ k - 1 \in 0 .. m + 1
        /\ k \in 0 .. m + 1 /\ k + 1 \in 0 .. m + 1
      /\ k \in 1 .. m + 1 /\ k + 1 \in 1 .. m + 1 /\ k # 0
  BY DEF ChainOK, LinesOK
<1>2. DOMAIN p = 0 .. m + 1 /\ \A x \in 0 .. m + 1 : p[x] \in Nat /\ p[x] <= n
  <2>1. Len(lines) \in Nat
    BY <1>1
  <2>. QED  BY <2>1 DEF PlacesOf
<1>3. /\ p[0] = n /\ p[m + 1] = 0
      /\ \A x \in 1 .. m + 1 : p[x] <= p[x - 1] /\ pipes[x] = Waiting(chain, lines, x - 1, p[x],
           p[x - 1])
      /\ \A x \in 1 .. m :
           /\ chain[x] = "dedupe" => met = Met(chain, lines, x - 1, p[x])
           /\ \A j \in Alive(chain, lines, x - 1) :
                j <= p[x] => ~Raises(chain[x], Changed(chain, x - 1, lines[j]))
  BY DEF PipesAt
<1>4. p[k] \in Nat /\ p[k - 1] \in Nat /\ p[k - 1] <= n /\ pipes[k] = Waiting(chain, lines,
        k - 1, p[k], p[k - 1])
      /\ p[k] <= p[k - 1] /\ p[k + 1] \in Nat /\ p[k + 1] <= p[k]
           /\ pipes[k + 1] = Waiting(chain, lines, k, p[k + 1], p[k])
  <2>1. PICK x \in 1 .. m + 1 : x = k + 1
    BY <1>1
  <2>2. x - 1 = k
    BY <1>1, <2>1
  <2>3. p[x] <= p[x - 1] /\ pipes[x] = Waiting(chain, lines, x - 1, p[x], p[x - 1])
    BY <1>3
  <2>. QED  BY <1>1, <1>2, <1>3, <2>1, <2>2, <2>3
<1>5. PICK j \in p[k] + 1 .. p[k - 1] :
           /\ j \in Alive(chain, lines, k - 1) /\ \A l \in p[k] + 1 .. j - 1 :
                l \notin Alive(chain, lines, k - 1)
           /\ c = Changed(chain, k - 1, lines[j])
           /\ Tail(pipes[k]) = Waiting(chain, lines, k - 1, j, p[k - 1])
  <2>1. PICK low \in Nat : low = p[k]
    BY <1>4
  <2>2. PICK high \in Nat : high = p[k - 1]
    BY <1>4
  <2>3. high <= Len(lines) /\ Waiting(chain, lines, k - 1, low, high) # <<>>
    BY <1>0, <1>4, <2>1, <2>2
  <2>5. PICK b : b = k - 1
    OBVIOUS
  <2>6. Waiting(chain, lines, b, low, high) # <<>>
    BY <2>3, <2>5
  <2>4. \E j \in low + 1 .. high : ComesFirst(chain, b, lines, low, high, j)
    BY <1>90, <2>3, <2>6, WaitingTaken
  <2>. QED  BY <1>4, <2>1, <2>2, <2>4, <2>5 DEF c, ComesFirst
<1>6. j \in Nat /\ j \in p[k] + 1 .. n /\ j \in 1 .. n /\ j \in 0 .. n /\ p[k] < j /\ j <= p[k - 1]
  BY <1>1, <1>4, <1>5
<1>. DEFINE q == [p EXCEPT ![k] = j]
<1>7. q[k] = j /\ \A x \in 0 .. m + 1 : x # k => q[x] = p[x]
  BY <1>1, <1>2
<1>8. q \in PlacesOf(chain, lines)
  BY <1>1, <1>2, <1>6 DEF PlacesOf
<1>9. next[k] = Tail(pipes[k]) /\ next[k + 1] = pipes[k + 1] \o out
      /\ \A x \in 1 .. m + 1 : x # k /\ x # k + 1 => next[x] = pipes[x]
  <2>1. PICK y \in 1 .. m + 1 : y = k + 1
    BY <1>1
  <2>2. y # k
    BY <1>1, <2>1
  <2>. DEFINE mid == [pipes EXCEPT ![k] = Tail(@)]
  <2>3. DOMAIN mid = 1 .. m + 1 /\ mid[k] = Tail(pipes[k]) /\ \A x \in 1 .. m + 1 : x # k =>
          mid[x] = pipes[x]
    BY <1>1
  <2>4. next = [mid EXCEPT ![y] = pipes[y] \o out]
    BY <1>0, <2>1
  <2>. HIDE DEF mid
  <2>. QED  BY <1>1, <2>1, <2>2, <2>3, <2>4
<1>10. LineOK(lines[j])
  BY <1>6 DEF LinesOK
<1>11. Changed(chain, k, lines[j]) = Emits(chain[k], c)
  BY <1>5, <1>10, ChangedStep
<1>12. j \in Alive(chain, lines, k) <=> Keeps(chain[k], c, met)
  <2>1. chain[k] = "dedupe" =>
          met = {Changed(chain, k - 1, lines[l]).input : l \in {x \in Alive(chain, lines,
            k - 1) : x < j}}
    <3>1. Met(chain, lines, k - 1, p[k]) =
            {Changed(chain, k - 1, lines[l]).input : l \in {x \in Alive(chain, lines, k - 1) :
              x < j}}
      BY <1>90, <1>4, <1>5, <1>6, MetBelow
    <3>. QED  BY <1>3, <3>1
  <2>2. j \in Alive(chain, lines, k) <=>
           j \in Alive(chain, lines, k - 1) /\ Keeps(chain[k], Changed(chain, k - 1, lines[j]), met)
    BY <1>1, <2>1, AliveStep
  <2>. QED  BY <1>5, <2>2
<1>13. next[k + 1] = Waiting(chain, lines, k, p[k + 1], j)
  <2>1. Alive(chain, lines, k) \subseteq Alive(chain, lines, k - 1)
    BY AliveShrinks
  <2>2. \A l \in p[k] + 1 .. j - 1 : l \notin Alive(chain, lines, k)
    BY <1>5, <2>1
  <2>9. PICK low \in Nat : low = p[k + 1]
    BY <1>4
  <2>10. PICK high \in Nat : high = p[k]
    BY <1>4
  <2>11. low <= high /\ j \in high + 1 .. Len(lines) /\ \A l \in high + 1 .. j - 1 :
           l \notin Alive(chain, lines, k)
    BY <1>4, <1>6, <2>2, <2>9, <2>10
  <2>12. NoneBetween(chain, k, lines, high, j)
    BY <2>11 DEF NoneBetween
  <2>13. GrowsBy(chain, k, lines, low, high, j)
    BY <1>90, <2>11, <2>12, WaitingGrows
  <2>3. Waiting(chain, lines, k, p[k + 1], j) =
          IF j \in Alive(chain, lines, k) THEN Append(Waiting(chain, lines, k, p[k + 1], p[k]),
            Changed(chain, k, lines[j]))
          ELSE Waiting(chain, lines, k, p[k + 1], p[k])
    BY <2>9, <2>10, <2>13 DEF GrowsBy
  <2>. DEFINE E == LinesAfter(chain, lines, k)
              w == pipes[k + 1]
              e == Changed(chain, k, lines[j])
  <2>4. w \in Seq(E)
    <3>1. Waiting(chain, lines, k, p[k + 1], p[k]) \in Seq(E)
      BY <1>90, WaitingType
    <3>. QED  BY <1>4, <3>1
  <2>8. e \in E
    BY <1>6 DEF LinesAfter
  <2>. HIDE DEF E, w, e
  <2>5. Append(w, e) = w \o <<e>> /\ w = w \o <<>>
    BY <2>4, <2>8, AppendIsConcat, ConcatEmptySeq
  <2>6. CASE j \in Alive(chain, lines, k)
    <3>1. out = <<e>>
      BY <1>11, <1>12, <2>6 DEF e, out
    <3>. QED  BY <1>4, <1>9, <2>3, <2>5, <2>6, <3>1 DEF w, e
  <2>7. CASE j \notin Alive(chain, lines, k)
    <3>1. out = <<>>
      BY <1>12, <2>7 DEF out
    <3>. QED  BY <1>4, <1>9, <2>3, <2>5, <2>7, <3>1 DEF w
  <2>. QED  BY <2>6, <2>7
<1>. HIDE DEF q
<1>14. ASSUME NEW x \in 1 .. m + 1
       PROVE  q[x] <= q[x - 1] /\ next[x] = Waiting(chain, lines, x - 1, q[x], q[x - 1])
  <2>1. CASE x = k
    <3>1. q[x - 1] = p[k - 1]
      BY <1>1, <1>7, <2>1
    <3>. QED  BY <1>5, <1>6, <1>7, <1>9, <2>1, <3>1
  <2>2. CASE x = k + 1
    <3>1. x - 1 = k /\ q[x] = p[k + 1]
      BY <1>1, <1>7, <2>2
    <3>. QED  BY <1>4, <1>6, <1>7, <1>13, <2>2, <3>1
  <2>3. CASE x # k /\ x # k + 1
    <3>1. x \in 0 .. m + 1 /\ x - 1 \in 0 .. m + 1 /\ x - 1 # k
      BY <1>1, <2>3
    <3>. QED  BY <1>3, <1>7, <1>9, <2>3, <3>1
  <2>. QED  BY <2>1, <2>2, <2>3
<1>15. ASSUME NEW x \in 1 .. m
       PROVE  /\ chain[x] = "dedupe" => then = Met(chain, lines, x - 1, q[x])
              /\ \A l \in Alive(chain, lines, x - 1) : l <= q[x] =>
                   ~Raises(chain[x], Changed(chain, x - 1, lines[l]))
  <2>1. CASE x = k
    <3>1. ASSUME chain[x] = "dedupe" PROVE then = Met(chain, lines, x - 1, q[x])
      <4>1. Met(chain, lines, k - 1, j) = Met(chain, lines, k - 1, p[k]) \cup {Changed(chain,
              k - 1, lines[j]).input}
        BY <1>1, <1>4, <1>5, <1>6, MetNext
      <4>. QED  BY <1>0, <1>3, <1>5, <1>7, <2>1, <3>1, <4>1
    <3>2. ASSUME NEW l \in Alive(chain, lines, x - 1), l <= q[x] PROVE ~Raises(chain[x],
                 Changed(chain, x - 1, lines[l]))
      <4>1. l \in Nat
        BY <3>2 DEF Alive
      <4>2. l <= p[k] \/ l \in p[k] + 1 .. j - 1 \/ l = j
        BY <1>4, <1>6, <1>7, <2>1, <3>2, <4>1
      <4>. QED  BY <1>0, <1>3, <1>5, <2>1, <3>2, <4>2
    <3>. QED  BY <3>1, <3>2
  <2>2. CASE x # k
    <3>1. q[x] = p[x]
      BY <1>1, <1>7, <2>2
    <3>2. ASSUME chain[x] = "dedupe" PROVE chain[k] # "dedupe"
      <4>1. x < k \/ k < x
        BY <1>1, <2>2
      <4>2. CASE x < k
        BY <3>2, <4>2 DEF ChainOK, Early
      <4>3. CASE k < x
        BY <3>2, <4>3 DEF ChainOK, Early
      <4>. QED  BY <4>1, <4>2, <4>3
    <3>3. chain[x] = "dedupe" => then = met
      BY <1>0, <3>2
    <3>. QED  BY <1>3, <3>1, <3>3
  <2>. QED  BY <2>1, <2>2
<1>16. q[0] = n /\ q[m + 1] = 0
  BY <1>1, <1>3, <1>7
<1>17. PipesAt(chain, lines, next, then, q)
  BY <1>14, <1>15, <1>16 DEF PipesAt
<1>. QED  BY <1>8, <1>17

LEMMA SubsequenceAll ==
  ASSUME NEW E, NEW s \in Seq(E), NEW K, \A j \in 1 .. Len(s) : j \in K
  PROVE  Subsequence(s, K) = s
<1>1. Len(s) \in Nat /\ \A j \in 1 .. Len(s) : s[j] \in E
  BY LenProperties, ElementOfSeq
<1>. DEFINE T == {n \in Nat : n <= Len(s) =>
                    Len(Picked(s, K)[n]) = n /\ \A j \in 1 .. n : Picked(s, K)[n][j] = s[j]}
<1>2. 0 \in T
  BY <1>1, PickedNone
<1>3. ASSUME NEW n \in T PROVE n + 1 \in T
  <2>. n \in Nat
    BY <1>3
  <2>1. CASE n + 1 <= Len(s)
    <3>1. PICK m \in Nat : m = n + 1
      OBVIOUS
    <3>2. m <= Len(s) /\ m \in 1 .. Len(s) /\ m \in K /\ n \in 0 .. Len(s)
      BY <1>1, <2>1, <3>1
    <3>. DEFINE q == Picked(s, K)[n]
                e == s[m]
    <3>3. Picked(s, K)[m] = Append(q, e)
      <4>. HIDE DEF T
      <4>1. Picked(s, K)[m] = IF m \in K THEN Append(Picked(s, K)[n], s[m]) ELSE Picked(s, K)[n]
        BY <1>1, <3>1, <3>2, PickedNext
      <4>. QED  BY <3>2, <4>1
    <3>4. q \in Seq(E) /\ e \in E
      BY <1>1, <3>2, PickedType
    <3>5. Len(q) = n /\ \A j \in 1 .. n : q[j] = s[j]
      BY <1>1, <1>3, <2>1
    <3>. HIDE DEF q, e
    <3>6. Len(Append(q, e)) = n + 1 /\ Append(q, e)[n + 1] = e
            /\ \A j \in 1 .. n : Append(q, e)[j] = q[j]
      BY <3>4, <3>5, AppendProperties
    <3>7. Len(Picked(s, K)[m]) = m /\ \A j \in 1 .. m : Picked(s, K)[m][j] = s[j]
      BY <3>1, <3>3, <3>5, <3>6 DEF e
    <3>. QED  BY <3>1, <3>7
  <2>2. CASE ~(n + 1 <= Len(s))
    BY <2>2
  <2>. QED  BY <2>1, <2>2
<1>4. T \subseteq Nat
  OBVIOUS
<1>. HIDE DEF T
<1>5. T = Nat
  BY <1>2, <1>3, <1>4, Induction
<1>6. PICK q : q = Subsequence(s, K)
  OBVIOUS
<1>7. PICK n \in Nat : n = Len(s)
  BY <1>1
<1>8. q = Picked(s, K)[n] /\ n \in 0 .. Len(s) /\ n <= Len(s)
  BY <1>6, <1>7, SubsequenceIs
<1>9. Len(q) = n /\ \A j \in 1 .. n : q[j] = s[j]
  BY <1>5, <1>8 DEF T
<1>10. q \in Seq(E)
  BY <1>8, PickedType
<1>11. q = s
  BY <1>7, <1>9, <1>10, SeqEqual
<1>. QED  BY <1>6, <1>11

(***************************************************************************)
(* The profiles                                                            *)
(***************************************************************************)

\* The passes of a profile that all exist.
LEMMA ChainIs ==
  ASSUME NEW name, Profile(name) \in Seq(Installed)
  PROVE  Chain(name) = Profile(name)
<1>. DEFINE s == Profile(name)
            K == {k \in DOMAIN s : s[k] \in Installed}
<1>1. DOMAIN s = 1 .. Len(s) /\ \A j \in 1 .. Len(s) : s[j] \in Installed
  BY LenProperties, ElementOfSeq
<1>2. \A j \in 1 .. Len(s) : j \in K
  BY <1>1
<1>3. s \in Seq(Installed)
  OBVIOUS
<1>. HIDE DEF s, K
<1>4. Subsequence(s, K) = s
  BY <1>2, <1>3, SubsequenceAll
<1>. QED  BY <1>4 DEF Chain, s, K

LEMMA Tuple1 ==
  ASSUME NEW S, NEW a \in S
  PROVE  <<a>> \in Seq(S)
OBVIOUS

LEMMA Tuple5 ==
  ASSUME NEW S, NEW a \in S, NEW b \in S, NEW c \in S, NEW d \in S, NEW e \in S
  PROVE  <<a, b, c, d, e>> \in Seq(S)
OBVIOUS

LEMMA Tuple6 ==
  ASSUME NEW S, NEW a \in S, NEW b \in S, NEW c \in S, NEW d \in S, NEW e \in S, NEW f \in S
  PROVE  <<a, b, c, d, e, f>> \in Seq(S)
OBVIOUS

LEMMA Tuple7 ==
  ASSUME NEW S, NEW a \in S, NEW b \in S, NEW c \in S, NEW d \in S, NEW e \in S, NEW f \in S,
         NEW g \in S
  PROVE  <<a, b, c, d, e, f, g>> \in Seq(S)
OBVIOUS

LEMMA DefaultChain ==
  Chain("default") = <<"filter-all-failure", "filter-ndecoded-same", "dedupe", "minimize-input",
    "normalize">>
<1>1. Profile("default") =
        <<"filter-all-failure", "filter-ndecoded-same", "dedupe", "minimize-input", "normalize">>
  BY DEF Profile
<1>2. "filter-all-failure" \in Installed /\ "filter-ndecoded-same" \in Installed
        /\ "dedupe" \in Installed /\ "minimize-input" \in Installed /\ "normalize" \in Installed
  BY DEF Installed
<1>3. <<"filter-all-failure", "filter-ndecoded-same", "dedupe", "minimize-input",
        "normalize">> \in Seq(Installed)
  BY <1>2, Tuple5
<1>. QED  BY <1>1, <1>3, ChainIs

LEMMA DedupeChain ==
  Chain("dedupe") = <<"dedupe">>
<1>1. Profile("dedupe") =
        <<"dedupe">>
  BY DEF Profile
<1>2. "dedupe" \in Installed
  BY DEF Installed
<1>3. <<"dedupe">> \in Seq(Installed)
  BY <1>2, Tuple1
<1>. QED  BY <1>1, <1>3, ChainIs

LEMMA SizeDiscrepanciesChain ==
  Chain("size-discrepancies") = <<"filter-all-failure", "filter-ndecoded-same",
    "filter-incomparable", "dedupe", "find-size-discrepancies", "minimize-input", "normalize">>
<1>1. Profile("size-discrepancies") =
        <<"filter-all-failure", "filter-ndecoded-same", "filter-incomparable", "dedupe",
          "find-size-discrepancies", "minimize-input", "normalize">>
  BY DEF Profile
<1>2. "filter-all-failure" \in Installed /\ "filter-ndecoded-same" \in Installed
        /\ "filter-incomparable" \in Installed /\ "dedupe" \in Installed
             /\ "find-size-discrepancies" \in Installed /\ "minimize-input" \in Installed
                  /\ "normalize" \in Installed
  BY DEF Installed
<1>3. <<"filter-all-failure", "filter-ndecoded-same", "filter-incomparable", "dedupe",
        "find-size-discrepancies", "minimize-input", "normalize">> \in Seq(Installed)
  BY <1>2, Tuple7
<1>. QED  BY <1>1, <1>3, ChainIs

LEMMA StatusDiscrepanciesChain ==
  Chain("status-discrepancies") = <<"filter-all-failure", "filter-all-success", "dedupe",
    "minimize-input", "normalize">>
<1>1. Profile("status-discrepancies") =
        <<"filter-all-failure", "filter-all-success", "dedupe", "minimize-input", "normalize">>
  BY DEF Profile
<1>2. "filter-all-failure" \in Installed /\ "filter-all-success" \in Installed
        /\ "dedupe" \in Installed /\ "minimize-input" \in Installed /\ "normalize" \in Installed
  BY DEF Installed
<1>3. <<"filter-all-failure", "filter-all-success", "dedupe", "minimize-input",
        "normalize">> \in Seq(Installed)
  BY <1>2, Tuple5
<1>. QED  BY <1>1, <1>3, ChainIs

LEMMA DestroyCapstoneChain ==
  Chain("destroy-capstone") = <<"filter-all-success", "filter-ndecoded-same", "dedupe",
    "filter-destroy-capstone", "minimize-input", "normalize">>
<1>1. Profile("destroy-capstone") =
        <<"filter-all-success", "filter-ndecoded-same", "dedupe", "filter-destroy-capstone",
          "minimize-input", "normalize">>
  BY DEF Profile
<1>2. "filter-all-success" \in Installed /\ "filter-ndecoded-same" \in Installed
        /\ "dedupe" \in Installed /\ "filter-destroy-capstone" \in Installed
             /\ "minimize-input" \in Installed /\ "normalize" \in Installed
  BY DEF Installed
<1>3. <<"filter-all-success", "filter-ndecoded-same", "dedupe", "filter-destroy-capstone",
        "minimize-input", "normalize">> \in Seq(Installed)
  BY <1>2, Tuple6
<1>. QED  BY <1>1, <1>3, ChainIs

LEMMA DestroyBddisasmChain ==
  Chain("destroy-bddisasm") = <<"filter-all-success", "filter-ndecoded-same", "dedupe",
    "filter-destroy-bddisasm", "minimize-input", "normalize">>
<1>1. Profile("destroy-bddisasm") =
        <<"filter-all-success", "filter-ndecoded-same", "dedupe", "filter-destroy-bddisasm",
          "minimize-input", "normalize">>
  BY DEF Profile
<1>2. "filter-all-success" \in Installed /\ "filter-ndecoded-same" \in Installed
        /\ "dedupe" \in Installed /\ "filter-destroy-bddisasm" \in Installed
             /\ "minimize-input" \in Installed /\ "normalize" \in Installed
  BY DEF Installed
<1>3. <<"filter-all-success", "filter-ndecoded-same", "dedupe", "filter-destroy-bddisasm",
        "minimize-input", "normalize">> \in Seq(Installed)
  BY <1>2, Tuple6
<1>. QED  BY <1>1, <1>3, ChainIs

LEMMA DestroyGhidraChain ==
  Chain("destroy-ghidra") = <<"filter-all-success", "filter-ndecoded-same", "dedupe",
    "normalize", "filter-ghidra-lock", "filter-destroy-ghidra", "minimize-input">>
<1>1. Profile("destroy-ghidra") =
        <<"filter-all-success", "filter-ndecoded-same", "dedupe", "normalize",
          "filter-ghidra-lock", "filter-destroy-ghidra", "minimize-input">>
  BY DEF Profile
<1>2. "filter-all-success" \in Installed /\ "filter-ndecoded-same" \in Installed
        /\ "dedupe" \in Installed /\ "normalize" \in Installed
             /\ "filter-ghidra-lock" \in Installed /\ "filter-destroy-ghidra" \in Installed
                  /\ "minimize-input" \in Installed
  BY DEF Installed
<1>3. <<"filter-all-success", "filter-ndecoded-same", "dedupe", "normalize",
        "filter-ghidra-lock", "filter-destroy-ghidra", "minimize-input">> \in Seq(Installed)
  BY <1>2, Tuple7
<1>. QED  BY <1>1, <1>3, ChainIs

LEMMA XedOveracceptChain ==
  Chain("xed-overaccept") = <<"filter-all-success", "filter-ndecoded-same", "dedupe",
    "filter-xed-find-overaccept", "minimize-input", "normalize">>
<1>1. Profile("xed-overaccept") =
        <<"filter-all-success", "filter-ndecoded-same", "dedupe", "filter-xed-find-overaccept",
          "minimize-input", "normalize">>
  BY DEF Profile
<1>2. "filter-all-success" \in Installed /\ "filter-ndecoded-same" \in Installed
        /\ "dedupe" \in Installed /\ "filter-xed-find-overaccept" \in Installed
             /\ "minimize-input" \in Installed /\ "normalize" \in Installed
  BY DEF Installed
<1>3. <<"filter-all-success", "filter-ndecoded-same", "dedupe", "filter-xed-find-overaccept",
        "minimize-input", "normalize">> \in Seq(Installed)
  BY <1>2, Tuple6
<1>. QED  BY <1>1, <1>3, ChainIs

LEMMA XedUnderacceptChain ==
  Chain("xed-underaccept") = <<"filter-all-success", "filter-ndecoded-same", "dedupe",
    "filter-bddisasm-salc", "filter-xed-find-underaccept", "minimize-input", "normalize">>
<1>1. Profile("xed-underaccept") =
        <<"filter-all-success", "filter-ndecoded-same", "dedupe", "filter-bddisasm-salc",
          "filter-xed-find-underaccept", "minimize-input", "normalize">>
  BY DEF Profile
<1>2. "filter-all-success" \in Installed /\ "filter-ndecoded-same" \in Installed
        /\ "dedupe" \in Installed /\ "filter-bddisasm-salc" \in Installed
             /\ "filter-xed-find-underaccept" \in Installed /\ "minimize-input" \in Installed
                  /\ "normalize" \in Installed
  BY DEF Installed
<1>3. <<"filter-all-success", "filter-ndecoded-same", "dedupe", "filter-bddisasm-salc",
        "filter-xed-find-underaccept", "minimize-input", "normalize">> \in Seq(Installed)
  BY <1>2, Tuple7
<1>. QED  BY <1>1, <1>3, ChainIs

\* One pass of this profile does not exist.
LEMMA SameSizeChain ==
  Chain("same-size-different-decodings") =
    <<"filter-any-failure", "filter-ndecoded-different", "minimize-input", "normalize">>
<1>. DEFINE s == Profile("same-size-different-decodings")
            K == {k \in DOMAIN s : s[k] \in Installed}
            t == <<"filter-any-failure", "filter-ndecoded-different", "filter-same-effects",
                   "minimize-input", "normalize">>
<1>1. s = t
  BY DEF Profile
<1>2. Len(t) = 5 /\ DOMAIN t = 1 .. 5 /\ t[1] = "filter-any-failure"
        /\ t[2] = "filter-ndecoded-different"
      /\ t[3] = "filter-same-effects" /\ t[4] = "minimize-input" /\ t[5] = "normalize"
  OBVIOUS
<1>3. t[1] \in Installed /\ t[2] \in Installed /\ t[3] \notin Installed /\ t[4] \in Installed
        /\ t[5] \in Installed
  BY <1>2 DEF Installed
<1>4. 1 \in K /\ 2 \in K /\ 3 \notin K /\ 4 \in K /\ 5 \in K
  BY <1>1, <1>2, <1>3
<1>5. Len(s) = 5
  BY <1>1, <1>2
<1>51. Len(s) \in Nat
  BY <1>5
<1>. HIDE DEF s, K
<1>6. Picked(s, K)[0] = <<>>
  BY <1>51, PickedNone
<1>21. Picked(s, K)[1] = Append(Picked(s, K)[0], s[1])
  <2>1. PICK n \in Nat, k \in Nat : n = 0 /\ k = 1
    OBVIOUS
  <2>2. k = n + 1 /\ k <= Len(s) /\ k \in K
    BY <1>4, <1>5, <2>1
  <2>3. Picked(s, K)[k] = IF k \in K THEN Append(Picked(s, K)[n], s[k]) ELSE Picked(s, K)[n]
    BY <1>51, <2>2, PickedNext
  <2>. QED  BY <2>1, <2>2, <2>3
<1>22. Picked(s, K)[2] = Append(Picked(s, K)[1], s[2])
  <2>1. PICK n \in Nat, k \in Nat : n = 1 /\ k = 2
    OBVIOUS
  <2>2. k = n + 1 /\ k <= Len(s) /\ k \in K
    BY <1>4, <1>5, <2>1
  <2>3. Picked(s, K)[k] = IF k \in K THEN Append(Picked(s, K)[n], s[k]) ELSE Picked(s, K)[n]
    BY <1>51, <2>2, PickedNext
  <2>. QED  BY <2>1, <2>2, <2>3
<1>23. Picked(s, K)[3] = Picked(s, K)[2]
  <2>1. PICK n \in Nat, k \in Nat : n = 2 /\ k = 3
    OBVIOUS
  <2>2. k = n + 1 /\ k <= Len(s) /\ k \notin K
    BY <1>4, <1>5, <2>1
  <2>3. Picked(s, K)[k] = IF k \in K THEN Append(Picked(s, K)[n], s[k]) ELSE Picked(s, K)[n]
    BY <1>51, <2>2, PickedNext
  <2>. QED  BY <2>1, <2>2, <2>3
<1>24. Picked(s, K)[4] = Append(Picked(s, K)[3], s[4])
  <2>1. PICK n \in Nat, k \in Nat : n = 3 /\ k = 4
    OBVIOUS
  <2>2. k = n + 1 /\ k <= Len(s) /\ k \in K
    BY <1>4, <1>5, <2>1
  <2>3. Picked(s, K)[k] = IF k \in K THEN Append(Picked(s, K)[n], s[k]) ELSE Picked(s, K)[n]
    BY <1>51, <2>2, PickedNext
  <2>. QED  BY <2>1, <2>2, <2>3
<1>25. Picked(s, K)[5] = Append(Picked(s, K)[4], s[5])
  <2>1. PICK n \in Nat, k \in Nat : n = 4 /\ k = 5
    OBVIOUS
  <2>2. k = n + 1 /\ k <= Len(s) /\ k \in K
    BY <1>4, <1>5, <2>1
  <2>3. Picked(s, K)[k] = IF k \in K THEN Append(Picked(s, K)[n], s[k]) ELSE Picked(s, K)[n]
    BY <1>51, <2>2, PickedNext
  <2>. QED  BY <2>1, <2>2, <2>3
<1>8. s[1] = "filter-any-failure" /\ s[2] = "filter-ndecoded-different"
        /\ s[4] = "minimize-input" /\ s[5] = "normalize"
  BY <1>1, <1>2
<1>. DEFINE E == {"filter-any-failure", "filter-ndecoded-different", "minimize-input", "normalize"}
            f == Picked(s, K)
<1>9. s[1] \in E /\ s[2] \in E /\ s[4] \in E /\ s[5] \in E
  BY <1>8
<1>. HIDE DEF E, f
<1>31. f[1] \in Seq(E) /\ Len(f[1]) = 1 /\ f[1][1] = "filter-any-failure"
  <2>. DEFINE e == s[1]
              g == f[0]
  <2>1. g \in Seq(E) /\ e \in E /\ Len(g) = 0
    BY <1>9, <1>6, EmptySeq DEF f
  <2>2. f[1] = Append(g, e)
    BY <1>21 DEF f
  <2>. HIDE DEF e, g
  <2>4. Append(g, e) \in Seq(E) /\ Len(Append(g, e)) = Len(g) + 1 /\ Append(g, e)[Len(g) + 1] = e
        /\ \A k \in 1 .. Len(g) : Append(g, e)[k] = g[k]
    <3>1. g \in Seq(E) /\ e \in E
      BY <2>1
    <3>. QED  BY <3>1, AppendProperties
  <2>3. Append(g, e) \in Seq(E) /\ Len(Append(g, e)) = 1 /\ Append(g, e)[1] = e
        /\ \A k \in 1 .. 0 : Append(g, e)[k] = g[k]
    BY <2>1, <2>4
  <2>. QED  BY <1>8, <2>2, <2>3 DEF e, g
<1>32. f[2] \in Seq(E) /\ Len(f[2]) = 2 /\ f[2][1] = "filter-any-failure"
         /\ f[2][2] = "filter-ndecoded-different"
  <2>. DEFINE e == s[2]
              g == f[1]
  <2>1. g \in Seq(E) /\ e \in E /\ Len(g) = 1
    BY <1>9, <1>31 DEF f
  <2>2. f[2] = Append(g, e)
    BY <1>22 DEF f
  <2>. HIDE DEF e, g
  <2>4. Append(g, e) \in Seq(E) /\ Len(Append(g, e)) = Len(g) + 1 /\ Append(g, e)[Len(g) + 1] = e
        /\ \A k \in 1 .. Len(g) : Append(g, e)[k] = g[k]
    <3>1. g \in Seq(E) /\ e \in E
      BY <2>1
    <3>. QED  BY <3>1, AppendProperties
  <2>3. Append(g, e) \in Seq(E) /\ Len(Append(g, e)) = 2 /\ Append(g, e)[2] = e
        /\ \A k \in 1 .. 1 : Append(g, e)[k] = g[k]
    BY <2>1, <2>4
  <2>. QED  BY <1>8, <2>2, <2>3, <1>31 DEF e, g
<1>34. f[4] \in Seq(E) /\ Len(f[4]) = 3 /\ f[4][1] = "filter-any-failure"
         /\ f[4][2] = "filter-ndecoded-different" /\ f[4][3] = "minimize-input"
  <2>. DEFINE e == s[4]
              g == f[3]
  <2>1. g \in Seq(E) /\ e \in E /\ Len(g) = 2
    BY <1>9, <1>32, <1>23 DEF f
  <2>2. f[4] = Append(g, e)
    BY <1>24 DEF f
  <2>. HIDE DEF e, g
  <2>4. Append(g, e) \in Seq(E) /\ Len(Append(g, e)) = Len(g) + 1 /\ Append(g, e)[Len(g) + 1] = e
        /\ \A k \in 1 .. Len(g) : Append(g, e)[k] = g[k]
    <3>1. g \in Seq(E) /\ e \in E
      BY <2>1
    <3>. QED  BY <3>1, AppendProperties
  <2>3. Append(g, e) \in Seq(E) /\ Len(Append(g, e)) = 3 /\ Append(g, e)[3] = e
        /\ \A k \in 1 .. 2 : Append(g, e)[k] = g[k]
    BY <2>1, <2>4
  <2>. QED  BY <1>8, <2>2, <2>3, <1>32, <1>23 DEF e, g, f
<1>35. f[5] \in Seq(E) /\ Len(f[5]) = 4 /\ f[5][1] = "filter-any-failure"
         /\ f[5][2] = "filter-ndecoded-different" /\ f[5][3] = "minimize-input"
              /\ f[5][4] = "normalize"
  <2>. DEFINE e == s[5]
              g == f[4]
  <2>1. g \in Seq(E) /\ e \in E /\ Len(g) = 3
    BY <1>9, <1>34 DEF f
  <2>2. f[5] = Append(g, e)
    BY <1>25 DEF f
  <2>. HIDE DEF e, g
  <2>4. Append(g, e) \in Seq(E) /\ Len(Append(g, e)) = Len(g) + 1 /\ Append(g, e)[Len(g) + 1] = e
        /\ \A k \in 1 .. Len(g) : Append(g, e)[k] = g[k]
    <3>1. g \in Seq(E) /\ e \in E
      BY <2>1
    <3>. QED  BY <3>1, AppendProperties
  <2>3. Append(g, e) \in Seq(E) /\ Len(Append(g, e)) = 4 /\ Append(g, e)[4] = e
        /\ \A k \in 1 .. 3 : Append(g, e)[k] = g[k]
    BY <2>1, <2>4
  <2>. QED  BY <1>8, <2>2, <2>3, <1>34 DEF e, g
<1>10. <<"filter-any-failure", "filter-ndecoded-different", "minimize-input",
         "normalize">> \in Seq(E)
  BY DEF E
<1>11. f[5] = <<"filter-any-failure", "filter-ndecoded-different", "minimize-input", "normalize">>
  <2>. DEFINE r == <<"filter-any-failure", "filter-ndecoded-different", "minimize-input",
                  "normalize">>
              g == f[5]
  <2>1. Len(r) = 4 /\ r[1] = "filter-any-failure" /\ r[2] = "filter-ndecoded-different"
          /\ r[3] = "minimize-input" /\ r[4] = "normalize"
    OBVIOUS
  <2>2. g \in Seq(E) /\ r \in Seq(E) /\ Len(g) = 4
    BY <1>10, <1>35
  <2>3. g[1] = r[1] /\ g[2] = r[2] /\ g[3] = r[3] /\ g[4] = r[4]
    BY <1>35, <2>1
  <2>. HIDE DEF g, r
  <2>4. \A k \in 1 .. 4 : g[k] = r[k]
    BY <2>3
  <2>5. g = r
    BY <2>1, <2>2, <2>4, SeqEqual
  <2>. QED  BY <2>5 DEF g, r
<1>12. Subsequence(s, K) = Picked(s, K)[5]
  BY <1>5, SubsequenceIs
<1>. QED  BY <1>11, <1>12 DEF Chain, s, K, f

LEMMA ChainsOK == \A name \in ProfileNames : ChainOK(Chain(name))
<1>1. SUFFICES ASSUME NEW name \in ProfileNames PROVE ChainOK(Chain(name))
  OBVIOUS
<1>2. ChainOK(Chain("default"))
  <2>. DEFINE t == <<"filter-all-failure", "filter-ndecoded-same", "dedupe", "minimize-input",
                  "normalize">>
  <2>1. Len(t) = 5 /\ DOMAIN t = 1 .. 5 /\ t[1] = "filter-all-failure"
          /\ t[2] = "filter-ndecoded-same" /\ t[3] = "dedupe" /\ t[4] = "minimize-input"
               /\ t[5] = "normalize"
    OBVIOUS
  <2>2. Chain("default") = t
    BY DefaultChain
  <2>. HIDE DEF t
  <2>3. \A k \in 1 .. 5 : k = 1 \/ k = 2 \/ k = 3 \/ k = 4 \/ k = 5
    OBVIOUS
  <2>4. \A k \in 1 .. 5 : t[k] \in Installed
    BY <2>1, <2>3 DEF Installed
  <2>5. \A k, l \in 1 .. 5 : l < k =>
          /\ t[k] = "dedupe" => t[l] \in Early
          /\ t[k] \in {"minimize-input", "normalize"} => t[l] # t[k]
    BY <2>1, <2>3 DEF Early
  <2>6. Len(t) \in Nat /\ Len(t) > 0 /\ DOMAIN t = 1 .. Len(t)
    BY <2>1
  <2>7. ChainOK(t)
    BY <2>1, <2>4, <2>5, <2>6, Zenon DEF ChainOK
  <2>. QED  BY <2>2, <2>7
<1>3. ChainOK(Chain("dedupe"))
  <2>. DEFINE t == <<"dedupe">>
  <2>1. Len(t) = 1 /\ DOMAIN t = 1 .. 1 /\ t[1] = "dedupe"
    OBVIOUS
  <2>2. Chain("dedupe") = t
    BY DedupeChain
  <2>. HIDE DEF t
  <2>3. \A k \in 1 .. 1 : k = 1
    OBVIOUS
  <2>4. \A k \in 1 .. 1 : t[k] \in Installed
    BY <2>1, <2>3 DEF Installed
  <2>5. \A k, l \in 1 .. 1 : l < k =>
          /\ t[k] = "dedupe" => t[l] \in Early
          /\ t[k] \in {"minimize-input", "normalize"} => t[l] # t[k]
    BY <2>1, <2>3 DEF Early
  <2>6. Len(t) \in Nat /\ Len(t) > 0 /\ DOMAIN t = 1 .. Len(t)
    BY <2>1
  <2>7. ChainOK(t)
    BY <2>1, <2>4, <2>5, <2>6, Zenon DEF ChainOK
  <2>. QED  BY <2>2, <2>7
<1>4. ChainOK(Chain("size-discrepancies"))
  <2>. DEFINE t == <<"filter-all-failure", "filter-ndecoded-same", "filter-incomparable",
                  "dedupe", "find-size-discrepancies", "minimize-input", "normalize">>
  <2>1. Len(t) = 7 /\ DOMAIN t = 1 .. 7 /\ t[1] = "filter-all-failure"
          /\ t[2] = "filter-ndecoded-same" /\ t[3] = "filter-incomparable" /\ t[4] = "dedupe"
               /\ t[5] = "find-size-discrepancies" /\ t[6] = "minimize-input" /\ t[7] = "normalize"
    OBVIOUS
  <2>2. Chain("size-discrepancies") = t
    BY SizeDiscrepanciesChain
  <2>. HIDE DEF t
  <2>3. \A k \in 1 .. 7 : k = 1 \/ k = 2 \/ k = 3 \/ k = 4 \/ k = 5 \/ k = 6 \/ k = 7
    OBVIOUS
  <2>4. \A k \in 1 .. 7 : t[k] \in Installed
    BY <2>1, <2>3 DEF Installed
  <2>5. \A k, l \in 1 .. 7 : l < k =>
          /\ t[k] = "dedupe" => t[l] \in Early
          /\ t[k] \in {"minimize-input", "normalize"} => t[l] # t[k]
    BY <2>1, <2>3 DEF Early
  <2>6. Len(t) \in Nat /\ Len(t) > 0 /\ DOMAIN t = 1 .. Len(t)
    BY <2>1
  <2>7. ChainOK(t)
    BY <2>1, <2>4, <2>5, <2>6, Zenon DEF ChainOK
  <2>. QED  BY <2>2, <2>7
<1>5. ChainOK(Chain("status-discrepancies"))
  <2>. DEFINE t == <<"filter-all-failure", "filter-all-success", "dedupe", "minimize-input",
                  "normalize">>
  <2>1. Len(t) = 5 /\ DOMAIN t = 1 .. 5 /\ t[1] = "filter-all-failure"
          /\ t[2] = "filter-all-success" /\ t[3] = "dedupe" /\ t[4] = "minimize-input"
               /\ t[5] = "normalize"
    OBVIOUS
  <2>2. Chain("status-discrepancies") = t
    BY StatusDiscrepanciesChain
  <2>. HIDE DEF t
  <2>3. \A k \in 1 .. 5 : k = 1 \/ k = 2 \/ k = 3 \/ k = 4 \/ k = 5
    OBVIOUS
  <2>4. \A k \in 1 .. 5 : t[k] \in Installed
    BY <2>1, <2>3 DEF Installed
  <2>5. \A k, l \in 1 .. 5 : l < k =>
          /\ t[k] = "dedupe" => t[l] \in Early
          /\ t[k] \in {"minimize-input", "normalize"} => t[l] # t[k]
    BY <2>1, <2>3 DEF Early
  <2>6. Len(t) \in Nat /\ Len(t) > 0 /\ DOMAIN t = 1 .. Len(t)
    BY <2>1
  <2>7. ChainOK(t)
    BY <2>1, <2>4, <2>5, <2>6, Zenon DEF ChainOK
  <2>. QED  BY <2>2, <2>7
<1>6. ChainOK(Chain("destroy-capstone"))
  <2>. DEFINE t == <<"filter-all-success", "filter-ndecoded-same", "dedupe",
                  "filter-destroy-capstone", "minimize-input", "normalize">>
  <2>1. Len(t) = 6 /\ DOMAIN t = 1 .. 6 /\ t[1] = "filter-all-success"
          /\ t[2] = "filter-ndecoded-same" /\ t[3] = "dedupe"
               /\ t[4] = "filter-destroy-capstone" /\ t[5] = "minimize-input" /\ t[6] = "normalize"
    OBVIOUS
  <2>2. Chain("destroy-capstone") = t
    BY DestroyCapstoneChain
  <2>. HIDE DEF t
  <2>3. \A k \in 1 .. 6 : k = 1 \/ k = 2 \/ k = 3 \/ k = 4 \/ k = 5 \/ k = 6
    OBVIOUS
  <2>4. \A k \in 1 .. 6 : t[k] \in Installed
    BY <2>1, <2>3 DEF Installed
  <2>5. \A k, l \in 1 .. 6 : l < k =>
          /\ t[k] = "dedupe" => t[l] \in Early
          /\ t[k] \in {"minimize-input", "normalize"} => t[l] # t[k]
    BY <2>1, <2>3 DEF Early
  <2>6. Len(t) \in Nat /\ Len(t) > 0 /\ DOMAIN t = 1 .. Len(t)
    BY <2>1
  <2>7. ChainOK(t)
    BY <2>1, <2>4, <2>5, <2>6, Zenon DEF ChainOK
  <2>. QED  BY <2>2, <2>7
<1>7. ChainOK(Chain("destroy-bddisasm"))
  <2>. DEFINE t == <<"filter-all-success", "filter-ndecoded-same", "dedupe",
                  "filter-destroy-bddisasm", "minimize-input", "normalize">>
  <2>1. Len(t) = 6 /\ DOMAIN t = 1 .. 6 /\ t[1] = "filter-all-success"
          /\ t[2] = "filter-ndecoded-same" /\ t[3] = "dedupe"
               /\ t[4] = "filter-destroy-bddisasm" /\ t[5] = "minimize-input" /\ t[6] = "normalize"
    OBVIOUS
  <2>2. Chain("destroy-bddisasm") = t
    BY DestroyBddisasmChain
  <2>. HIDE DEF t
  <2>3. \A k \in 1 .. 6 : k = 1 \/ k = 2 \/ k = 3 \/ k = 4 \/ k = 5 \/ k = 6
    OBVIOUS
  <2>4. \A k \in 1 .. 6 : t[k] \in Installed
    BY <2>1, <2>3 DEF Installed
  <2>5. \A k, l \in 1 .. 6 : l < k =>
          /\ t[k] = "dedupe" => t[l] \in Early
          /\ t[k] \in {"minimize-input", "normalize"} => t[l] # t[k]
    BY <2>1, <2>3 DEF Early
  <2>6. Len(t) \in Nat /\ Len(t) > 0 /\ DOMAIN t = 1 .. Len(t)
    BY <2>1
  <2>7. ChainOK(t)
    BY <2>1, <2>4, <2>5, <2>6, Zenon DEF ChainOK
  <2>. QED  BY <2>2, <2>7
<1>8. ChainOK(Chain("destroy-ghidra"))
  <2>. DEFINE t == <<"filter-all-success", "filter-ndecoded-same", "dedupe", "normalize",
                  "filter-ghidra-lock", "filter-destroy-ghidra", "minimize-input">>
  <2>1. Len(t) = 7 /\ DOMAIN t = 1 .. 7 /\ t[1] = "filter-all-success"
          /\ t[2] = "filter-ndecoded-same" /\ t[3] = "dedupe" /\ t[4] = "normalize"
               /\ t[5] = "filter-ghidra-lock" /\ t[6] = "filter-destroy-ghidra"
                    /\ t[7] = "minimize-input"
    OBVIOUS
  <2>2. Chain("destroy-ghidra") = t
    BY DestroyGhidraChain
  <2>. HIDE DEF t
  <2>3. \A k \in 1 .. 7 : k = 1 \/ k = 2 \/ k = 3 \/ k = 4 \/ k = 5 \/ k = 6 \/ k = 7
    OBVIOUS
  <2>4. \A k \in 1 .. 7 : t[k] \in Installed
    BY <2>1, <2>3 DEF Installed
  <2>5. \A k, l \in 1 .. 7 : l < k =>
          /\ t[k] = "dedupe" => t[l] \in Early
          /\ t[k] \in {"minimize-input", "normalize"} => t[l] # t[k]
    BY <2>1, <2>3 DEF Early
  <2>6. Len(t) \in Nat /\ Len(t) > 0 /\ DOMAIN t = 1 .. Len(t)
    BY <2>1
  <2>7. ChainOK(t)
    BY <2>1, <2>4, <2>5, <2>6, Zenon DEF ChainOK
  <2>. QED  BY <2>2, <2>7
<1>9. ChainOK(Chain("xed-overaccept"))
  <2>. DEFINE t == <<"filter-all-success", "filter-ndecoded-same", "dedupe",
                  "filter-xed-find-overaccept", "minimize-input", "normalize">>
  <2>1. Len(t) = 6 /\ DOMAIN t = 1 .. 6 /\ t[1] = "filter-all-success"
          /\ t[2] = "filter-ndecoded-same" /\ t[3] = "dedupe"
               /\ t[4] = "filter-xed-find-overaccept" /\ t[5] = "minimize-input"
                    /\ t[6] = "normalize"
    OBVIOUS
  <2>2. Chain("xed-overaccept") = t
    BY XedOveracceptChain
  <2>. HIDE DEF t
  <2>3. \A k \in 1 .. 6 : k = 1 \/ k = 2 \/ k = 3 \/ k = 4 \/ k = 5 \/ k = 6
    OBVIOUS
  <2>4. \A k \in 1 .. 6 : t[k] \in Installed
    BY <2>1, <2>3 DEF Installed
  <2>5. \A k, l \in 1 .. 6 : l < k =>
          /\ t[k] = "dedupe" => t[l] \in Early
          /\ t[k] \in {"minimize-input", "normalize"} => t[l] # t[k]
    BY <2>1, <2>3 DEF Early
  <2>6. Len(t) \in Nat /\ Len(t) > 0 /\ DOMAIN t = 1 .. Len(t)
    BY <2>1
  <2>7. ChainOK(t)
    BY <2>1, <2>4, <2>5, <2>6, Zenon DEF ChainOK
  <2>. QED  BY <2>2, <2>7
<1>10. ChainOK(Chain("xed-underaccept"))
  <2>. DEFINE t == <<"filter-all-success", "filter-ndecoded-same", "dedupe",
                  "filter-bddisasm-salc", "filter-xed-find-underaccept", "minimize-input",
                    "normalize">>
  <2>1. Len(t) = 7 /\ DOMAIN t = 1 .. 7 /\ t[1] = "filter-all-success"
          /\ t[2] = "filter-ndecoded-same" /\ t[3] = "dedupe" /\ t[4] = "filter-bddisasm-salc"
               /\ t[5] = "filter-xed-find-underaccept" /\ t[6] = "minimize-input"
                    /\ t[7] = "normalize"
    OBVIOUS
  <2>2. Chain("xed-underaccept") = t
    BY XedUnderacceptChain
  <2>. HIDE DEF t
  <2>3. \A k \in 1 .. 7 : k = 1 \/ k = 2 \/ k = 3 \/ k = 4 \/ k = 5 \/ k = 6 \/ k = 7
    OBVIOUS
  <2>4. \A k \in 1 .. 7 : t[k] \in Installed
    BY <2>1, <2>3 DEF Installed
  <2>5. \A k, l \in 1 .. 7 : l < k =>
          /\ t[k] = "dedupe" => t[l] \in Early
          /\ t[k] \in {"minimize-input", "normalize"} => t[l] # t[k]
    BY <2>1, <2>3 DEF Early
  <2>6. Len(t) \in Nat /\ Len(t) > 0 /\ DOMAIN t = 1 .. Len(t)
    BY <2>1
  <2>7. ChainOK(t)
    BY <2>1, <2>4, <2>5, <2>6, Zenon DEF ChainOK
  <2>. QED  BY <2>2, <2>7
<1>11. ChainOK(Chain("same-size-different-decodings"))
  <2>. DEFINE t == <<"filter-any-failure", "filter-ndecoded-different", "minimize-input",
                  "normalize">>
  <2>1. Len(t) = 4 /\ DOMAIN t = 1 .. 4 /\ t[1] = "filter-any-failure"
          /\ t[2] = "filter-ndecoded-different" /\ t[3] = "minimize-input" /\ t[4] = "normalize"
    OBVIOUS
  <2>2. Chain("same-size-different-decodings") = t
    BY SameSizeChain
  <2>. HIDE DEF t
  <2>3. \A k \in 1 .. 4 : k = 1 \/ k = 2 \/ k = 3 \/ k = 4
    OBVIOUS
  <2>4. \A k \in 1 .. 4 : t[k] \in Installed
    BY <2>1, <2>3 DEF Installed
  <2>5. \A k, l \in 1 .. 4 : l < k =>
          /\ t[k] = "dedupe" => t[l] \in Early
          /\ t[k] \in {"minimize-input", "normalize"} => t[l] # t[k]
    BY <2>1, <2>3 DEF Early
  <2>6. Len(t) \in Nat /\ Len(t) > 0 /\ DOMAIN t = 1 .. Len(t)
    BY <2>1
  <2>7. ChainOK(t)
    BY <2>1, <2>4, <2>5, <2>6, Zenon DEF ChainOK
  <2>. QED  BY <2>2, <2>7
<1>. QED  BY <1>2, <1>3, <1>4, <1>5, <1>6, <1>7, <1>8, <1>9, <1>10, <1>11 DEF ProfileNames

LEMMA PrintedLineOK == ASSUME NEW c \in PrintedLine PROVE LineOK(c)
BY DEF PrintedLine, LineOK

LEMMA PrintedType ==
  ASSUME ReaderInv
  PROVE  printed \in Seq(PrintedLine) /\ LinesOK(printed)
<1>1. printed \in Seq(PrintedLine)
  BY DEF ReaderInv, PrintedUpTo
<1>. QED  BY <1>1, LenProperties, ElementOfSeq, PrintedLineOK DEF LinesOK

\* A step of mish2jsonl prints one line or none.
LEMMA ReadPrints ==
  ASSUME Read
  PROVE  /\ mode' = mode
         /\ printed' = printed \/ printed' = Append(printed, Line(results))
<1>1. Main => mode' = mode /\ printed' = printed
  BY DEF Main
<1>2. PrintCohort => mode' = mode /\ (printed' = printed \/ printed' =
        Append(printed, Line(results)))
  BY DEF PrintCohort
<1>. QED  BY <1>1, <1>2, ReadsOnly

LEMMA PipeInit == ReportInit => PipeInv
<1>. SUFFICES ASSUME ReportInit PROVE PipeInv
  OBVIOUS
<1>1. profile \in ProfileNames
  BY ReportAssumption DEF ReportInit
<1>2. pipe = [k \in 1 .. Len(Passing) + 1 |-> <<>>] /\ seen = {} /\ printed = <<>>
  BY DEF ReportInit, Init, Passing
<1>3. ChainOK(Passing)
  BY <1>1, ChainsOK DEF Passing
<1>4. \E p \in PlacesOf(Passing, <<>>) : PipesAt(Passing, <<>>, pipe, {}, p)
  BY <1>2, <1>3, PipesInit
<1>5. DOMAIN pipe = 1 .. Len(Passing) + 1
  BY <1>2
<1>. QED  BY <1>1, <1>2, <1>4, <1>5 DEF PipeInv, PlacesOf

LEMMA PipeReads ==
  ASSUME ReaderInv, ReaderInv', PipeInv, ReaderStep
  PROVE  PipeInv'
<1>1. Read /\ UNCHANGED <<profile, seen, failed>>
  BY DEF ReaderStep
<1>2. mode' = mode /\ (printed' = printed \/ printed' = Append(printed, Line(results)))
  BY <1>1, ReadPrints
<1>3. PICK chain : chain = Passing /\ chain = Passing'
  BY <1>1 DEF Passing
<1>4. profile' \in ProfileNames /\ ChainOK(chain) /\ DOMAIN pipe = 1 .. Len(chain) + 1
  BY <1>1, <1>3, ChainsOK DEF PipeInv, Passing
<1>5. CASE pipe' = pipe /\ (printed' = printed \/ mode # "JSONL")
  BY <1>1, <1>2, <1>3, <1>5 DEF PipeInv
<1>6. CASE pipe' # pipe \/ (printed' # printed /\ mode = "JSONL")
  <2>1. printed' # printed /\ mode # "JSON" /\ pipe' = [pipe EXCEPT ![1] =
          Append(@, Last(printed'))]
    BY <1>6 DEF ReaderStep
  <2>2. printed' = Append(printed, Line(results))
    BY <1>2, <2>1
  <2>3. printed \in Seq(PrintedLine) /\ printed' \in Seq(PrintedLine) /\ Len(printed) \in Nat
          /\ Len(printed') \in Nat
    <3>1. printed \in Seq(PrintedLine)
      BY PrintedType
    <3>2. printed' \in Seq(PrintedLine)
      BY DEF ReaderInv, PrintedUpTo
    <3>. QED  BY <3>1, <3>2, LenProperties
  <2>4. PICK lines, more, c : lines = printed /\ more = printed' /\ c = Last(printed')
    OBVIOUS
  <2>5. Len(more) = Len(lines) + 1 /\ \A j \in 1 .. Len(lines) : more[j] = lines[j]
    BY <2>2, <2>3, <2>4
  <2>6. more[Len(lines) + 1] = c
    BY <2>4, <2>5 DEF Last
  <2>7. CASE mode = "JSONL"
    <3>1. PICK p \in PlacesOf(chain, lines) : PipesAt(chain, lines, pipe, seen, p)
      BY <1>3, <2>4, <2>7 DEF PipeInv, PlacesOf
    <3>2. PICK pipes, next, met : pipes = pipe /\ next = pipe' /\ met = seen
      OBVIOUS
    <3>3. PipesAt(chain, lines, pipes, met, p) /\ DOMAIN pipes = 1 .. Len(chain) + 1
      BY <1>4, <3>1, <3>2
    <3>4. next = [pipes EXCEPT ![1] = Append(@, c)] /\ Len(lines) \in Nat
      BY <2>1, <2>3, <2>4, <3>2
    <3>5. \E q \in PlacesOf(chain, more) : PipesAt(chain, more, next, met, q)
      BY <1>4, <2>5, <2>6, <3>3, <3>4, PipesPrint
    <3>6. DOMAIN pipe' = 1 .. Len(chain) + 1
      BY <3>2, <3>3, <3>4
    <3>7. \E q \in [0 .. Len(chain) + 1 -> 0 .. Len(printed')] : PipesAt(chain, printed', pipe',
            seen', q)
      BY <1>1, <2>4, <3>2, <3>5 DEF PlacesOf
    <3>. QED  BY <1>3, <1>4, <3>6, <3>7 DEF PipeInv
  <2>8. CASE mode # "JSONL"
    <3>1. DOMAIN pipe' = DOMAIN pipe
      BY <2>1
    <3>. QED  BY <1>2, <1>3, <1>4, <2>8, <3>1 DEF PipeInv
  <2>. QED  BY <2>7, <2>8
<1>. QED  BY <1>5, <1>6

LEMMA PipePasses ==
  ASSUME ReaderInv, PipeInv, NEW k \in DOMAIN Passing, PassLine(k)
  PROVE  PipeInv'
<1>1. UNCHANGED <<reader, profile, failed>>
  BY DEF PassLine
<1>2. mode' = mode /\ printed' = printed
  BY <1>1 DEF reader
<1>3. PICK chain : chain = Passing /\ chain = Passing'
  BY <1>1 DEF Passing
<1>4. profile' \in ProfileNames /\ ChainOK(chain) /\ DOMAIN pipe = 1 .. Len(chain) + 1
  BY <1>1, <1>3, ChainsOK DEF PipeInv, Passing
<1>5. Taken(chain, k, pipe, seen, pipe', seen')
  BY <1>3 DEF PassLine, Ready, Taken
<1>6. DOMAIN pipe' = DOMAIN pipe
  BY DEF PassLine
<1>7. CASE mode = "JSONL"
  <2>1. PICK p \in PlacesOf(chain, printed) : PipesAt(chain, printed, pipe, seen, p)
    BY <1>3, <1>7 DEF PipeInv, PlacesOf
  <2>2. LinesOK(printed)
    BY PrintedType
  <2>3. PICK pipes, next, met, then, lines :
          pipes = pipe /\ next = pipe' /\ met = seen /\ then = seen' /\ lines = printed
    OBVIOUS
  <2>4. k \in 1 .. Len(chain)
    BY <1>3, <1>4 DEF ChainOK
  <2>5. \E q \in PlacesOf(chain, lines) : PipesAt(chain, lines, next, then, q)
    BY <1>4, <1>5, <2>1, <2>2, <2>3, <2>4, PipesPass
  <2>6. \E q \in [0 .. Len(chain) + 1 -> 0 .. Len(printed')] : PipesAt(chain, printed', pipe',
          seen', q)
    BY <1>2, <2>3, <2>5 DEF PlacesOf
  <2>. QED  BY <1>3, <1>4, <1>6, <2>6 DEF PipeInv
<1>8. CASE mode # "JSONL"
  BY <1>2, <1>3, <1>4, <1>6, <1>8 DEF PipeInv
<1>. QED  BY <1>7, <1>8

LEMMA PipeNext == ReaderInv /\ ReaderInv' /\ PipeInv /\ [ReportNext]_vars => PipeInv'
<1>. SUFFICES ASSUME ReaderInv, ReaderInv', PipeInv, [ReportNext]_vars PROVE PipeInv'
  OBVIOUS
<1>1. ASSUME UNCHANGED <<reader, profile, pipe, seen>> PROVE PipeInv'
  <2>1. mode' = mode /\ printed' = printed /\ Passing' = Passing
    BY <1>1 DEF reader, Passing
  <2>. QED  BY <1>1, <2>1 DEF PipeInv
<1>2. ASSUME NEW k, PassFails(k) PROVE PipeInv'
  BY <1>1, <1>2 DEF PassFails
<1>3. ReportStopped \/ UNCHANGED vars => PipeInv'
  BY <1>1 DEF ReportStopped, vars
<1>. QED  BY <1>2, <1>3, PipeReads, PipePasses DEF ReportNext

LEMMA PipeAlways == ReportSpec => [](ReaderInv /\ PipeInv)
<1>1. ReportInit => ReaderInv /\ PipeInv
  BY ReaderInit, PipeInit DEF ReportInit
<1>2. (ReaderInv /\ PipeInv) /\ [ReportNext]_vars => (ReaderInv /\ PipeInv)'
  BY PassesRead, ReaderNext, ReaderStays, PipeNext
<1>. QED  BY <1>1, <1>2, PTL DEF ReportSpec

(***************************************************************************)
(* Passes that failed                                                      *)
(***************************************************************************)

\* A pass that failed is in front of the line it failed on.
FailInv ==
  mode = "JSONL" =>
    \A k \in failed : k \in DOMAIN Passing /\ pipe[k] # <<>> /\ Raises(Passing[k], Head(pipe[k]))

LEMMA PipeType ==
  ASSUME ReaderInv, PipeInv, mode = "JSONL", NEW k \in DOMAIN Passing
  PROVE  k \in DOMAIN pipe /\ \E E : pipe[k] \in Seq(E)
<1>1. PICK chain, lines : chain = Passing /\ lines = printed
  OBVIOUS
<1>2. ChainOK(chain) /\ Len(lines) \in Nat
  <2>1. LinesOK(lines)
    BY <1>1, PrintedType
  <2>. QED  BY <1>1, <2>1, ChainsOK DEF PipeInv, Passing, LinesOK
<1>3. PICK p \in PlacesOf(chain, lines) : PipesAt(chain, lines, pipe, seen, p)
  BY <1>1 DEF PipeInv, PlacesOf
<1>4. k \in 1 .. Len(chain) + 1 /\ k \in DOMAIN pipe
  BY <1>1, <1>2 DEF ChainOK, PipeInv
<1>5. pipe[k] = Waiting(chain, lines, k - 1, p[k], p[k - 1])
  BY <1>3, <1>4 DEF PipesAt
<1>. QED  BY <1>2, <1>4, <1>5, WaitingType

\* What is written behind a line leaves it the first.
LEMMA HeadStays ==
  ASSUME NEW E, NEW s \in Seq(E), s # <<>>, NEW c
  PROVE  /\ Append(s, c) # <<>> /\ Head(Append(s, c)) = Head(s)
         /\ s \o <<c>> # <<>> /\ Head(s \o <<c>>) = Head(s)
         /\ s \o <<>> = s
<1>. DEFINE F == E \cup {c}
<1>1. s \in Seq(F) /\ c \in F
  BY LenProperties, ElementOfSeq, SeqDef
<1>. HIDE DEF F
<1>. QED  BY <1>1

LEMMA FailNext == ReaderInv /\ PipeInv /\ FailInv /\ [ReportNext]_vars => FailInv'
<1>. SUFFICES ASSUME ReaderInv, PipeInv, FailInv, [ReportNext]_vars, mode' = "JSONL",
                     NEW k \in failed'
              PROVE  (k \in DOMAIN Passing /\ pipe[k] # <<>> /\ Raises(Passing[k], Head(pipe[k])))'
  BY DEF FailInv
<1>. DEFINE Stuck == k \in DOMAIN Passing /\ pipe[k] # <<>> /\ Raises(Passing[k], Head(pipe[k]))
<1>1. ASSUME UNCHANGED vars PROVE Stuck'
  BY <1>1 DEF FailInv, vars, reader, Passing
<1>2. ASSUME ReportStopped PROVE Stuck'
  BY <1>1, <1>2 DEF ReportStopped
<1>3. ASSUME k \in failed, mode = "JSONL", NEW c, UNCHANGED profile,
             pipe'[k] = pipe[k] \/ pipe'[k] = Append(pipe[k], c) \/ pipe'[k] = pipe[k] \o <<c>>
               \/ pipe'[k] = pipe[k] \o <<>>
      PROVE  Stuck'
  <2>1. Stuck
    BY <1>3 DEF FailInv
  <2>2. PICK E : pipe[k] \in Seq(E)
    BY <1>3, <2>1, PipeType
  <2>3. /\ pipe'[k] # <<>> /\ Head(pipe'[k]) = Head(pipe[k])
    BY <1>3, <2>1, <2>2, HeadStays
  <2>4. Passing' = Passing
    BY <1>3 DEF Passing
  <2>. QED  BY <2>1, <2>3, <2>4
<1>4. ASSUME k \in failed, mode = "JSONL" PROVE k \in DOMAIN pipe
  BY <1>4, PipeType DEF FailInv
<1>5. ASSUME ReaderStep PROVE Stuck'
  <2>1. Read /\ UNCHANGED <<profile, seen, failed>>
    BY <1>5 DEF ReaderStep
  <2>2. mode = "JSONL" /\ k \in failed
    BY <2>1, ReadPrints
  <2>3. pipe' = pipe \/ pipe' = [pipe EXCEPT ![1] = Append(@, Last(printed'))]
    BY <1>5 DEF ReaderStep
  <2>4. PICK c : c = Last(printed')
    OBVIOUS
  <2>5. pipe'[k] = pipe[k] \/ pipe'[k] = Append(pipe[k], c)
    BY <1>4, <2>2, <2>3, <2>4
  <2>. QED  BY <1>3, <2>1, <2>2, <2>5
<1>6. ASSUME NEW x \in DOMAIN Passing, PassLine(x) PROVE Stuck'
  <2>1. UNCHANGED <<reader, profile, failed>> /\ x \notin failed
    BY <1>6 DEF PassLine, Ready
  <2>2. mode = "JSONL" /\ k \in failed /\ k # x
    BY <2>1 DEF reader
  <2>3. PICK c : c = Emits(Passing[x], Head(pipe[x]))
    OBVIOUS
  <2>4. \/ pipe' = [pipe EXCEPT ![x] = Tail(@), ![x + 1] = @ \o <<c>>]
        \/ pipe' = [pipe EXCEPT ![x] = Tail(@), ![x + 1] = @ \o <<>>]
    BY <1>6, <2>3 DEF PassLine
  <2>5. pipe'[k] = pipe[k] \/ pipe'[k] = pipe[k] \o <<c>> \/ pipe'[k] = pipe[k] \o <<>>
    BY <1>4, <2>2, <2>4
  <2>. QED  BY <1>3, <2>1, <2>2, <2>5
<1>7. ASSUME NEW x \in DOMAIN Passing, PassFails(x) PROVE Stuck'
  <2>1. UNCHANGED <<reader, profile, pipe, seen>> /\ failed' = failed \cup {x}
        /\ pipe[x] # <<>> /\ Raises(Passing[x], Head(pipe[x]))
    BY <1>7 DEF PassFails, Ready
  <2>2. mode = "JSONL" /\ Passing' = Passing
    BY <2>1 DEF reader, Passing
  <2>3. CASE k = x
    BY <2>1, <2>2, <2>3
  <2>4. CASE k # x
    BY <2>1, <2>2, <2>4 DEF FailInv
  <2>. QED  BY <2>3, <2>4
<1>8. ASSUME ReportNext PROVE Stuck'
  <2>. HIDE DEF Stuck
  <2>. QED  BY <1>2, <1>5, <1>6, <1>7, <1>8, Zenon DEF ReportNext
<1>. HIDE DEF Stuck
<1>9. Stuck'
  BY <1>1, <1>8
<1>. QED  BY <1>9 DEF Stuck

LEMMA FailAlways == ReportSpec => [](ReaderInv /\ PipeInv /\ FailInv)
<1>1. ReportInit => FailInv
  BY DEF ReportInit, FailInv
<1>. QED  BY <1>1, PipeAlways, FailNext, PTL DEF ReportSpec

(***************************************************************************)
(* When nothing moves any more                                             *)
(***************************************************************************)

LEMMA PlacesFall ==
  ASSUME NEW m \in Nat, NEW p, \A k \in 0 .. m : p[k] \in Nat,
         \A k \in 1 .. m : p[k] <= p[k - 1], NEW a \in 0 .. m, NEW b \in a .. m
  PROVE  p[b] <= p[a]
<1>. DEFINE T == {x \in Nat : a + x <= m => p[a + x] <= p[a]}
<1>1. 0 \in T
  OBVIOUS
<1>2. ASSUME NEW x \in T PROVE x + 1 \in T
  <2>1. SUFFICES ASSUME a + (x + 1) <= m PROVE p[a + (x + 1)] <= p[a]
    OBVIOUS
  <2>2. PICK y \in 1 .. m : y = a + (x + 1)
    BY <1>2, <2>1
  <2>3. y - 1 = a + x /\ y - 1 \in 0 .. m /\ y \in 0 .. m
    BY <1>2, <2>2
  <2>4. p[y] <= p[y - 1] /\ p[y - 1] <= p[a]
    BY <1>2, <2>3
  <2>5. p[y] \in Nat /\ p[y - 1] \in Nat /\ p[a] \in Nat
    BY <2>3
  <2>. QED  BY <2>2, <2>4, <2>5
<1>3. T \subseteq Nat
  OBVIOUS
<1>. HIDE DEF T
<1>4. T = Nat
  BY <1>1, <1>2, <1>3, Induction
<1>5. PICK x \in Nat : b = a + x
  <2>1. b - a \in Nat /\ b = a + (b - a)
    OBVIOUS
  <2>. QED  BY <2>1
<1>6. x \in T
  BY <1>4
<1>7. a + x <= m => p[a + x] <= p[a]
  BY <1>6 DEF T
<1>. QED  BY <1>5, <1>7

\* The last of the passes for which something still waits, if any.
LEMMA LastStuck ==
  ASSUME NEW m \in Nat, NEW S
  PROVE  \E d \in 0 .. m : (d # 0 => d \in S) /\ \A k \in d + 1 .. m : k \notin S
<1>1. CASE \A k \in 1 .. m : k \notin S
  <2>1. 0 \in 0 .. m /\ \A k \in 0 + 1 .. m : k \notin S
    BY <1>1
  <2>. QED  BY <2>1
<1>2. CASE \E k \in 1 .. m : k \in S
  <2>. DEFINE K == {x \in 1 .. m : m + 1 - x \in S}
  <2>1. PICK k \in 1 .. m : k \in S
    BY <1>2
  <2>2. PICK l \in 1 .. m : l = m + 1 - k
    OBVIOUS
  <2>3. m + 1 - l = k
    BY <2>2
  <2>4. l \in K
    BY <2>1, <2>3
  <2>. HIDE DEF K
  <2>5. PICK x \in 1 .. m : x \in K /\ \A y \in 1 .. x - 1 : y \notin K
    BY <2>4, LeastOf
  <2>6. PICK d \in 1 .. m : d = m + 1 - x
    OBVIOUS
  <2>7. d \in S
    BY <2>5, <2>6 DEF K
  <2>8. ASSUME NEW y \in d + 1 .. m PROVE y \notin S
    <3>1. m + 1 - y \in 1 .. x - 1 /\ m + 1 - y \in 1 .. m /\ m + 1 - (m + 1 - y) = y
      BY <2>6
    <3>. QED  BY <2>5, <3>1 DEF K
  <2>. QED  BY <2>7, <2>8
<1>. QED  BY <1>1, <1>2

\* All passes have read the lines up to n that reach them.
AllReadTo(chain, lines, p, n) ==
  \A k \in 1 .. Len(chain) : \A j \in Alive(chain, lines, k - 1) : j <= n => j <= p[k]

\* From pass d on nothing waits, and what the first d let through of the lines
\* up to n has been read.
LEMMA ReadFrom ==
  ASSUME NEW chain, ChainOK(chain), NEW lines, LinesOK(lines), NEW pipes, NEW met,
         NEW p \in PlacesOf(chain, lines), PipesAt(chain, lines, pipes, met, p),
         NEW d \in 0 .. Len(chain), \A k \in d + 1 .. Len(chain) : pipes[k] = <<>>,
         NEW n \in 0 .. Len(lines), \A j \in Alive(chain, lines, d) : j <= n => j <= p[d]
  PROVE  /\ \A j \in Alive(chain, lines, Len(chain)) : j <= n => j <= p[Len(chain)]
         /\ \A k \in d + 1 .. Len(chain) : \A j \in Alive(chain, lines, k - 1) : j <= n => j <= p[k]
<1>. DEFINE m == Len(chain)
            Read1(k) == \A j \in Alive(chain, lines, k) : j <= n => j <= p[k]
            Read2(k) == \A j \in Alive(chain, lines, k - 1) : j <= n => j <= p[k]
<1>1. m \in Nat /\ Len(lines) \in Nat /\ d \in Nat
  BY DEF ChainOK, LinesOK
<1>2. \A k \in 0 .. m + 1 : p[k] \in Nat /\ p[k] <= Len(lines)
  BY <1>1 DEF PlacesOf
<1>3. \A k \in 1 .. m + 1 : pipes[k] = Waiting(chain, lines, k - 1, p[k], p[k - 1])
  BY DEF PipesAt
<1>4. \A k : Alive(chain, lines, k) \subseteq 1 .. Len(lines)
  BY DEF Alive
<1>5. ASSUME NEW b \in d .. m, b + 1 <= m, Read1(b) PROVE Read2(b + 1) /\ Read1(b + 1)
  <2>1. PICK k \in d + 1 .. m : k = b + 1
    BY <1>1, <1>5
  <2>2. k - 1 = b /\ k \in 1 .. m + 1 /\ k \in 1 .. m
    BY <1>1, <2>1
  <2>3. PICK low \in Nat, high \in Nat : low = p[k] /\ high = p[b]
    <3>1. k \in 0 .. m + 1 /\ b \in 0 .. m + 1
      BY <1>1, <2>1
    <3>. QED  BY <1>2, <3>1
  <2>4. Waiting(chain, lines, b, low, high) = <<>>
    BY <1>3, <2>1, <2>2, <2>3
  <2>5. \A j \in Alive(chain, lines, b) : ~(low < j /\ j <= high)
    BY <1>1, <2>4, WaitingEmpty
  <2>6. \A j \in Alive(chain, lines, b) : j \in Nat /\ (j <= n => j <= high)
    BY <1>4, <1>5, <2>3
  <2>7. \A j \in Alive(chain, lines, b) : j <= n => j <= p[k]
    BY <2>3, <2>5, <2>6
  <2>8. Alive(chain, lines, k) \subseteq Alive(chain, lines, b)
    BY <2>2, AliveShrinks
  <2>. QED  BY <2>1, <2>2, <2>7, <2>8
<1>. DEFINE T == {x \in Nat : d + x <= m => Read1(d + x)}
<1>. HIDE DEF Read1, Read2, m
<1>6. 0 \in T
  <2>1. d + 0 = d
    BY <1>1
  <2>. QED  BY <2>1 DEF Read1
<1>7. ASSUME NEW x \in T PROVE x + 1 \in T
  <2>. x \in Nat
    BY <1>7
  <2>1. SUFFICES ASSUME d + (x + 1) <= m PROVE Read1(d + (x + 1))
    OBVIOUS
  <2>2. PICK b \in d .. m : b = d + x
    BY <1>1, <2>1
  <2>3. b + 1 <= m /\ b + 1 = d + (x + 1)
    BY <1>1, <2>1, <2>2
  <2>4. Read1(b)
    BY <1>1, <1>7, <2>1, <2>2
  <2>5. Read1(b + 1)
    BY <1>5, <2>3, <2>4
  <2>. QED  BY <2>3, <2>5
<1>8. T \subseteq Nat
  OBVIOUS
<1>. HIDE DEF T
<1>9. T = Nat
  BY <1>6, <1>7, <1>8, Induction
<1>10. ASSUME NEW b \in d .. m PROVE Read1(b)
  <2>1. PICK x \in Nat : b = d + x
    <3>1. b - d \in Nat /\ b = d + (b - d)
      BY <1>1
    <3>. QED  BY <3>1
  <2>. QED  BY <1>1, <1>9, <2>1 DEF T
<1>11. Read1(m)
  <2>1. m \in d .. m
    BY <1>1 DEF m
  <2>. QED  BY <1>10, <2>1
<1>12. ASSUME NEW k \in d + 1 .. m PROVE Read2(k)
  <2>1. PICK b \in d .. m : b = k - 1
    BY <1>1
  <2>2. b + 1 <= m /\ b + 1 = k
    BY <1>1, <2>1
  <2>. QED  BY <1>5, <1>10, <2>1, <2>2
<1>. QED  BY <1>11, <1>12 DEF Read1, Read2, m

\* Of the lines up to n, what is left are those all passes let through, and no
\* pass has met one it fails on; on line n + 1, if there is one, a pass failed.
Left(chain, lines, left, n) ==
  /\ n < Len(lines) => \E k \in 1 .. Len(chain) : Raises(chain[k], Changed(chain, k - 1, lines[n + 1]))
  /\ left = Subsequence(Stage(chain, lines, Len(chain)),
                        {j \in Alive(chain, lines, Len(chain)) : j <= n})
  /\ \A k \in 1 .. Len(chain) : \A j \in Alive(chain, lines, k - 1) :
       j <= n => ~Raises(chain[k], Changed(chain, k - 1, lines[j]))

LEMMA LeftUpTo ==
  ASSUME NEW chain, ChainOK(chain), NEW lines, LinesOK(lines), NEW pipes, NEW met,
         NEW p \in PlacesOf(chain, lines), PipesAt(chain, lines, pipes, met, p),
         NEW n \in 0 .. Len(lines), p[Len(chain)] <= n, AllReadTo(chain, lines, p, n),
         n < Len(lines) => \E k \in 1 .. Len(chain) :
           Raises(chain[k], Changed(chain, k - 1, lines[n + 1]))
  PROVE  Left(chain, lines, pipes[Len(chain) + 1], n)
<1>. DEFINE m == Len(chain)
<1>1. m \in Nat /\ m > 0 /\ Len(lines) \in Nat
  BY DEF ChainOK, LinesOK
<1>2. p[m] \in Nat
  BY <1>1 DEF PlacesOf
<1>3. pipes[m + 1] = Subsequence(Stage(chain, lines, m), {j \in Alive(chain, lines, m) : j <= n})
  <2>1. PICK x \in 1 .. m + 1 : x = m + 1
    BY <1>1
  <2>2. x - 1 = m
    BY <1>1, <2>1
  <2>3. pipes[x] = Waiting(chain, lines, m, 0, p[m])
    BY <2>1, <2>2 DEF PipesAt
  <2>4. \A j \in Alive(chain, lines, m) : j \in Nat /\ 0 < j
    BY <1>1 DEF Alive
  <2>5. \A j \in Alive(chain, lines, m) : j <= n => j <= p[m]
    <3>1. m \in 1 .. m
      BY <1>1
    <3>2. Alive(chain, lines, m) \subseteq Alive(chain, lines, m - 1)
      BY <3>1, AliveShrinks
    <3>. QED  BY <3>1, <3>2 DEF AllReadTo
  <2>6. \A j \in Alive(chain, lines, m) : (0 < j /\ j <= p[m]) <=> j <= n
    BY <1>1, <1>2, <2>4, <2>5
  <2>7. {j \in Alive(chain, lines, m) : 0 < j /\ j <= p[m]} = {j \in Alive(chain, lines, m) : j <= n}
    BY <2>6
  <2>. QED  BY <2>1, <2>3, <2>7 DEF Waiting
<1>4. ASSUME NEW k \in 1 .. m, NEW j \in Alive(chain, lines, k - 1), j <= n
      PROVE  ~Raises(chain[k], Changed(chain, k - 1, lines[j]))
  <2>1. j <= p[k]
    BY <1>4 DEF AllReadTo
  <2>. QED  BY <1>4, <2>1 DEF PipesAt
<1>. QED  BY <1>3, <1>4 DEF Left

\* When only passes that failed have something before them.
LEMMA PipesEnd ==
  ASSUME NEW chain, ChainOK(chain), NEW lines, LinesOK(lines), NEW pipes, NEW met,
         NEW p \in PlacesOf(chain, lines), PipesAt(chain, lines, pipes, met, p),
         \A k \in 1 .. Len(chain) : pipes[k] = <<>> \/ Raises(chain[k], Head(pipes[k]))
  PROVE  \E n \in 0 .. Len(lines) : Left(chain, lines, pipes[Len(chain) + 1], n)
<1>. DEFINE S == {k \in 1 .. Len(chain) : pipes[k] # <<>>}
<1>1. PICK m \in Nat : m = Len(chain) /\ m > 0
  BY DEF ChainOK
<1>2. Len(lines) \in Nat
  BY DEF LinesOK
<1>3. /\ \A k \in 0 .. m + 1 : p[k] \in Nat /\ p[k] <= Len(lines)
      /\ p[0] = Len(lines)
      /\ \A k \in 1 .. m + 1 : p[k] <= p[k - 1]
      /\ \A k \in 1 .. m + 1 : pipes[k] = Waiting(chain, lines, k - 1, p[k], p[k - 1])
  BY <1>1, <1>2 DEF PlacesOf, PipesAt
<1>4. PICK d \in 0 .. m : (d # 0 => d \in S) /\ \A k \in d + 1 .. m : k \notin S
  <2>. HIDE DEF S
  <2>. QED  BY LastStuck
<1>5. \A k \in d + 1 .. m : pipes[k] = <<>>
  <2>1. ASSUME NEW k \in d + 1 .. m PROVE pipes[k] = <<>>
    <3>1. k \in 1 .. Len(chain) /\ k \notin S
      BY <1>1, <1>4
    <3>. QED  BY <3>1
  <2>. QED  BY <2>1
<1>6. \A a \in 0 .. m : \A b \in a .. m : p[b] <= p[a]
  <2>1. (\A k \in 0 .. m : p[k] \in Nat) /\ (\A k \in 1 .. m : p[k] <= p[k - 1])
    BY <1>3
  <2>. QED  BY <2>1, PlacesFall
<1>7. \A k : Alive(chain, lines, k) \subseteq 1 .. Len(lines)
  BY DEF Alive
<1>8. CASE d = 0
  <2>1. PICK n \in 0 .. Len(lines) : n = Len(lines)
    BY <1>2
  <2>2. \A j \in Alive(chain, lines, d) : j <= n => j <= p[d]
    BY <1>3, <1>8, <2>1
  <2>3. AllReadTo(chain, lines, p, n)
    BY <1>1, <1>5, <1>8, <2>2, ReadFrom DEF AllReadTo
  <2>4. p[m] <= n /\ ~(n < Len(lines))
    BY <1>2, <1>3, <2>1
  <2>. QED  BY <1>1, <2>3, <2>4, LeftUpTo
<1>9. CASE d # 0
  <2>1. d \in 1 .. m /\ pipes[d] # <<>> /\ Raises(chain[d], Head(pipes[d]))
    BY <1>1, <1>4, <1>9
  <2>2. PICK b \in 0 .. m, low \in Nat, high \in Nat : b = d - 1 /\ low = p[d] /\ high = p[b]
    <3>1. d - 1 \in 0 .. m + 1 /\ d \in 0 .. m + 1 /\ d - 1 \in 0 .. m
      BY <2>1
    <3>. QED  BY <1>3, <3>1
  <2>3. pipes[d] = Waiting(chain, lines, b, low, high) /\ high <= Len(lines)
    <3>1. d \in 1 .. m + 1 /\ b \in 0 .. m + 1
      BY <2>1
    <3>. QED  BY <1>3, <2>2, <3>1
  <2>4. PICK s \in low + 1 .. high : ComesFirst(chain, b, lines, low, high, s)
    BY <1>2, <2>1, <2>3, WaitingTaken
  <2>5. /\ \A l \in low + 1 .. s - 1 : l \notin Alive(chain, lines, b)
        /\ Head(pipes[d]) = Changed(chain, b, lines[s])
    BY <2>3, <2>4 DEF ComesFirst
  <2>6. PICK n \in 0 .. Len(lines) : n = s - 1 /\ n + 1 = s /\ low <= n
    BY <1>2, <2>3
  <2>7. \A j \in Alive(chain, lines, b) : j <= n => j <= p[d]
    <3>1. \A j \in Alive(chain, lines, b) : j \in Nat /\ (j <= n => ~(low < j))
      BY <1>2, <1>7, <2>5, <2>6
    <3>. QED  BY <2>2, <3>1
  <2>8. \A j \in Alive(chain, lines, d) : j <= n => j <= p[d]
    BY <1>1, <2>1, <2>2, <2>7, AliveShrinks
  <2>9. \A k \in d + 1 .. m : \A j \in Alive(chain, lines, k - 1) : j <= n => j <= p[k]
    BY <1>1, <1>5, <2>8, ReadFrom
  <2>10. ASSUME NEW k \in 1 .. m, k < d, NEW j \in Alive(chain, lines, k - 1), j <= n
         PROVE  j <= p[k]
    <3>1. k \in 0 .. m /\ b \in k .. m /\ k \in 0 .. m + 1
      BY <2>1, <2>2, <2>10
    <3>2. high <= p[k]
      BY <1>6, <2>2, <3>1
    <3>3. j \in Nat /\ p[k] \in Nat
      BY <1>3, <1>7, <3>1
    <3>. QED  BY <2>6, <2>10, <3>2, <3>3
  <2>11. AllReadTo(chain, lines, p, n)
    <3>1. ASSUME NEW k \in 1 .. m PROVE \A j \in Alive(chain, lines, k - 1) : j <= n => j <= p[k]
      <4>1. k < d \/ k = d \/ k \in d + 1 .. m
        OBVIOUS
      <4>. QED  BY <2>2, <2>7, <2>9, <2>10, <4>1
    <3>. QED  BY <1>1, <3>1 DEF AllReadTo
  <2>12. p[m] <= n
    <3>1. d \in 0 .. m /\ m \in d .. m /\ m \in 0 .. m + 1
      BY <2>1
    <3>2. p[m] <= low /\ p[m] \in Nat
      BY <1>3, <1>6, <2>2, <3>1
    <3>. QED  BY <2>6, <3>2
  <2>13. Raises(chain[d], Changed(chain, d - 1, lines[n + 1]))
    BY <2>1, <2>2, <2>5, <2>6
  <2>. QED  BY <1>1, <2>1, <2>11, <2>12, <2>13, LeftUpTo
<1>. QED  BY <1>8, <1>9

(***************************************************************************)
(* Lines that decoders answer alike                                        *)
(***************************************************************************)

\* Only the texts of the two may differ.
Same(c, d) ==
  /\ DOMAIN c.outputs = DOMAIN d.outputs
  /\ \A w \in DOMAIN c.outputs :
       /\ c.outputs[w].so = d.outputs[w].so
       /\ c.outputs[w].status = d.outputs[w].status
       /\ c.outputs[w].ndecoded = d.outputs[w].ndecoded

LEMMA SameChanged ==
  ASSUME NEW c, LineOK(c), NEW chain, NEW k
  PROVE  Same(c, Changed(chain, k, c))
<1>1. LineOK(Minimize(c)) /\ Minimize(c).outputs = c.outputs
  BY MinimizeOK, MinimizeParts
<1>2. Same(c, c) /\ Same(c, Minimize(c))
  BY <1>1 DEF Same
<1>3. Same(c, Normalize(c))
  BY NormalizeParts DEF Same
<1>4. Same(Minimize(c), Normalize(Minimize(c)))
  BY <1>1, NormalizeParts DEF Same
<1>5. Same(c, Normalize(Minimize(c)))
  BY <1>1, <1>4 DEF Same
<1>. QED  BY <1>2, <1>3, <1>5, Zenon DEF Changed

LEMMA SameNDecoded == ASSUME NEW c, NEW d, Same(c, d) PROVE NDecoded(c) = NDecoded(d)
<1>1. NDecoded(d) = {d.outputs[w].ndecoded : w \in DOMAIN d.outputs}
  BY DEF NDecoded, Outputs
<1>2. NDecoded(c) = {c.outputs[w].ndecoded : w \in DOMAIN c.outputs}
  BY DEF NDecoded, Outputs
<1>. QED  BY <1>1, <1>2 DEF Same

LEMMA SameEarly ==
  ASSUME NEW c, NEW d, Same(c, d), NEW pass \in Early
  PROVE  Keeps(pass, c, {}) <=> Keeps(pass, d, {})
<1>1. Keeps("filter-all-failure", c, {}) <=> Keeps("filter-all-failure", d, {})
  BY DEF Keeps, FilterAllFailure, Outputs, Failure, Same
<1>2. Keeps("filter-all-success", c, {}) <=> Keeps("filter-all-success", d, {})
  BY DEF Keeps, FilterAllSuccess, Outputs, Success, Same
<1>3. Keeps("filter-ndecoded-same", c, {}) <=> Keeps("filter-ndecoded-same", d, {})
  BY SameNDecoded DEF Keeps, FilterNDecodedSame
<1>4. Keeps("filter-incomparable", c, {}) <=> Keeps("filter-incomparable", d, {})
  <2>1. Successes(c) = Successes(d)
    BY DEF Same, Successes, Success
  <2>. QED  BY <2>1 DEF Keeps, FilterIncomparable
<1>. QED  BY <1>1, <1>2, <1>3, <1>4 DEF Early

FirstOf(lines, j) == \A l \in 1 .. j - 1 : lines[l].input # lines[j].input

\* Of lines that are answered alike dedupe lets the first of each input through.
LEMMA AliveIs ==
  ASSUME NEW chain, ChainOK(chain), NEW lines, LinesOK(lines),
         NEW k \in 0 .. Len(chain), NEW j \in 1 .. Len(lines),
         \A l \in 1 .. Len(lines) : lines[l].input = lines[j].input => Same(lines[l], lines[j])
  PROVE  j \in Alive(chain, lines, k) <=>
           Clear(chain, k, lines[j]) /\ (Among(chain, k, "dedupe") => FirstOf(lines, j))
<1>1. Len(chain) \in Nat /\ Len(lines) \in Nat /\ k \in Nat
        /\ \A d \in 1 .. k : d \in 1 .. Len(chain)
  BY DEF ChainOK, LinesOK
<1>2. ASSUME NEW d \in 1 .. k, chain[d] = "dedupe", NEW l \in 1 .. j - 1,
             lines[l].input = lines[j].input
      PROVE  Clear(chain, d - 1, lines[l]) <=> Clear(chain, d - 1, lines[j])
  <2>1. \A c : Clear(chain, d - 1, c) <=> \A x \in 1 .. d - 1 : Keeps(chain[x], c, {})
    <3>1. ASSUME NEW x \in 1 .. d - 1 PROVE chain[x] \in Early /\ \A c : Changed(chain, x - 1,
                 c) = c
      <4>1. x \in Nat /\ x < d /\ x \in 1 .. Len(chain) /\ d \in 1 .. Len(chain)
        BY <1>1
      <4>2. \A y \in 1 .. x : y \in 1 .. Len(chain) /\ y < d
        BY <1>1, <4>1
      <4>3. \A y \in 1 .. x : chain[y] \in Early
        BY <1>2, <4>1, <4>2 DEF ChainOK
      <4>4. \A y \in 1 .. x - 1 : chain[y] \notin {"minimize-input", "normalize"}
        BY <4>1, <4>3 DEF Early
      <4>5. ~Among(chain, x - 1, "minimize-input") /\ ~Among(chain, x - 1, "normalize")
        BY <4>4 DEF Among
      <4>. QED  BY <4>1, <4>3, <4>5 DEF Changed
    <3>2. \A x \in 1 .. d - 1 : chain[x] # "dedupe"
      BY <3>1 DEF Early
    <3>. QED  BY <3>1, <3>2, Zenon DEF Clear
  <2>2. \A x \in 1 .. d - 1 : chain[x] \in Early
    <3>1. \A x \in 1 .. d - 1 : x < d /\ x \in 1 .. Len(chain) /\ d \in 1 .. Len(chain)
      BY <1>1
    <3>. QED  BY <1>2, <3>1 DEF ChainOK
  <2>3. Same(lines[l], lines[j])
    <3>1. l \in 1 .. Len(lines)
      BY <1>1
    <3>. QED  BY <1>2, <3>1
  <2>. QED  BY <2>1, <2>2, <2>3, SameEarly, Zenon
<1>3. ASSUME Clear(chain, k, lines[j])
      PROVE  First(chain, lines, k, j) <=> (Among(chain, k, "dedupe") => FirstOf(lines, j))
  <2>1. ASSUME NEW d \in 1 .. k PROVE Clear(chain, d - 1, lines[j])
    <3>1. \A x \in 1 .. d - 1 : x \in 1 .. k
      BY <1>1
    <3>. QED  BY <1>3, <3>1, Zenon DEF Clear
  <2>. QED  BY <1>2, <2>1, Zenon DEF First, FirstOf, Among
<1>. QED  BY <1>3, Zenon DEF Alive

(***************************************************************************)
(* What the passes count                                                   *)
(***************************************************************************)

LEMMA ValuesFinite ==
  ASSUME NEW n \in Nat, NEW f, DOMAIN f = 1 .. n
  PROVE  IsFiniteSet({f[k] : k \in 1 .. n})
<1>. DEFINE S == {f[k] : k \in 1 .. n}
            g == [k \in 1 .. n |-> f[k]]
<1>1. g \in [1 .. n -> S] /\ \A t \in S : \E k \in 1 .. n : g[k] = t
  OBVIOUS
<1>2. g \in Surjection(1 .. n, S)
  BY <1>1 DEF Surjection
<1>3. ExistsSurjection(1 .. n, S)
  BY <1>2 DEF ExistsSurjection
<1>. HIDE DEF S
<1>4. IsFiniteSet(S)
  BY <1>3, FS_NatSurjection
<1>. QED  BY <1>4 DEF S

LEMMA OneValue ==
  ASSUME NEW S, IsFiniteSet(S), S # {}
  PROVE  /\ Cardinality(S) # 1 <=> \E x, y \in S : x # y
         /\ Cardinality(S) <= 1 <=> ~\E x, y \in S : x # y
         /\ \A x, y \in S : x # y => Cardinality(S) >= 2
<1>1. Cardinality(S) \in Nat /\ Cardinality(S) # 0
  BY FS_CardinalityType, FS_EmptySet
<1>2. Cardinality(S) = 1 <=> \E x : S = {x}
  BY FS_Singleton
<1>3. (\E x : S = {x}) <=> ~\E x, y \in S : x # y
  OBVIOUS
<1>. QED  BY <1>1, <1>2, <1>3

LEMMA GreatestOf ==
  ASSUME NEW n \in Nat, n > 0, NEW f, \A k \in 1 .. n : f[k] \in Nat
  PROVE  \E k \in 1 .. n : \A l \in 1 .. n : f[k] >= f[l]
<1>. DEFINE T == {m \in Nat : m + 1 <= n => \E k \in 1 .. m + 1 : \A l \in 1 .. m + 1 :
                f[k] >= f[l]}
<1>1. 0 \in T
  <2>1. 1 \in 1 .. 0 + 1 /\ \A l \in 1 .. 0 + 1 : f[1] >= f[l]
    OBVIOUS
  <2>. QED  BY <2>1
<1>2. ASSUME NEW m \in T PROVE m + 1 \in T
  <2>. m \in Nat
    BY <1>2
  <2>1. CASE m + 2 <= n
    <3>1. PICK k \in 1 .. m + 1 : \A l \in 1 .. m + 1 : f[k] >= f[l]
      BY <1>2, <2>1
    <3>2. f[k] \in Nat /\ f[m + 2] \in Nat /\ \A l \in 1 .. m + 2 : f[l] \in Nat
      BY <2>1
    <3>3. \A l \in 1 .. m + 2 : l \in 1 .. m + 1 \/ l = m + 2
      OBVIOUS
    <3>4. CASE f[k] >= f[m + 2]
      <4>1. k \in 1 .. m + 2 /\ \A l \in 1 .. m + 2 : f[k] >= f[l]
        BY <3>1, <3>3, <3>4
      <4>. QED  BY <4>1
    <3>5. CASE f[m + 2] >= f[k]
      <4>1. m + 2 \in 1 .. m + 2 /\ \A l \in 1 .. m + 2 : f[m + 2] >= f[l]
        BY <3>1, <3>2, <3>3, <3>5
      <4>. QED  BY <4>1
    <3>. QED  BY <3>2, <3>4, <3>5
  <2>2. CASE ~(m + 2 <= n)
    BY <2>2
  <2>. QED  BY <2>1, <2>2
<1>3. T \subseteq Nat
  OBVIOUS
<1>. HIDE DEF T
<1>4. T = Nat
  BY <1>1, <1>2, <1>3, Induction
<1>5. PICK m \in Nat : m + 1 = n
  <2>1. n - 1 \in Nat /\ (n - 1) + 1 = n
    OBVIOUS
  <2>. QED  BY <2>1
<1>6. \E k \in 1 .. m + 1 : \A l \in 1 .. m + 1 : f[k] >= f[l]
  <2>1. m + 1 <= n
    BY <1>5
  <2>. QED  BY <1>4, <2>1 DEF T
<1>. QED  BY <1>5, <1>6

LEMMA GreatestIs ==
  ASSUME NEW S, S \subseteq Nat, NEW m \in S, \A y \in S : m >= y
  PROVE  Max(S) = m
<1>1. \A x \in S : (\A y \in S : x >= y) => x = m
  OBVIOUS
<1>. QED  BY <1>1 DEF Max

(***************************************************************************)
(* A printed line                                                          *)
(***************************************************************************)

LEMMA LineParts ==
  ASSUME NEW c, LineOK(c)
  PROVE  /\ Len(c.outputs) \in Nat /\ DOMAIN c.outputs = 1 .. Len(c.outputs)
         /\ \A w \in DOMAIN c.outputs : c.outputs[w].ndecoded \in Nat /\ c.outputs[w].status \in Nat
<1>1. c.outputs \in Seq(PrintedOutput)
  BY DEF LineOK
<1>2. Len(c.outputs) \in Nat /\ DOMAIN c.outputs = 1 .. Len(c.outputs)
  BY <1>1, LenProperties
<1>3. \A w \in DOMAIN c.outputs : c.outputs[w] \in PrintedOutput
  BY <1>1, <1>2, ElementOfSeq
<1>. QED  BY <1>2, <1>3 DEF PrintedOutput

\* The sizes of an answer.
LEMMA SizesOf ==
  ASSUME NEW c, LineOK(c), DOMAIN c.outputs # {}
  PROVE  /\ FilterNDecodedSame(c) <=> SizesDiffer(c)
         /\ FilterNDecodedDifferent(c) <=> ~SizesDiffer(c)
<1>. DEFINE n == Len(c.outputs)
            f == [w \in 1 .. n |-> c.outputs[w].ndecoded]
            S == {f[w] : w \in 1 .. n}
<1>1. n \in Nat /\ DOMAIN c.outputs = 1 .. n
  BY LineParts
<1>2. NDecoded(c) = S
  BY <1>1 DEF NDecoded, Outputs
<1>3. SizesDiffer(c) <=> \E x, y \in S : x # y
  BY <1>1 DEF SizesDiffer, Outputs
<1>4. S # {}
  BY <1>1
<1>5. IsFiniteSet(S)
  <2>1. DOMAIN f = 1 .. n
    OBVIOUS
  <2>. HIDE DEF f
  <2>. QED  BY <1>1, <2>1, ValuesFinite
<1>. HIDE DEF S
<1>6. (Cardinality(S) # 1 <=> \E x, y \in S : x # y) /\ (Cardinality(S) <= 1 <=>
        ~\E x, y \in S : x # y)
  BY <1>4, <1>5, OneValue
<1>. QED  BY <1>2, <1>3, <1>6 DEF FilterNDecodedSame, FilterNDecodedDifferent

\* Two successes of different sizes are two successes.
LEMMA DiscrepanciesOf ==
  ASSUME NEW c, LineOK(c), \E w \in DOMAIN c.outputs : Success(c.outputs[w])
  PROVE  /\ FindSizeDiscrepancies(c) <=> SizeDiscrepancy(c)
         /\ SizeDiscrepancy(c) => FilterIncomparable(c) /\ SizesDiffer(c)
<1>. DEFINE n == Len(c.outputs)
            U == Successes(c)
            f == [w \in 1 .. n |-> c.outputs[w].ndecoded]
            S == SuccessSizes(c)
<1>1. n \in Nat /\ DOMAIN c.outputs = 1 .. n
  BY LineParts
<1>2. U \subseteq 1 .. n /\ IsFiniteSet(U) /\ U # {}
  <2>1. U \subseteq 1 .. n /\ U # {}
    BY <1>1 DEF Successes
  <2>2. IsFiniteSet(1 .. n)
    BY <1>1, FS_Interval
  <2>. HIDE DEF U
  <2>. QED  BY <2>1, <2>2, FS_Subset
<1>3. SizeDiscrepancy(c) <=> \E v, w \in U : f[v] # f[w]
  <2>1. SizeDiscrepancy(c) <=>
          \E v, w \in DOMAIN c.outputs : /\ Success(c.outputs[v]) /\ Success(c.outputs[w])
                                       /\ c.outputs[v].ndecoded # c.outputs[w].ndecoded
    BY DEF SizeDiscrepancy, Outputs
  <2>2. \A v : v \in U <=> v \in DOMAIN c.outputs /\ Success(c.outputs[v])
    BY DEF Successes
  <2>3. \A v \in U : f[v] = c.outputs[v].ndecoded
    BY <1>2, <1>1
  <2>. HIDE DEF U, f
  <2>. QED  BY <2>1, <2>2, <2>3
<1>4. S = {f[w] : w \in U}
  BY <1>1, <1>2 DEF SuccessSizes
<1>5. IsFiniteSet(S)
  <2>1. IsFiniteSet({f[w] : w \in 1 .. n})
    <3>1. DOMAIN f = 1 .. n
      OBVIOUS
    <3>. HIDE DEF f
    <3>. QED  BY <1>1, <3>1, ValuesFinite
  <2>2. S \subseteq {f[w] : w \in 1 .. n}
    <3>. HIDE DEF f, S, U
    <3>. QED  BY <1>2, <1>4
  <2>. HIDE DEF f, S, U
  <2>. QED  BY <2>1, <2>2, FS_Subset
<1>6. SizeDiscrepancy(c) => SizesDiffer(c)
  BY DEF SizeDiscrepancy, SizesDiffer
<1>7. FindSizeDiscrepancies(c) <=> Cardinality(S) # 1
  BY DEF FindSizeDiscrepancies
<1>8. FilterIncomparable(c) <=> Cardinality(U) >= 2
  BY DEF FilterIncomparable
<1>. HIDE DEF f, S, U
<1>9. S # {}
  BY <1>2, <1>4
<1>10. Cardinality(S) # 1 <=> \E x, y \in S : x # y
  BY <1>5, <1>9, OneValue
<1>11. (\E x, y \in S : x # y) <=> \E v, w \in U : f[v] # f[w]
  BY <1>4
<1>12. ASSUME NEW v \in U, NEW w \in U, f[v] # f[w] PROVE Cardinality(U) >= 2
  <2>1. v # w
    BY <1>12
  <2>. QED  BY <1>2, <2>1, OneValue
<1>. QED  BY <1>3, <1>6, <1>7, <1>8, <1>10, <1>11, <1>12

\* Somebody used a byte.
LEMMA SomeUsed ==
  ASSUME NEW c, LineOK(c), NEW w \in DOMAIN c.outputs, c.outputs[w].ndecoded # 0
  PROVE  MinimizeInput(c)
<1>. DEFINE n == Len(c.outputs)
            f == [v \in 1 .. n |-> c.outputs[v].ndecoded]
            S == {f[v] : v \in 1 .. n}
<1>1. n \in Nat /\ DOMAIN c.outputs = 1 .. n /\ \A v \in 1 .. n : f[v] \in Nat
  BY LineParts
<1>2. n > 0 /\ w \in 1 .. n /\ f[w] # 0
  BY <1>1
<1>3. NDecoded(c) = S
  BY <1>1 DEF NDecoded, Outputs
<1>. HIDE DEF f
<1>4. PICK k \in 1 .. n : \A l \in 1 .. n : f[k] >= f[l]
  BY <1>1, <1>2, GreatestOf
<1>5. S \subseteq Nat /\ f[k] \in S /\ \A y \in S : f[k] >= y
  BY <1>1, <1>4
<1>. HIDE DEF S
<1>6. Max(S) = f[k]
  BY <1>5, GreatestIs
<1>7. f[k] # 0
  BY <1>1, <1>2, <1>4
<1>. QED  BY <1>3, <1>6, <1>7 DEF MinimizeInput, MaxNDecoded

(***************************************************************************)
(* What single passes let through                                          *)
(***************************************************************************)

LEMMA KeepsIs ==
  ASSUME NEW c
  PROVE  /\ Keeps("filter-all-failure", c, {}) <=> FilterAllFailure(c)
         /\ Keeps("filter-all-success", c, {}) <=> FilterAllSuccess(c)
         /\ Keeps("filter-any-failure", c, {}) <=> FilterAnyFailure(c)
         /\ Keeps("filter-ndecoded-same", c, {}) <=> FilterNDecodedSame(c)
         /\ Keeps("filter-ndecoded-different", c, {}) <=> FilterNDecodedDifferent(c)
         /\ Keeps("filter-incomparable", c, {}) <=> FilterIncomparable(c)
         /\ Keeps("find-size-discrepancies", c, {}) <=> FindSizeDiscrepancies(c)
         /\ Keeps("filter-bddisasm-salc", c, {}) <=> FilterBddisasmSalc(c)
         /\ Keeps("filter-ghidra-lock", c, {}) <=> FilterGhidraLock(c)
         /\ Keeps("filter-destroy-bddisasm", c, {}) <=> FilterDestroyBddisasm(c)
         /\ Keeps("filter-destroy-capstone", c, {}) <=> FilterDestroyCapstone(c)
         /\ Keeps("filter-destroy-ghidra", c, {}) <=> FilterDestroyGhidra(c)
         /\ Keeps("filter-xed-find-overaccept", c, {}) <=> FilterXedFindOveraccept(c)
         /\ Keeps("filter-xed-find-underaccept", c, {}) <=> FilterXedFindUnderaccept(c)
         /\ Keeps("minimize-input", c, {}) <=> MinimizeInput(c)
         /\ Keeps("normalize", c, {})
BY DEF Keeps

LEMMA RaisesIs ==
  ASSUME NEW c
  PROVE  /\ Raises("filter-bddisasm-salc", c) <=> ~Has(c, Bddisasm)
         /\ Raises("filter-ghidra-lock", c) <=> ~Has(c, Ghidra)
         /\ Raises("filter-destroy-bddisasm", c) <=> Misses(c, Bddisasm, <<Xed, Zydis>>)
         /\ Raises("filter-destroy-capstone", c) <=> Misses(c, Capstone, <<Xed, Zydis>>)
         /\ Raises("filter-destroy-ghidra", c) <=> Misses(c, Ghidra, <<Xed, Zydis, Iced>>)
         /\ Raises("filter-xed-find-overaccept", c) <=>
              (Has(c, Xed) => Success(OutputOf(c, Xed)) /\ MissesOthers(c))
         /\ Raises("filter-xed-find-underaccept", c) <=>
              (Has(c, Xed) => ~Success(OutputOf(c, Xed)) /\ MissesOthers(c))
BY DEF Raises

LEMMA NamesDiffer ==
  /\ Bddisasm # Zydis /\ Zydis # Iced /\ Iced # Bddisasm
  /\ Xed # Capstone /\ Xed # Bddisasm /\ Xed # Ghidra
BY DEF Bddisasm, Zydis, Iced, Xed, Capstone, Ghidra

\* No decoder is there twice.
Named(c) ==
  /\ Len(c.outputs) \in Nat /\ DOMAIN c.outputs = 1 .. Len(c.outputs)
  /\ \A v, w \in DOMAIN c.outputs : v # w => c.outputs[v].so # c.outputs[w].so

LEMMA OutputIs ==
  ASSUME NEW c, Named(c), NEW w \in DOMAIN c.outputs
  PROVE  OutputOf(c, c.outputs[w].so) = c.outputs[w]
<1>. DEFINE P(v) == c.outputs[v].so = c.outputs[w].so
                /\ \A u \in 1 .. v - 1 : c.outputs[u].so # c.outputs[w].so
<1>1. w \in 1 .. Len(c.outputs) /\ Len(c.outputs) \in Nat /\ DOMAIN c.outputs = 1 .. Len(c.outputs)
  BY DEF Named
<1>2. \A u \in 1 .. w - 1 : u \in DOMAIN c.outputs /\ u # w
  BY <1>1
<1>3. P(w)
  BY <1>2 DEF Named
<1>4. \A v \in DOMAIN c.outputs : P(v) => v = w
  BY DEF Named
<1>. HIDE DEF P
<1>5. (CHOOSE v \in DOMAIN c.outputs : P(v)) = w
  BY <1>3, <1>4
<1>. QED  BY <1>5 DEF OutputOf, P

LEMMA OutputThere ==
  ASSUME NEW c, Named(c), NEW so, Has(c, so)
  PROVE  /\ OutputOf(c, so) \in Outputs(c) /\ OutputOf(c, so).so = so
         /\ \A o \in Outputs(c) : o.so = so => o = OutputOf(c, so)
<1>1. PICK w \in DOMAIN c.outputs : c.outputs[w].so = so
  BY DEF Has
<1>2. OutputOf(c, so) = c.outputs[w]
  BY <1>1, OutputIs
<1>3. ASSUME NEW o \in Outputs(c), o.so = so PROVE o = OutputOf(c, so)
  <2>1. PICK v \in DOMAIN c.outputs : o = c.outputs[v]
    BY DEF Outputs
  <2>. QED  BY <1>3, <2>1, OutputIs
<1>. QED  BY <1>1, <1>2, <1>3 DEF Outputs

LEMMA HasIs == ASSUME NEW c, NEW so PROVE Has(c, so) <=> \E o \in Outputs(c) : o.so = so
BY DEF Has, Outputs

LEMMA SaysIs ==
  ASSUME NEW c, Named(c), NEW so, Has(c, so)
  PROVE  /\ Says(c, so, TRUE) <=> Success(OutputOf(c, so))
         /\ Says(c, so, FALSE) <=> ~Success(OutputOf(c, so))
<1>1. Says(c, so, TRUE) <=> \E o \in Outputs(c) : o.so = so /\ Success(o)
  BY DEF Says, Success
<1>2. Says(c, so, FALSE) <=> \E o \in Outputs(c) : o.so = so /\ ~Success(o)
  BY DEF Says, Success
<1>. QED  BY <1>1, <1>2, OutputThere

LEMMA SaysHas == ASSUME NEW c, NEW so, NEW yes, Says(c, so, yes) PROVE Has(c, so)
BY HasIs DEF Says

\* A pass that has not failed and lets a line through has seen two decoders differ.
LEMMA DestroyIs ==
  ASSUME NEW c, Named(c), NEW so, NEW others, Len(others) \in Nat, DOMAIN others = 1 .. Len(others),
         ~Misses(c, so, others)
  PROVE  Disagree(c, so, others) <=> Differ(c, so, {others[k] : k \in DOMAIN others})
<1>. DEFINE K == Odd(c, so, others)
            S == {others[k] : k \in DOMAIN others}
<1>1. Has(c, so) /\ (Disagree(c, so, others) => Has(c, others[Min(K)]))
  BY DEF Misses
<1>2. K \subseteq 1 .. Len(others) /\ \A k \in K : k \in DOMAIN others
  BY DEF Odd
<1>3. ASSUME K # {} PROVE Differ(c, so, S)
  <2>1. K \subseteq Nat
    BY <1>2
  <2>2. \E x \in K : \A y \in K : x <= y
    <3>. HIDE DEF K
    <3>. QED  BY <1>3, <2>1, LeastNatural
  <2>3. Min(K) \in K
    <3>. HIDE DEF K
    <3>. QED  BY <2>2 DEF Min
  <2>4. Has(c, others[Min(K)])
    BY <1>1, <1>3 DEF Disagree
  <2>5. PICK p : p = others[Min(K)]
    OBVIOUS
  <2>6. OutputOf(c, p).status # OutputOf(c, so).status /\ p \in S
    BY <1>2, <2>3, <2>4, <2>5 DEF Odd
  <2>7. OutputOf(c, so) \in Outputs(c) /\ OutputOf(c, so).so = so
    BY <1>1, OutputThere
  <2>8. OutputOf(c, p) \in Outputs(c) /\ OutputOf(c, p).so = p
    BY <2>4, <2>5, OutputThere
  <2>. HIDE DEF S
  <2>. QED  BY <2>6, <2>7, <2>8 DEF Differ
<1>4. ASSUME Differ(c, so, S) PROVE K # {}
  <2>1. PICK o \in Outputs(c), p \in Outputs(c) : o.so = so /\ p.so \in S /\ o.status # p.status
    BY <1>4 DEF Differ
  <2>2. PICK k \in DOMAIN others : others[k] = p.so
    BY <2>1
  <2>3. o = OutputOf(c, so)
    BY <1>1, <2>1, OutputThere
  <2>4. Has(c, p.so)
    BY <2>1, HasIs
  <2>5. p = OutputOf(c, others[k])
    BY <2>2, <2>4, OutputThere
  <2>6. k \in K
    BY <2>1, <2>3, <2>5 DEF Odd
  <2>. QED  BY <2>6
<1>. QED  BY <1>3, <1>4 DEF Disagree

\* All but at most one of T are in S.
AllButOne(T, S) == \E x \in T : \A y \in T \ {x} : y \in S

LEMMA MajorityOfThree ==
  ASSUME NEW a, NEW b, NEW c, a # b, b # c, c # a, NEW T, T = {a, b, c}, NEW S, S \subseteq T
  PROVE  (2 * Cardinality(S) > Cardinality(T)) <=> AllButOne(T, S)
<1>1. ASSUME NEW x, NEW y, x # y PROVE IsFiniteSet({x, y}) /\ Cardinality({x, y}) = 2
  <2>1. IsFiniteSet({x}) /\ Cardinality({x}) = 1 /\ {x} \cup {y} = {x, y} /\ y \notin {x}
    BY <1>1, FS_Singleton
  <2>. QED  BY <2>1, FS_AddElement
<1>2. IsFiniteSet(T) /\ Cardinality(T) = 3
  <2>1. IsFiniteSet({a, b}) /\ Cardinality({a, b}) = 2 /\ {a, b} \cup {c} = T /\ c \notin {a, b}
    BY <1>1
  <2>2. IsFiniteSet({a, b} \cup {c}) /\ Cardinality({a, b} \cup {c}) = 3
    BY <2>1, FS_AddElement
  <2>. QED  BY <2>1, <2>2
<1>3. IsFiniteSet(S) /\ Cardinality(S) \in Nat
  BY <1>2, FS_Subset, FS_CardinalityType
<1>4. ASSUME NEW x, NEW y, x # y, x \in S, y \in S PROVE Cardinality(S) >= 2
  <2>1. {x, y} \subseteq S
    BY <1>4
  <2>2. Cardinality({x, y}) <= Cardinality(S)
    BY <1>3, <2>1, FS_Subset
  <2>. QED  BY <1>1, <1>3, <1>4, <2>2
<1>5. ASSUME NEW x, S \subseteq {x} PROVE Cardinality(S) <= 1
  <2>1. IsFiniteSet({x}) /\ Cardinality({x}) = 1
    BY FS_Singleton
  <2>2. S \in SUBSET {x}
    BY <1>5
  <2>3. Cardinality(S) <= Cardinality({x})
    BY <2>1, <2>2, FS_Subset
  <2>. QED  BY <2>1, <2>3
<1>6. ASSUME Cardinality(S) >= 2 PROVE AllButOne(T, S)
  <2>1. ~(S \subseteq {a}) /\ ~(S \subseteq {b}) /\ ~(S \subseteq {c})
    BY <1>3, <1>5, <1>6
  <2>. QED  BY <2>1 DEF AllButOne
<1>7. ASSUME AllButOne(T, S) PROVE Cardinality(S) >= 2
  <2>1. (a \in S /\ b \in S) \/ (b \in S /\ c \in S) \/ (c \in S /\ a \in S)
    BY <1>7 DEF AllButOne
  <2>. QED  BY <1>4, <2>1
<1>8. (2 * Cardinality(S) > Cardinality(T)) <=> Cardinality(S) >= 2
  BY <1>2, <1>3
<1>9. (Cardinality(S) >= 2) <=> AllButOne(T, S)
  BY <1>6, <1>7
<1>. QED  BY <1>8, <1>9

LEMMA ConsensusIs ==
  ASSUME NEW c, Named(c), ~MissesOthers(c)
  PROVE  /\ SuccessByConsensus(c, {Bddisasm, Zydis, Iced}) <=> TwoOfThree(c, TRUE)
         /\ FailureByConsensus(c, {Bddisasm, Zydis, Iced}) <=> TwoOfThree(c, FALSE)
<1>. DEFINE T == {Bddisasm, Zydis, Iced}
            Y == {so \in T : Success(OutputOf(c, so))}
            N == {so \in T : ~Success(OutputOf(c, so))}
<1>1. T = {Bddisasm, Zydis, Iced} /\ Y \subseteq T /\ N \subseteq T
  OBVIOUS
<1>2. \A so \in T : Has(c, so)
  BY DEF MissesOthers
<1>3. \A so \in T : (so \in Y <=> Says(c, so, TRUE)) /\ (so \in N <=> Says(c, so, FALSE))
  <2>. SUFFICES ASSUME NEW so \in T
                PROVE  (so \in Y <=> Says(c, so, TRUE)) /\ (so \in N <=> Says(c, so, FALSE))
    OBVIOUS
  <2>. QED  BY <1>2, SaysIs
<1>4. SuccessByConsensus(c, T) <=> 2 * Cardinality(Y) > Cardinality(T)
  BY DEF SuccessByConsensus
<1>5. FailureByConsensus(c, T) <=> 2 * Cardinality(N) > Cardinality(T)
  BY DEF FailureByConsensus
<1>6. TwoOfThree(c, TRUE) <=> \E x \in T : \A y \in T \ {x} : Says(c, y, TRUE)
  BY Zenon DEF TwoOfThree
<1>7. TwoOfThree(c, FALSE) <=> \E x \in T : \A y \in T \ {x} : Says(c, y, FALSE)
  BY Zenon DEF TwoOfThree
<1>. HIDE DEF T, Y, N
<1>8. (2 * Cardinality(Y) > Cardinality(T)) <=> AllButOne(T, Y)
  BY <1>1, NamesDiffer, MajorityOfThree
<1>9. (2 * Cardinality(N) > Cardinality(T)) <=> AllButOne(T, N)
  BY <1>1, NamesDiffer, MajorityOfThree
<1>10. AllButOne(T, Y) <=> TwoOfThree(c, TRUE)
  BY <1>3, <1>6, Zenon DEF AllButOne
<1>11. AllButOne(T, N) <=> TwoOfThree(c, FALSE)
  BY <1>3, <1>7, Zenon DEF AllButOne
<1>12. SuccessByConsensus(c, T) <=> TwoOfThree(c, TRUE)
  BY <1>4, <1>8, <1>10
<1>13. FailureByConsensus(c, T) <=> TwoOfThree(c, FALSE)
  BY <1>5, <1>9, <1>11
<1>. QED  BY <1>12, <1>13 DEF T

\* Two of three are two decoders, one of which is not iced.
LEMMA TwoSay ==
  ASSUME NEW c, NEW yes, TwoOfThree(c, yes)
  PROVE  Says(c, Bddisasm, yes) \/ Says(c, Zydis, yes)
BY NamesDiffer DEF TwoOfThree

(***************************************************************************)
(* Profiles that look at a line before they change it                      *)
(***************************************************************************)

LEMMA SensibleLine ==
  ASSUME NEW c, LineOK(c), Sensible(c)
  PROVE  /\ MinimizeInput(c) /\ DOMAIN c.outputs # {} /\ Named(c)
         /\ \E w \in DOMAIN c.outputs : Success(c.outputs[w])
         /\ \E o \in Outputs(c) : Success(o) /\ ~Failure(o)
<1>1. PICK w \in DOMAIN c.outputs : Success(c.outputs[w]) /\ c.outputs[w].ndecoded # 0
  BY DEF Sensible
<1>2. ~Failure(c.outputs[w])
  BY <1>1 DEF Success, Failure, S_SUCCESS, S_FAILURE
<1>3. Named(c)
  BY LineParts DEF Named, Sensible
<1>. QED  BY <1>1, <1>2, <1>3, SomeUsed DEF Outputs

Disputed(c) == SizesDiffer(c) /\ \E o \in Outputs(c) : ~Success(o)

\* What the passes of a profile let through, taken together.
Passed(name, c) ==
  CASE name = "default"              -> (\E o \in Outputs(c) : ~Failure(o)) /\ SizesDiffer(c)
    [] name = "dedupe"               -> TRUE
    [] name = "same-size-different-decodings" ->
         (\A o \in Outputs(c) : ~Failure(o)) /\ ~SizesDiffer(c)
    [] name = "size-discrepancies"   -> SizeDiscrepancy(c)
    [] name = "status-discrepancies" -> StatusDiscrepancy(c)
    [] name = "destroy-capstone"     -> Disputed(c) /\ Differ(c, Capstone, {Xed, Zydis})
    [] name = "destroy-bddisasm"     -> Disputed(c) /\ Differ(c, Bddisasm, {Xed, Zydis})
    [] name = "destroy-ghidra"       -> Disputed(c) /\ Differ(c, Ghidra, {Xed, Zydis, Iced})
                                          /\ Normalized(OutputOf(c, Ghidra).result) # LOCK
    [] name = "xed-overaccept"       -> Says(c, Xed, TRUE) /\ TwoOfThree(c, FALSE)
    [] name = "xed-underaccept"      -> Says(c, Xed, FALSE) /\ TwoOfThree(c, TRUE)
                                          /\ OutputOf(c, Bddisasm).result # SALC

\* A pass that is not dedupe keeps the line.
Lets(pass, c) == pass = "dedupe" \/ Keeps(pass, c, {})

LEMMA ClearPlain ==
  ASSUME NEW t, NEW n \in Nat, \A l \in 1 .. n : t[l] \notin {"minimize-input", "normalize"}, NEW c
  PROVE  /\ \A k \in 1 .. n + 1 : Changed(t, k - 1, c) = c
         /\ \A k \in 0 .. n : Clear(t, k, c) <=> \A l \in 1 .. k : Lets(t[l], c)
<1>1. ASSUME NEW k \in 1 .. n + 1 PROVE Changed(t, k - 1, c) = c
  <2>1. \A l \in 1 .. k - 1 : l \in 1 .. n
    OBVIOUS
  <2>2. ~Among(t, k - 1, "minimize-input") /\ ~Among(t, k - 1, "normalize")
    BY <2>1 DEF Among
  <2>. QED  BY <2>2 DEF Changed
<1>2. ASSUME NEW k \in 0 .. n PROVE Clear(t, k, c) <=> \A l \in 1 .. k : Lets(t[l], c)
  <2>1. \A l \in 1 .. k : Changed(t, l - 1, c) = c
    <3>1. \A l \in 1 .. k : l \in 1 .. n + 1
      OBVIOUS
    <3>. QED  BY <1>1, <3>1
  <2>. QED  BY <2>1, Zenon DEF Clear, Lets
<1>. QED  BY <1>1, <1>2

\* A profile of n passes that filter, then minimize-input and normalize.
LEMMA PlainProfile ==
  ASSUME NEW t, NEW n \in Nat, \A l \in 1 .. n : t[l] \notin {"minimize-input", "normalize"},
         t[n + 1] = "minimize-input", t[n + 2] = "normalize", NEW c
  PROVE  /\ MinimizeInput(c) => (Clear(t, n + 2, c) <=> \A l \in 1 .. n : Lets(t[l], c))
         /\ Changed(t, n + 2, c) = Normalize(Minimize(c))
         /\ Among(t, n + 2, "dedupe") <=> \E l \in 1 .. n : t[l] = "dedupe"
<1>1. PICK a \in Nat : a = n + 1
  OBVIOUS
<1>2. PICK b \in Nat : b = n + 2
  OBVIOUS
<1>3. a > 0 /\ b > 0 /\ a - 1 = n /\ b - 1 = a /\ a \in 1 .. n + 1 /\ n \in 0 .. n
  BY <1>1, <1>2
<1>4. Changed(t, n, c) = c /\ (Clear(t, n, c) <=> \A l \in 1 .. n : Lets(t[l], c))
  <2>1. \A k \in 1 .. n + 1 : Changed(t, k - 1, c) = c
    BY ClearPlain
  <2>2. \A k \in 0 .. n : Clear(t, k, c) <=> \A l \in 1 .. k : Lets(t[l], c)
    BY ClearPlain
  <2>3. Changed(t, a - 1, c) = c
    BY <1>3, <2>1
  <2>. QED  BY <1>3, <2>2, <2>3
<1>5. Clear(t, a, c) <=> Clear(t, n, c) /\ (t[a] = "dedupe" \/ Keeps(t[a], c, {}))
  BY <1>3, <1>4, ClearStep
<1>6. Clear(t, b, c) <=> Clear(t, a, c) /\ (t[b] = "dedupe" \/ Keeps(t[b], Changed(t, a, c), {}))
  BY <1>3, ClearStep
<1>7. t[a] = "minimize-input" /\ t[b] = "normalize"
  BY <1>1, <1>2
<1>8. Keeps("normalize", Changed(t, a, c), {}) /\ (Keeps("minimize-input", c, {}) <=>
        MinimizeInput(c))
  BY KeepsIs
<1>9. \A l : l \in 1 .. b <=> l \in 1 .. n \/ l = a \/ l = b
  BY <1>1, <1>2
<1>10. Among(t, b, "minimize-input") /\ Among(t, b, "normalize")
  BY <1>7, <1>9 DEF Among
<1>11. Among(t, b, "dedupe") <=> \E l \in 1 .. n : t[l] = "dedupe"
  BY <1>7, <1>9 DEF Among
<1>. QED  BY <1>2, <1>4, <1>5, <1>6, <1>7, <1>8, <1>10, <1>11 DEF Changed

\* The passes of a profile are Passed, one behind the other.
Shows(name) ==
  LET t == Chain(name)
      m == Len(t)
  IN  \A c : LineOK(c) /\ Sensible(c)
               /\ (\A k \in 1 .. m : Clear(t, k - 1, c) => ~Raises(t[k], Changed(t, k - 1, c)))
             => (Clear(t, m, c) <=> Passed(name, c))

\* What they make of it.
Finishes(name) ==
  LET t == Chain(name)
      m == Len(t)
  IN  /\ \A c : LineOK(c) => Changed(t, m, c) = IF name =
           "dedupe" THEN c ELSE Normalize(Minimize(c))
      /\ Among(t, m, "dedupe") <=> name # "same-size-different-decodings"

\* The same, of n passes that filter a line as it was printed.
Judges(name, t, n) ==
  \A c : LineOK(c) /\ Sensible(c)
           /\ (\A k \in 1 .. n : (\A l \in 1 .. k - 1 : Lets(t[l], c)) => ~Raises(t[k], c))
         => ((\A l \in 1 .. n : Lets(t[l], c)) <=> Passed(name, c))

LEMMA PlainShows ==
  ASSUME NEW name, name # "dedupe", NEW t, t = Chain(name), NEW n \in Nat, Len(t) = n + 2,
         \A l \in 1 .. n : t[l] \notin {"minimize-input", "normalize"},
         t[n + 1] = "minimize-input", t[n + 2] = "normalize",
         (\E l \in 1 .. n : t[l] = "dedupe") <=> name # "same-size-different-decodings",
         Judges(name, t, n)
  PROVE  Shows(name) /\ Finishes(name)
<1>1. PICK m \in Nat : m = n + 2
  OBVIOUS
<1>2. /\ \A c : MinimizeInput(c) => (Clear(t, m, c) <=> \A l \in 1 .. n : Lets(t[l], c))
      /\ \A c : Changed(t, m, c) = Normalize(Minimize(c))
      /\ Among(t, m, "dedupe") <=> \E l \in 1 .. n : t[l] = "dedupe"
  BY <1>1, PlainProfile
<1>3. ASSUME NEW c, LineOK(c), Sensible(c),
             \A k \in 1 .. m : Clear(t, k - 1, c) => ~Raises(t[k], Changed(t, k - 1, c))
      PROVE  Clear(t, m, c) <=> Passed(name, c)
  <2>1. ASSUME NEW k \in 1 .. n, \A l \in 1 .. k - 1 : Lets(t[l], c) PROVE ~Raises(t[k], c)
    <3>1. PICK b \in 0 .. n : b = k - 1
      OBVIOUS
    <3>2. \A a \in 0 .. n : Clear(t, a, c) <=> \A l \in 1 .. a : Lets(t[l], c)
      BY ClearPlain
    <3>3. \A a \in 1 .. n + 1 : Changed(t, a - 1, c) = c
      BY ClearPlain
    <3>4. Clear(t, b, c)
      BY <2>1, <3>1, <3>2
    <3>5. Changed(t, b, c) = c
      <4>1. k \in 1 .. n + 1
        OBVIOUS
      <4>. QED  BY <3>1, <3>3, <4>1
    <3>6. k \in 1 .. m
      BY <1>1
    <3>. QED  BY <1>3, <3>1, <3>4, <3>5, <3>6
  <2>2. (\A l \in 1 .. n : Lets(t[l], c)) <=> Passed(name, c)
    BY <1>3, <2>1, Zenon DEF Judges
  <2>. QED  BY <1>2, <1>3, <2>2, SensibleLine
<1>4. Len(t) = m
  BY <1>1
<1>5. Shows(name)
  BY <1>3, <1>4, Zenon DEF Shows
<1>6. Finishes(name)
  BY <1>2, <1>4 DEF Finishes
<1>. QED  BY <1>5, <1>6

\* Whom xed and two others contradict: a success has used a byte, a failure of these none.
LEMMA OverSays ==
  ASSUME NEW c, LineOK(c), Sensible(c), Says(c, Xed, TRUE), TwoOfThree(c, FALSE)
  PROVE  FilterAllSuccess(c) /\ SizesDiffer(c)
<1>1. PICK v \in DOMAIN c.outputs : c.outputs[v].so = Xed /\ Success(c.outputs[v])
  BY DEF Says, Outputs
<1>2. PICK w \in DOMAIN c.outputs : c.outputs[w].so \in {Bddisasm, Zydis} /\ ~Success(c.outputs[w])
  <2>1. Says(c, Bddisasm, FALSE) \/ Says(c, Zydis, FALSE)
    BY TwoSay
  <2>. QED  BY <2>1 DEF Says, Outputs, Success
<1>3. c.outputs[v].ndecoded # 0 /\ c.outputs[w].ndecoded = 0
  BY <1>1, <1>2 DEF Sensible
<1>. QED  BY <1>1, <1>2, <1>3 DEF FilterAllSuccess, SizesDiffer, Outputs

LEMMA UnderSays ==
  ASSUME NEW c, LineOK(c), Sensible(c), Says(c, Xed, FALSE), TwoOfThree(c, TRUE)
  PROVE  FilterAllSuccess(c) /\ SizesDiffer(c)
<1>1. PICK v \in DOMAIN c.outputs : c.outputs[v].so = Xed /\ ~Success(c.outputs[v])
  BY DEF Says, Outputs, Success
<1>2. PICK w \in DOMAIN c.outputs : Success(c.outputs[w])
  BY DEF Sensible
<1>3. c.outputs[v].ndecoded = 0 /\ c.outputs[w].ndecoded # 0
  BY <1>1, <1>2 DEF Sensible
<1>. QED  BY <1>1, <1>2, <1>3 DEF FilterAllSuccess, SizesDiffer, Outputs

LEMMA DefaultShows == Shows("default") /\ Finishes("default")
<1>. DEFINE t == Chain("default")
<1>1. PICK n \in Nat : n = 3
  OBVIOUS
<1>2. /\ Len(t) = 5 /\ t[1] = "filter-all-failure" /\ t[2] = "filter-ndecoded-same"
      /\ t[3] = "dedupe" /\ t[4] = "minimize-input" /\ t[5] = "normalize"
  BY DefaultChain
<1>. HIDE DEF t
<1>3. /\ Len(t) = n + 2 /\ t[n + 1] = "minimize-input" /\ t[n + 2] = "normalize"
      /\ \A l \in 1 .. n : l = 1 \/ l = 2 \/ l = 3
      /\ 3 \in 1 .. n
  BY <1>1, <1>2
<1>4. \A l \in 1 .. n : t[l] \notin {"minimize-input", "normalize"}
  BY <1>2, <1>3
<1>5. ASSUME NEW c, LineOK(c), Sensible(c),
             \A k \in 1 .. n : (\A l \in 1 .. k - 1 : Lets(t[l], c)) => ~Raises(t[k], c)
      PROVE  (\A l \in 1 .. n : Lets(t[l], c)) <=> Passed("default", c)
  <2>1. (\A l \in 1 .. n : Lets(t[l], c)) <=> Lets(t[1], c) /\ Lets(t[2], c) /\ Lets(t[3], c)
    BY <1>1, <1>3
  <2>2. FilterNDecodedSame(c) <=> SizesDiffer(c)
    BY <1>5, SensibleLine, SizesOf
  <2>3. Passed("default", c) <=> FilterAllFailure(c) /\ SizesDiffer(c)
    BY DEF Passed, FilterAllFailure
  <2>. QED  BY <1>2, <2>1, <2>2, <2>3, KeepsIs DEF Lets
<1>6. Judges("default", t, n)
  BY <1>5, Zenon DEF Judges
<1>7. (\E l \in 1 .. n : t[l] = "dedupe") <=> "default" # "same-size-different-decodings"
  BY <1>2, <1>3
<1>8. t = Chain("default")
  BY DEF t
<1>. QED  BY <1>1, <1>3, <1>4, <1>6, <1>7, <1>8, PlainShows

LEMMA StatusDiscrepanciesShows == Shows("status-discrepancies") /\ Finishes("status-discrepancies")
<1>. DEFINE t == Chain("status-discrepancies")
<1>1. PICK n \in Nat : n = 3
  OBVIOUS
<1>2. /\ Len(t) = 5 /\ t[1] = "filter-all-failure" /\ t[2] = "filter-all-success"
      /\ t[3] = "dedupe" /\ t[4] = "minimize-input" /\ t[5] = "normalize"
  BY StatusDiscrepanciesChain
<1>. HIDE DEF t
<1>3. /\ Len(t) = n + 2 /\ t[n + 1] = "minimize-input" /\ t[n + 2] = "normalize"
      /\ \A l \in 1 .. n : l = 1 \/ l = 2 \/ l = 3
      /\ 3 \in 1 .. n
  BY <1>1, <1>2
<1>4. \A l \in 1 .. n : t[l] \notin {"minimize-input", "normalize"}
  BY <1>2, <1>3
<1>5. ASSUME NEW c, LineOK(c), Sensible(c),
             \A k \in 1 .. n : (\A l \in 1 .. k - 1 : Lets(t[l], c)) => ~Raises(t[k], c)
      PROVE  (\A l \in 1 .. n : Lets(t[l], c)) <=> Passed("status-discrepancies", c)
  <2>1. (\A l \in 1 .. n : Lets(t[l], c)) <=> Lets(t[1], c) /\ Lets(t[2], c) /\ Lets(t[3], c)
    BY <1>1, <1>3
  <2>2. Passed("status-discrepancies", c) <=> FilterAllFailure(c) /\ FilterAllSuccess(c)
    BY DEF Passed, StatusDiscrepancy, FilterAllFailure, FilterAllSuccess
  <2>. QED  BY <1>2, <2>1, <2>2, KeepsIs DEF Lets
<1>6. Judges("status-discrepancies", t, n)
  BY <1>5, Zenon DEF Judges
<1>7. (\E l \in 1 .. n : t[l] = "dedupe") <=>
        "status-discrepancies" # "same-size-different-decodings"
  BY <1>2, <1>3
<1>8. t = Chain("status-discrepancies")
  BY DEF t
<1>. QED  BY <1>1, <1>3, <1>4, <1>6, <1>7, <1>8, PlainShows

\* The pass that does not exist would be the one to look at the decodings.
LEMMA SameSizeShows == Shows("same-size-different-decodings")
  /\ Finishes("same-size-different-decodings")
<1>. DEFINE t == Chain("same-size-different-decodings")
<1>1. PICK n \in Nat : n = 2
  OBVIOUS
<1>2. /\ Len(t) = 4 /\ t[1] = "filter-any-failure" /\ t[2] = "filter-ndecoded-different"
      /\ t[3] = "minimize-input" /\ t[4] = "normalize"
  BY SameSizeChain
<1>. HIDE DEF t
<1>3. /\ Len(t) = n + 2 /\ t[n + 1] = "minimize-input" /\ t[n + 2] = "normalize"
      /\ \A l \in 1 .. n : l = 1 \/ l = 2
  BY <1>1, <1>2
<1>4. \A l \in 1 .. n : t[l] \notin {"minimize-input", "normalize"}
  BY <1>2, <1>3
<1>5. ASSUME NEW c, LineOK(c), Sensible(c),
             \A k \in 1 .. n : (\A l \in 1 .. k - 1 : Lets(t[l], c)) => ~Raises(t[k], c)
      PROVE  (\A l \in 1 .. n : Lets(t[l], c)) <=> Passed("same-size-different-decodings", c)
  <2>1. (\A l \in 1 .. n : Lets(t[l], c)) <=> Lets(t[1], c) /\ Lets(t[2], c)
    BY <1>1, <1>3
  <2>2. FilterNDecodedDifferent(c) <=> ~SizesDiffer(c)
    BY <1>5, SensibleLine, SizesOf
  <2>3. Passed("same-size-different-decodings", c) <=> FilterAnyFailure(c) /\ ~SizesDiffer(c)
    BY DEF Passed, FilterAnyFailure
  <2>. QED  BY <1>2, <2>1, <2>2, <2>3, KeepsIs DEF Lets
<1>6. Judges("same-size-different-decodings", t, n)
  BY <1>5, Zenon DEF Judges
<1>7. (\E l \in 1 .. n : t[l] = "dedupe") <=>
        "same-size-different-decodings" # "same-size-different-decodings"
  BY <1>2, <1>3
<1>8. t = Chain("same-size-different-decodings")
  BY DEF t
<1>. QED  BY <1>1, <1>3, <1>4, <1>6, <1>7, <1>8, PlainShows

LEMMA SizeDiscrepanciesShows == Shows("size-discrepancies") /\ Finishes("size-discrepancies")
<1>. DEFINE t == Chain("size-discrepancies")
<1>1. PICK n \in Nat : n = 5
  OBVIOUS
<1>2. /\ Len(t) = 7 /\ t[1] = "filter-all-failure" /\ t[2] = "filter-ndecoded-same"
      /\ t[3] = "filter-incomparable" /\ t[4] = "dedupe" /\ t[5] = "find-size-discrepancies"
      /\ t[6] = "minimize-input" /\ t[7] = "normalize"
  BY SizeDiscrepanciesChain
<1>. HIDE DEF t
<1>3. /\ Len(t) = n + 2 /\ t[n + 1] = "minimize-input" /\ t[n + 2] = "normalize"
      /\ \A l \in 1 .. n : l = 1 \/ l = 2 \/ l = 3 \/ l = 4 \/ l = 5
      /\ 4 \in 1 .. n
  BY <1>1, <1>2
<1>4. \A l \in 1 .. n : t[l] \notin {"minimize-input", "normalize"}
  BY <1>2, <1>3
<1>5. ASSUME NEW c, LineOK(c), Sensible(c),
             \A k \in 1 .. n : (\A l \in 1 .. k - 1 : Lets(t[l], c)) => ~Raises(t[k], c)
      PROVE  (\A l \in 1 .. n : Lets(t[l], c)) <=> Passed("size-discrepancies", c)
  <2>1. (\A l \in 1 .. n : Lets(t[l], c)) <=> Lets(t[1], c) /\ Lets(t[2], c) /\ Lets(t[3], c)
          /\ Lets(t[4], c) /\ Lets(t[5], c)
    BY <1>1, <1>3
  <2>2. FilterNDecodedSame(c) <=> SizesDiffer(c)
    BY <1>5, SensibleLine, SizesOf
  <2>3. /\ FindSizeDiscrepancies(c) <=> SizeDiscrepancy(c)
        /\ SizeDiscrepancy(c) => FilterIncomparable(c) /\ SizesDiffer(c)
    BY <1>5, SensibleLine, DiscrepanciesOf
  <2>4. FilterAllFailure(c)
    BY <1>5, SensibleLine DEF FilterAllFailure
  <2>5. Passed("size-discrepancies", c) <=> SizeDiscrepancy(c)
    BY DEF Passed
  <2>. QED  BY <1>2, <2>1, <2>2, <2>3, <2>4, <2>5, KeepsIs DEF Lets
<1>6. Judges("size-discrepancies", t, n)
  BY <1>5, Zenon DEF Judges
<1>7. (\E l \in 1 .. n : t[l] = "dedupe") <=> "size-discrepancies" # "same-size-different-decodings"
  BY <1>2, <1>3
<1>8. t = Chain("size-discrepancies")
  BY DEF t
<1>. QED  BY <1>1, <1>3, <1>4, <1>6, <1>7, <1>8, PlainShows

LEMMA DestroyCapstoneShows == Shows("destroy-capstone") /\ Finishes("destroy-capstone")
<1>. DEFINE t == Chain("destroy-capstone")
<1>1. PICK n \in Nat : n = 4
  OBVIOUS
<1>2. /\ Len(t) = 6 /\ t[1] = "filter-all-success" /\ t[2] = "filter-ndecoded-same"
      /\ t[3] = "dedupe" /\ t[4] = "filter-destroy-capstone" /\ t[5] = "minimize-input"
      /\ t[6] = "normalize"
  BY DestroyCapstoneChain
<1>. HIDE DEF t
<1>3. /\ Len(t) = n + 2 /\ t[n + 1] = "minimize-input" /\ t[n + 2] = "normalize"
      /\ \A l \in 1 .. n : l = 1 \/ l = 2 \/ l = 3 \/ l = 4
      /\ 3 \in 1 .. n
  BY <1>1, <1>2
<1>4. \A l \in 1 .. n : t[l] \notin {"minimize-input", "normalize"}
  BY <1>2, <1>3
<1>5. ASSUME NEW c, LineOK(c), Sensible(c),
             \A k \in 1 .. n : (\A l \in 1 .. k - 1 : Lets(t[l], c)) => ~Raises(t[k], c)
      PROVE  (\A l \in 1 .. n : Lets(t[l], c)) <=> Passed("destroy-capstone", c)
  <2>1. (\A l \in 1 .. n : Lets(t[l], c)) <=> Lets(t[1], c) /\ Lets(t[2], c) /\ Lets(t[3], c)
          /\ Lets(t[4], c)
    BY <1>1, <1>3
  <2>2. Lets(t[1], c) /\ Lets(t[2], c) /\ Lets(t[3], c) => ~Raises(t[4], c)
    <3>1. PICK k \in 1 .. n : k = 4
      BY <1>1
    <3>2. \A l \in 1 .. k - 1 : l = 1 \/ l = 2 \/ l = 3
      BY <3>1
    <3>. QED  BY <1>5, <3>1, <3>2
  <2>3. FilterNDecodedSame(c) <=> SizesDiffer(c)
    BY <1>5, SensibleLine, SizesOf
  <2>4. Passed("destroy-capstone", c) <=>
          FilterAllSuccess(c) /\ SizesDiffer(c) /\ Differ(c, Capstone, {Xed, Zydis})
    BY DEF Passed, Disputed, FilterAllSuccess
  <2>5. Raises(t[4], c) <=> Misses(c, Capstone, <<Xed, Zydis>>)
    BY <1>2, RaisesIs
  <2>6. ASSUME ~Misses(c, Capstone, <<Xed, Zydis>>)
        PROVE  FilterDestroyCapstone(c) <=> Differ(c, Capstone, {Xed, Zydis})
    <3>1. PICK others : others = <<Xed, Zydis>>
      OBVIOUS
    <3>2. Len(others) = 2 /\ DOMAIN others = 1 .. 2 /\ others[1] = Xed /\ others[2] = Zydis
      BY <3>1
    <3>3. {others[k] : k \in DOMAIN others} = {Xed, Zydis}
      BY <3>2
    <3>4. Named(c) /\ Len(others) \in Nat /\ DOMAIN others = 1 .. Len(others)
            /\ ~Misses(c, Capstone, others)
      BY <1>5, <2>6, <3>1, <3>2, SensibleLine
    <3>5. Disagree(c, Capstone, others) <=> Differ(c, Capstone, {others[k] : k \in DOMAIN others})
      BY <3>4, DestroyIs
    <3>. QED  BY <3>1, <3>3, <3>5 DEF FilterDestroyCapstone
  <2>7. /\ Lets(t[1], c) <=> FilterAllSuccess(c)
        /\ Lets(t[2], c) <=> FilterNDecodedSame(c)
        /\ Lets(t[3], c)
        /\ Lets(t[4], c) <=> FilterDestroyCapstone(c)
    BY <1>2, KeepsIs DEF Lets
  <2>. QED  BY <2>1, <2>2, <2>3, <2>4, <2>5, <2>6, <2>7
<1>6. Judges("destroy-capstone", t, n)
  BY <1>5, Zenon DEF Judges
<1>7. (\E l \in 1 .. n : t[l] = "dedupe") <=> "destroy-capstone" # "same-size-different-decodings"
  BY <1>2, <1>3
<1>8. t = Chain("destroy-capstone")
  BY DEF t
<1>. QED  BY <1>1, <1>3, <1>4, <1>6, <1>7, <1>8, PlainShows

LEMMA DestroyBddisasmShows == Shows("destroy-bddisasm") /\ Finishes("destroy-bddisasm")
<1>. DEFINE t == Chain("destroy-bddisasm")
<1>1. PICK n \in Nat : n = 4
  OBVIOUS
<1>2. /\ Len(t) = 6 /\ t[1] = "filter-all-success" /\ t[2] = "filter-ndecoded-same"
      /\ t[3] = "dedupe" /\ t[4] = "filter-destroy-bddisasm" /\ t[5] = "minimize-input"
      /\ t[6] = "normalize"
  BY DestroyBddisasmChain
<1>. HIDE DEF t
<1>3. /\ Len(t) = n + 2 /\ t[n + 1] = "minimize-input" /\ t[n + 2] = "normalize"
      /\ \A l \in 1 .. n : l = 1 \/ l = 2 \/ l = 3 \/ l = 4
      /\ 3 \in 1 .. n
  BY <1>1, <1>2
<1>4. \A l \in 1 .. n : t[l] \notin {"minimize-input", "normalize"}
  BY <1>2, <1>3
<1>5. ASSUME NEW c, LineOK(c), Sensible(c),
             \A k \in 1 .. n : (\A l \in 1 .. k - 1 : Lets(t[l], c)) => ~Raises(t[k], c)
      PROVE  (\A l \in 1 .. n : Lets(t[l], c)) <=> Passed("destroy-bddisasm", c)
  <2>1. (\A l \in 1 .. n : Lets(t[l], c)) <=> Lets(t[1], c) /\ Lets(t[2], c) /\ Lets(t[3], c)
          /\ Lets(t[4], c)
    BY <1>1, <1>3
  <2>2. Lets(t[1], c) /\ Lets(t[2], c) /\ Lets(t[3], c) => ~Raises(t[4], c)
    <3>1. PICK k \in 1 .. n : k = 4
      BY <1>1
    <3>2. \A l \in 1 .. k - 1 : l = 1 \/ l = 2 \/ l = 3
      BY <3>1
    <3>. QED  BY <1>5, <3>1, <3>2
  <2>3. FilterNDecodedSame(c) <=> SizesDiffer(c)
    BY <1>5, SensibleLine, SizesOf
  <2>4. Passed("destroy-bddisasm", c) <=>
          FilterAllSuccess(c) /\ SizesDiffer(c) /\ Differ(c, Bddisasm, {Xed, Zydis})
    BY DEF Passed, Disputed, FilterAllSuccess
  <2>5. Raises(t[4], c) <=> Misses(c, Bddisasm, <<Xed, Zydis>>)
    BY <1>2, RaisesIs
  <2>6. ASSUME ~Misses(c, Bddisasm, <<Xed, Zydis>>)
        PROVE  FilterDestroyBddisasm(c) <=> Differ(c, Bddisasm, {Xed, Zydis})
    <3>1. PICK others : others = <<Xed, Zydis>>
      OBVIOUS
    <3>2. Len(others) = 2 /\ DOMAIN others = 1 .. 2 /\ others[1] = Xed /\ others[2] = Zydis
      BY <3>1
    <3>3. {others[k] : k \in DOMAIN others} = {Xed, Zydis}
      BY <3>2
    <3>4. Named(c) /\ Len(others) \in Nat /\ DOMAIN others = 1 .. Len(others)
            /\ ~Misses(c, Bddisasm, others)
      BY <1>5, <2>6, <3>1, <3>2, SensibleLine
    <3>5. Disagree(c, Bddisasm, others) <=> Differ(c, Bddisasm, {others[k] : k \in DOMAIN others})
      BY <3>4, DestroyIs
    <3>. QED  BY <3>1, <3>3, <3>5 DEF FilterDestroyBddisasm
  <2>7. /\ Lets(t[1], c) <=> FilterAllSuccess(c)
        /\ Lets(t[2], c) <=> FilterNDecodedSame(c)
        /\ Lets(t[3], c)
        /\ Lets(t[4], c) <=> FilterDestroyBddisasm(c)
    BY <1>2, KeepsIs DEF Lets
  <2>. QED  BY <2>1, <2>2, <2>3, <2>4, <2>5, <2>6, <2>7
<1>6. Judges("destroy-bddisasm", t, n)
  BY <1>5, Zenon DEF Judges
<1>7. (\E l \in 1 .. n : t[l] = "dedupe") <=> "destroy-bddisasm" # "same-size-different-decodings"
  BY <1>2, <1>3
<1>8. t = Chain("destroy-bddisasm")
  BY DEF t
<1>. QED  BY <1>1, <1>3, <1>4, <1>6, <1>7, <1>8, PlainShows

LEMMA XedOveracceptShows == Shows("xed-overaccept") /\ Finishes("xed-overaccept")
<1>. DEFINE t == Chain("xed-overaccept")
<1>1. PICK n \in Nat : n = 4
  OBVIOUS
<1>2. /\ Len(t) = 6 /\ t[1] = "filter-all-success" /\ t[2] = "filter-ndecoded-same"
      /\ t[3] = "dedupe" /\ t[4] = "filter-xed-find-overaccept" /\ t[5] = "minimize-input"
      /\ t[6] = "normalize"
  BY XedOveracceptChain
<1>. HIDE DEF t
<1>3. /\ Len(t) = n + 2 /\ t[n + 1] = "minimize-input" /\ t[n + 2] = "normalize"
      /\ \A l \in 1 .. n : l = 1 \/ l = 2 \/ l = 3 \/ l = 4
      /\ 3 \in 1 .. n
  BY <1>1, <1>2
<1>4. \A l \in 1 .. n : t[l] \notin {"minimize-input", "normalize"}
  BY <1>2, <1>3
<1>5. ASSUME NEW c, LineOK(c), Sensible(c),
             \A k \in 1 .. n : (\A l \in 1 .. k - 1 : Lets(t[l], c)) => ~Raises(t[k], c)
      PROVE  (\A l \in 1 .. n : Lets(t[l], c)) <=> Passed("xed-overaccept", c)
  <2>1. (\A l \in 1 .. n : Lets(t[l], c)) <=> Lets(t[1], c) /\ Lets(t[2], c) /\ Lets(t[3], c)
          /\ Lets(t[4], c)
    BY <1>1, <1>3
  <2>2. Lets(t[1], c) /\ Lets(t[2], c) /\ Lets(t[3], c) => ~Raises(t[4], c)
    <3>1. PICK k \in 1 .. n : k = 4
      BY <1>1
    <3>2. \A l \in 1 .. k - 1 : l = 1 \/ l = 2 \/ l = 3
      BY <3>1
    <3>. QED  BY <1>5, <3>1, <3>2
  <2>3. /\ Lets(t[1], c) <=> FilterAllSuccess(c)
        /\ Lets(t[2], c) <=> SizesDiffer(c)
        /\ Lets(t[3], c)
        /\ Lets(t[4], c) <=> FilterXedFindOveraccept(c)
    BY <1>2, <1>5, KeepsIs, SensibleLine, SizesOf DEF Lets
  <2>4. Raises(t[4], c) <=> (Has(c, Xed) => Success(OutputOf(c, Xed)) /\ MissesOthers(c))
    BY <1>2, RaisesIs
  <2>5. Passed("xed-overaccept", c) <=> Says(c, Xed, TRUE) /\ TwoOfThree(c, FALSE)
    BY DEF Passed
  <2>6. ASSUME Says(c, Xed, TRUE), TwoOfThree(c, FALSE)
        PROVE  FilterAllSuccess(c) /\ SizesDiffer(c)
    BY <1>5, <2>6, OverSays
  <2>7. ASSUME ~Raises(t[4], c)
        PROVE  FilterXedFindOveraccept(c) <=> Says(c, Xed, TRUE) /\ TwoOfThree(c, FALSE)
    <3>1. Has(c, Xed) /\ (Success(OutputOf(c, Xed)) => ~MissesOthers(c)) /\ Named(c)
      BY <1>5, <2>4, <2>7, SensibleLine
    <3>2. Says(c, Xed, TRUE) <=> Success(OutputOf(c, Xed))
      BY <3>1, SaysIs
    <3>3. ~MissesOthers(c) => (FailureByConsensus(c, {Bddisasm, Zydis, Iced}) <=>
            TwoOfThree(c, FALSE))
      BY <3>1, ConsensusIs
    <3>. QED  BY <3>1, <3>2, <3>3 DEF FilterXedFindOveraccept
  <2>. QED  BY <2>1, <2>2, <2>3, <2>5, <2>6, <2>7
<1>6. Judges("xed-overaccept", t, n)
  BY <1>5, Zenon DEF Judges
<1>7. (\E l \in 1 .. n : t[l] = "dedupe") <=> "xed-overaccept" # "same-size-different-decodings"
  BY <1>2, <1>3
<1>8. t = Chain("xed-overaccept")
  BY DEF t
<1>. QED  BY <1>1, <1>3, <1>4, <1>6, <1>7, <1>8, PlainShows

LEMMA XedUnderacceptShows == Shows("xed-underaccept") /\ Finishes("xed-underaccept")
<1>. DEFINE t == Chain("xed-underaccept")
<1>1. PICK n \in Nat : n = 5
  OBVIOUS
<1>2. /\ Len(t) = 7 /\ t[1] = "filter-all-success" /\ t[2] = "filter-ndecoded-same"
      /\ t[3] = "dedupe" /\ t[4] = "filter-bddisasm-salc"
      /\ t[5] = "filter-xed-find-underaccept" /\ t[6] = "minimize-input"
      /\ t[7] = "normalize"
  BY XedUnderacceptChain
<1>. HIDE DEF t
<1>3. /\ Len(t) = n + 2 /\ t[n + 1] = "minimize-input" /\ t[n + 2] = "normalize"
      /\ \A l \in 1 .. n : l = 1 \/ l = 2 \/ l = 3 \/ l = 4 \/ l = 5
      /\ 3 \in 1 .. n
  BY <1>1, <1>2
<1>4. \A l \in 1 .. n : t[l] \notin {"minimize-input", "normalize"}
  BY <1>2, <1>3
<1>5. ASSUME NEW c, LineOK(c), Sensible(c),
             \A k \in 1 .. n : (\A l \in 1 .. k - 1 : Lets(t[l], c)) => ~Raises(t[k], c)
      PROVE  (\A l \in 1 .. n : Lets(t[l], c)) <=> Passed("xed-underaccept", c)
  <2>1. (\A l \in 1 .. n : Lets(t[l], c)) <=> Lets(t[1], c) /\ Lets(t[2], c) /\ Lets(t[3], c)
          /\ Lets(t[4], c) /\ Lets(t[5], c)
    BY <1>1, <1>3
  <2>2. Lets(t[1], c) /\ Lets(t[2], c) /\ Lets(t[3], c) => ~Raises(t[4], c)
    <3>1. PICK k \in 1 .. n : k = 4
      BY <1>1
    <3>2. \A l \in 1 .. k - 1 : l = 1 \/ l = 2 \/ l = 3
      BY <3>1
    <3>. QED  BY <1>5, <3>1, <3>2
  <2>3. Lets(t[1], c) /\ Lets(t[2], c) /\ Lets(t[3], c) /\ Lets(t[4], c) => ~Raises(t[5], c)
    <3>1. PICK k \in 1 .. n : k = 5
      BY <1>1
    <3>2. \A l \in 1 .. k - 1 : l = 1 \/ l = 2 \/ l = 3 \/ l = 4
      BY <3>1
    <3>. QED  BY <1>5, <3>1, <3>2
  <2>4. /\ Lets(t[1], c) <=> FilterAllSuccess(c)
        /\ Lets(t[2], c) <=> SizesDiffer(c)
        /\ Lets(t[3], c)
        /\ Lets(t[4], c) <=> FilterBddisasmSalc(c)
        /\ Lets(t[5], c) <=> FilterXedFindUnderaccept(c)
    BY <1>2, <1>5, KeepsIs, SensibleLine, SizesOf DEF Lets
  <2>5. Raises(t[5], c) <=> (Has(c, Xed) => ~Success(OutputOf(c, Xed)) /\ MissesOthers(c))
    BY <1>2, RaisesIs
  <2>6. Passed("xed-underaccept", c) <=>
          Says(c, Xed, FALSE) /\ TwoOfThree(c, TRUE) /\ FilterBddisasmSalc(c)
    BY DEF Passed, FilterBddisasmSalc
  <2>7. ASSUME Says(c, Xed, FALSE), TwoOfThree(c, TRUE)
        PROVE  FilterAllSuccess(c) /\ SizesDiffer(c)
    BY <1>5, <2>7, UnderSays
  <2>8. ASSUME ~Raises(t[5], c)
        PROVE  FilterXedFindUnderaccept(c) <=> Says(c, Xed, FALSE) /\ TwoOfThree(c, TRUE)
    <3>1. Has(c, Xed) /\ (~Success(OutputOf(c, Xed)) => ~MissesOthers(c)) /\ Named(c)
      BY <1>5, <2>5, <2>8, SensibleLine
    <3>2. Says(c, Xed, FALSE) <=> ~Success(OutputOf(c, Xed))
      BY <3>1, SaysIs
    <3>3. ~MissesOthers(c) => (SuccessByConsensus(c, {Bddisasm, Zydis, Iced}) <=>
            TwoOfThree(c, TRUE))
      BY <3>1, ConsensusIs
    <3>. QED  BY <3>1, <3>2, <3>3 DEF FilterXedFindUnderaccept
  <2>. QED  BY <2>1, <2>3, <2>4, <2>6, <2>7, <2>8
<1>6. Judges("xed-underaccept", t, n)
  BY <1>5, Zenon DEF Judges
<1>7. (\E l \in 1 .. n : t[l] = "dedupe") <=> "xed-underaccept" # "same-size-different-decodings"
  BY <1>2, <1>3
<1>8. t = Chain("xed-underaccept")
  BY DEF t
<1>. QED  BY <1>1, <1>3, <1>4, <1>6, <1>7, <1>8, PlainShows

LEMMA DedupeShows == Shows("dedupe") /\ Finishes("dedupe")
<1>. DEFINE t == Chain("dedupe")
<1>1. Len(t) = 1 /\ t[1] = "dedupe"
  BY DedupeChain
<1>. HIDE DEF t
<1>2. \A l \in 1 .. 1 : t[l] = "dedupe"
  BY <1>1
<1>3. \A c : Clear(t, 1, c)
  BY <1>2 DEF Clear
<1>4. ~Among(t, 1, "minimize-input") /\ ~Among(t, 1, "normalize") /\ Among(t, 1, "dedupe")
  BY <1>1, <1>2 DEF Among
<1>5. \A c : Passed("dedupe", c)
  BY DEF Passed
<1>6. Shows("dedupe")
  BY <1>1, <1>3, <1>5, Zenon DEF Shows, t
<1>7. Finishes("dedupe")
  BY <1>1, <1>4 DEF Finishes, Changed, t
<1>. QED  BY <1>6, <1>7

\* What the passes look at that run behind normalize.
LEMMA NormalizedLine ==
  ASSUME NEW c, LineOK(c), Sensible(c), NEW d, d = Normalize(c)
  PROVE  /\ Named(d) /\ MinimizeInput(d)
         /\ \A so : Has(d, so) <=> Has(c, so)
         /\ \A so : Has(c, so) => OutputOf(d, so).result = Normalized(OutputOf(c, so).result)
         /\ \A so, others : Differ(d, so, others) <=> Differ(c, so, others)
<1>1. /\ DOMAIN d.outputs = DOMAIN c.outputs
      /\ \A w \in DOMAIN c.outputs :
           /\ d.outputs[w].so = c.outputs[w].so
           /\ d.outputs[w].status = c.outputs[w].status
           /\ d.outputs[w].result = Normalized(c.outputs[w].result)
  BY NormalizeParts
<1>2. Named(c) /\ MinimizeInput(c)
  BY SensibleLine
<1>3. MinimizeInput(d)
  BY <1>2, NormalizeNDecoded DEF MinimizeInput, MaxNDecoded
<1>4. Len(d.outputs) = Len(c.outputs)
  <2>. DEFINE f == [w \in DOMAIN c.outputs |-> [c.outputs[w] EXCEPT
             !.result = Normalized(c.outputs[w].result), !.len =
               Len(Normalized(c.outputs[w].result))]]
              n == Len(c.outputs)
              T == {f[w] : w \in 1 .. n}
  <2>1. d.outputs = f
    BY DEF Normalize, LineOK
  <2>2. n \in Nat /\ DOMAIN c.outputs = 1 .. n
    BY <1>2 DEF Named
  <2>3. f = [w \in 1 .. n |-> f[w]]
    BY <2>2
  <2>. HIDE DEF f, n
  <2>4. f \in [1 .. n -> T]
    BY <2>3
  <2>. HIDE DEF T
  <2>5. f \in Seq(T) /\ DOMAIN f = 1 .. n
    BY <2>2, <2>4
  <2>6. Len(f) = n
    BY <2>2, <2>5, LenProperties
  <2>. QED  BY <2>1, <2>6 DEF n
<1>5. Named(d)
  BY <1>1, <1>2, <1>4 DEF Named
<1>6. \A so : Has(d, so) <=> Has(c, so)
  BY <1>1 DEF Has
<1>7. ASSUME NEW so, Has(c, so) PROVE OutputOf(d, so).result = Normalized(OutputOf(c, so).result)
  <2>1. PICK w \in DOMAIN c.outputs : c.outputs[w].so = so
    BY <1>7 DEF Has
  <2>2. OutputOf(c, so) = c.outputs[w]
    BY <1>2, <2>1, OutputIs
  <2>3. OutputOf(d, so) = d.outputs[w]
    BY <1>1, <1>5, <2>1, OutputIs
  <2>. QED  BY <1>1, <2>1, <2>2, <2>3
<1>8. ASSUME NEW so, NEW others PROVE Differ(d, so, others) <=> Differ(c, so, others)
  <2>1. Differ(d, so, others) <=> \E v, w \in DOMAIN d.outputs :
          d.outputs[v].so = so /\ d.outputs[w].so \in others
            /\ d.outputs[v].status # d.outputs[w].status
    BY DEF Differ, Outputs
  <2>2. Differ(c, so, others) <=> \E v, w \in DOMAIN c.outputs :
          c.outputs[v].so = so /\ c.outputs[w].so \in others
            /\ c.outputs[v].status # c.outputs[w].status
    BY DEF Differ, Outputs
  <2>. QED  BY <1>1, <2>1, <2>2
<1>. QED  BY <1>3, <1>5, <1>6, <1>7, <1>8

LEMMA DestroyGhidraShows == Shows("destroy-ghidra") /\ Finishes("destroy-ghidra")
<1>. DEFINE t == Chain("destroy-ghidra")
<1>1. /\ Len(t) = 7 /\ t[1] = "filter-all-success" /\ t[2] = "filter-ndecoded-same"
      /\ t[3] = "dedupe" /\ t[4] = "normalize" /\ t[5] = "filter-ghidra-lock"
      /\ t[6] = "filter-destroy-ghidra" /\ t[7] = "minimize-input"
  BY DestroyGhidraChain
<1>. HIDE DEF t
<1>2. /\ \A l \in 1 .. 3 : l = 1 \/ l = 2 \/ l = 3
      /\ \A l \in 1 .. 4 : l = 1 \/ l = 2 \/ l = 3 \/ l = 4
      /\ \A l \in 1 .. 5 : l = 1 \/ l = 2 \/ l = 3 \/ l = 4 \/ l = 5
      /\ \A l \in 1 .. 6 : l = 1 \/ l = 2 \/ l = 3 \/ l = 4 \/ l = 5 \/ l = 6
      /\ \A l \in 1 .. 7 : l = 1 \/ l = 2 \/ l = 3 \/ l = 4 \/ l = 5 \/ l = 6 \/ l = 7
  OBVIOUS
<1>3. \A l \in 1 .. 3 : t[l] \notin {"minimize-input", "normalize"}
  BY <1>1, <1>2
<1>4. \A c : Changed(t, 3, c) = c /\ (Clear(t, 3, c) <=> Lets(t[1], c) /\ Lets(t[2], c)
        /\ Lets(t[3], c))
  <2>1. PICK n \in Nat : n = 3
    OBVIOUS
  <2>2. \A l \in 1 .. n : t[l] \notin {"minimize-input", "normalize"}
    BY <1>3, <2>1
  <2>3. PICK a \in 1 .. n + 1 : a = 4
    BY <2>1
  <2>4. n \in 0 .. n /\ a - 1 = 3
    BY <2>1, <2>3
  <2>5. \A c : /\ \A k \in 1 .. n + 1 : Changed(t, k - 1, c) = c
               /\ \A k \in 0 .. n : Clear(t, k, c) <=> \A l \in 1 .. k : Lets(t[l], c)
    BY <2>2, ClearPlain
  <2>6. \A c : Changed(t, 3, c) = c
    BY <2>3, <2>4, <2>5
  <2>7. \A c : Clear(t, 3, c) <=> \A l \in 1 .. 3 : Lets(t[l], c)
    BY <2>1, <2>4, <2>5
  <2>. QED  BY <1>2, <2>6, <2>7
<1>5. /\ ~Among(t, 4, "minimize-input") /\ ~Among(t, 5, "minimize-input")
      /\ ~Among(t, 6, "minimize-input") /\ Among(t, 7, "minimize-input")
  BY <1>1, <1>2 DEF Among
<1>6. Among(t, 4, "normalize") /\ Among(t, 5, "normalize") /\ Among(t, 6, "normalize")
      /\ Among(t, 7, "normalize") /\ Among(t, 7, "dedupe")
  BY <1>1, <1>2 DEF Among
<1>7. \A c : /\ Changed(t, 4, c) = Normalize(c) /\ Changed(t, 5, c) = Normalize(c)
             /\ Changed(t, 6, c) = Normalize(c) /\ Changed(t, 7, c) = Normalize(Minimize(c))
  BY <1>5, <1>6 DEF Changed
<1>8. ASSUME NEW c, LineOK(c), Sensible(c),
             \A k \in 1 .. 7 : Clear(t, k - 1, c) => ~Raises(t[k], Changed(t, k - 1, c))
      PROVE  Clear(t, 7, c) <=> Passed("destroy-ghidra", c)
  <2>1. PICK d : d = Normalize(c)
    OBVIOUS
  <2>2. /\ Clear(t, 4, c) <=> Clear(t, 3, c)
        /\ Clear(t, 5, c) <=> Clear(t, 4, c) /\ FilterGhidraLock(d)
        /\ Clear(t, 6, c) <=> Clear(t, 5, c) /\ FilterDestroyGhidra(d)
        /\ Clear(t, 7, c) <=> Clear(t, 6, c) /\ MinimizeInput(d)
    <3>1. /\ Clear(t, 4, c) <=> Clear(t, 3, c)
               /\ (t[4] = "dedupe" \/ Keeps(t[4], Changed(t, 3, c), {}))
          /\ Clear(t, 5, c) <=> Clear(t, 4, c)
               /\ (t[5] = "dedupe" \/ Keeps(t[5], Changed(t, 4, c), {}))
          /\ Clear(t, 6, c) <=> Clear(t, 5, c)
               /\ (t[6] = "dedupe" \/ Keeps(t[6], Changed(t, 5, c), {}))
          /\ Clear(t, 7, c) <=> Clear(t, 6, c)
               /\ (t[7] = "dedupe" \/ Keeps(t[7], Changed(t, 6, c), {}))
      <4>1. 4 - 1 = 3 /\ 5 - 1 = 4 /\ 6 - 1 = 5 /\ 7 - 1 = 6
        OBVIOUS
      <4>. QED  BY <4>1, ClearStep
    <3>. QED  BY <1>1, <1>7, <2>1, <3>1, KeepsIs
  <2>3. /\ Named(d) /\ MinimizeInput(d)
        /\ \A so : Has(d, so) <=> Has(c, so)
        /\ \A so : Has(c, so) => OutputOf(d, so).result = Normalized(OutputOf(c, so).result)
        /\ \A so, others : Differ(d, so, others) <=> Differ(c, so, others)
    BY <1>8, <2>1, NormalizedLine
  <2>4. Clear(t, 4, c) => ~Raises(t[5], d)
    <3>1. PICK k \in 1 .. 7 : k = 5
      OBVIOUS
    <3>2. k - 1 = 4
      BY <3>1
    <3>. QED  BY <1>7, <1>8, <2>1, <3>1, <3>2
  <2>5. Clear(t, 5, c) => ~Raises(t[6], d)
    <3>1. PICK k \in 1 .. 7 : k = 6
      OBVIOUS
    <3>2. k - 1 = 5
      BY <3>1
    <3>. QED  BY <1>7, <1>8, <2>1, <3>1, <3>2
  <2>6. Clear(t, 4, c) => Has(c, Ghidra)
    BY <1>1, <2>3, <2>4, RaisesIs
  <2>7. ASSUME Has(c, Ghidra)
        PROVE  FilterGhidraLock(d) <=> Normalized(OutputOf(c, Ghidra).result) # LOCK
    BY <2>3, <2>7 DEF FilterGhidraLock
  <2>8. Clear(t, 5, c) => ~Misses(d, Ghidra, <<Xed, Zydis, Iced>>)
    BY <1>1, <2>5, RaisesIs
  <2>9. ASSUME ~Misses(d, Ghidra, <<Xed, Zydis, Iced>>)
        PROVE  FilterDestroyGhidra(d) <=> Differ(c, Ghidra, {Xed, Zydis, Iced})
    <3>1. PICK others : others = <<Xed, Zydis, Iced>>
      OBVIOUS
    <3>2. Len(others) = 3 /\ DOMAIN others = 1 .. 3 /\ others[1] = Xed /\ others[2] = Zydis
            /\ others[3] = Iced
      BY <3>1
    <3>3. {others[k] : k \in DOMAIN others} = {Xed, Zydis, Iced}
      BY <3>2
    <3>4. Named(d) /\ Len(others) \in Nat /\ DOMAIN others = 1 .. Len(others)
            /\ ~Misses(d, Ghidra, others)
      BY <2>3, <2>9, <3>1, <3>2
    <3>5. Disagree(d, Ghidra, others) <=> Differ(d, Ghidra, {others[k] : k \in DOMAIN others})
      BY <3>4, DestroyIs
    <3>. QED  BY <2>3, <3>1, <3>3, <3>5 DEF FilterDestroyGhidra
  <2>10. Clear(t, 3, c) <=> Disputed(c)
    <3>1. Lets(t[1], c) <=> FilterAllSuccess(c)
      BY <1>1, KeepsIs DEF Lets
    <3>2. Lets(t[2], c) <=> SizesDiffer(c)
      BY <1>1, <1>8, KeepsIs, SensibleLine, SizesOf DEF Lets
    <3>3. Lets(t[3], c)
      BY <1>1 DEF Lets
    <3>. QED  BY <1>4, <3>1, <3>2, <3>3 DEF Disputed, FilterAllSuccess
  <2>11. Passed("destroy-ghidra", c) <=>
           Disputed(c) /\ Differ(c, Ghidra, {Xed, Zydis, Iced})
             /\ Normalized(OutputOf(c, Ghidra).result) # LOCK
    BY DEF Passed
  <2>. QED  BY <2>2, <2>3, <2>6, <2>7, <2>8, <2>9, <2>10, <2>11
<1>9. Shows("destroy-ghidra")
  BY <1>1, <1>8, Zenon DEF Shows, t
<1>10. Finishes("destroy-ghidra")
  BY <1>1, <1>6, <1>7 DEF Finishes, t
<1>. QED  BY <1>9, <1>10

LEMMA ProfilesShow == ASSUME NEW name \in ProfileNames PROVE Shows(name) /\ Finishes(name)
BY DefaultShows, DedupeShows, SameSizeShows, SizeDiscrepanciesShows, StatusDiscrepanciesShows,
   DestroyCapstoneShows, DestroyBddisasmShows, DestroyGhidraShows, XedOveracceptShows,
   XedUnderacceptShows DEF ProfileNames

(***************************************************************************)
(* What the passes let through and what the profiles are for               *)
(***************************************************************************)

\* A decoder that is alone right or wrong is so against xed, and the two did not
\* use as many bytes.
LEMMA AloneDisputes ==
  ASSUME NEW c, LineOK(c), Sensible(c), NEW so \in {Capstone, Bddisasm, Ghidra}, Alone(c, so),
         Has(c, Xed), NEW others, Xed \in others
  PROVE  Disputed(c) /\ Differ(c, so, others)
<1>1. Named(c)
  BY SensibleLine
<1>2. PICK v \in DOMAIN c.outputs : c.outputs[v].so = so
  BY DEF Alone, Has
<1>3. PICK w \in DOMAIN c.outputs : c.outputs[w].so = Xed
  BY DEF Has
<1>4. OutputOf(c, so) = c.outputs[v]
  BY <1>1, <1>2, OutputIs
<1>5. so # Xed
  BY NamesDiffer
<1>6. Success(c.outputs[w]) # Success(c.outputs[v])
  BY <1>3, <1>4, <1>5 DEF Alone, Outputs
<1>7. \A x \in {v, w} : IF Success(c.outputs[x]) THEN c.outputs[x].ndecoded # 0
                        ELSE c.outputs[x].ndecoded = 0
  BY <1>2, <1>3 DEF Sensible
<1>8. c.outputs[v].ndecoded # c.outputs[w].ndecoded /\ (~Success(c.outputs[v]) \/ ~Success(c.outputs[w]))
  BY <1>6, <1>7 DEF Success
<1>9. c.outputs[v].status # c.outputs[w].status
  BY <1>6 DEF Success
<1>. QED  BY <1>2, <1>3, <1>8, <1>9 DEF Disputed, SizesDiffer, Differ, Outputs

\* What a profile is there to find passes, and what passes it may show.
LEMMA WantedPasses ==
  ASSUME NEW name \in ProfileNames, NEW c, LineOK(c), Sensible(c)
  PROVE  /\ Wanted(name, c) => Passed(name, c)
         /\ Passed(name, c) => ~Unwanted(name, c)
<1>1. CASE name \in {"default", "dedupe", "size-discrepancies", "status-discrepancies",
                     "xed-overaccept", "xed-underaccept"}
  <2>1. Passed(name, c) <=> Wanted(name, c)
    BY <1>1 DEF Passed, Wanted
  <2>2. Unwanted(name, c) <=> ~Wanted(name, c)
    BY <1>1 DEF Unwanted
  <2>. QED  BY <2>1, <2>2
<1>2. CASE name = "same-size-different-decodings"
  <2>1. Passed(name, c) <=> (\A o \in Outputs(c) : ~Failure(o)) /\ ~SizesDiffer(c)
    BY <1>2 DEF Passed
  <2>2. Unwanted(name, c) <=> (\E o \in Outputs(c) : Failure(o)) \/ SizesDiffer(c)
    BY <1>2 DEF Unwanted
  <2>3. Wanted(name, c) => (\A o \in Outputs(c) : Success(o)) /\ ~SizesDiffer(c)
    BY <1>2 DEF Wanted
  <2>4. \A o : Success(o) => ~Failure(o)
    BY DEF Success, Failure, S_SUCCESS, S_FAILURE
  <2>. QED  BY <2>1, <2>2, <2>3, <2>4
<1>3. CASE name = "destroy-capstone"
  <2>1. Passed(name, c) <=> Disputed(c) /\ Differ(c, Capstone, {Xed, Zydis})
    BY <1>3 DEF Passed
  <2>2. Unwanted(name, c) <=> ~Differ(c, Capstone, {Xed, Zydis})
    BY <1>3 DEF Unwanted
  <2>3. Wanted(name, c) => Has(c, Xed) /\ Alone(c, Capstone)
    BY <1>3 DEF Wanted, Lacks, LooksAt
  <2>. QED  BY <2>1, <2>2, <2>3, AloneDisputes
<1>4. CASE name = "destroy-bddisasm"
  <2>1. Passed(name, c) <=> Disputed(c) /\ Differ(c, Bddisasm, {Xed, Zydis})
    BY <1>4 DEF Passed
  <2>2. Unwanted(name, c) <=> ~Differ(c, Bddisasm, {Xed, Zydis})
    BY <1>4 DEF Unwanted
  <2>3. Wanted(name, c) => Has(c, Xed) /\ Alone(c, Bddisasm)
    BY <1>4 DEF Wanted, Lacks, LooksAt
  <2>. QED  BY <2>1, <2>2, <2>3, AloneDisputes
<1>5. CASE name = "destroy-ghidra"
  <2>1. Passed(name, c) <=> Disputed(c) /\ Differ(c, Ghidra, {Xed, Zydis, Iced}) /\ ~GhidraLocked(c)
    BY <1>5 DEF Passed, GhidraLocked
  <2>2. Unwanted(name, c) <=> ~Differ(c, Ghidra, {Xed, Zydis, Iced}) \/ GhidraLocked(c)
    BY <1>5 DEF Unwanted
  <2>3. Wanted(name, c) => Has(c, Xed) /\ Alone(c, Ghidra) /\ ~GhidraLocked(c)
    BY <1>5 DEF Wanted, Lacks, LooksAt
  <2>. QED  BY <2>1, <2>2, <2>3, AloneDisputes
<1>. QED  BY <1>1, <1>2, <1>3, <1>4, <1>5 DEF ProfileNames

\* The decoders without which a pass may fail.
NeededBy(pass) ==
  CASE pass = "filter-bddisasm-salc"    -> {Bddisasm}
    [] pass = "filter-ghidra-lock"      -> {Ghidra}
    [] pass = "filter-destroy-bddisasm" -> {Bddisasm, Xed, Zydis}
    [] pass = "filter-destroy-capstone" -> {Capstone, Xed, Zydis}
    [] pass = "filter-destroy-ghidra"   -> {Ghidra, Xed, Zydis, Iced}
    [] pass \in {"filter-xed-find-overaccept", "filter-xed-find-underaccept"} ->
         {Xed, Bddisasm, Zydis, Iced}
    [] OTHER -> {}

\* Of places from 1 on the least is one of them.
LEMMA MinOfPlaces ==
  ASSUME NEW n \in Nat, NEW S, S \subseteq 1 .. n, S # {}
  PROVE  Min(S) \in S
<1>1. PICK l \in 1 .. n : l \in S
  OBVIOUS
<1>2. PICK j \in 1 .. n : j \in S /\ \A x \in 1 .. j - 1 : x \notin S
  BY <1>1, LeastOf
<1>3. \A y \in S : j <= y
  <2>1. ASSUME NEW y \in S PROVE j <= y
    <3>1. y \in 1 .. n /\ y \notin 1 .. j - 1
      BY <1>2, <2>1
    <3>. QED  BY <3>1
  <2>. QED  BY <2>1
<1>4. \E x \in S : \A y \in S : x <= y
  BY <1>2, <1>3
<1>. QED  BY <1>4 DEF Min

LEMMA MissesLacks ==
  ASSUME NEW d, NEW so, NEW others, Len(others) \in Nat, DOMAIN others = 1 .. Len(others),
         Misses(d, so, others)
  PROVE  ~Has(d, so) \/ \E k \in DOMAIN others : ~Has(d, others[k])
<1>1. CASE Has(d, so)
  <2>1. Odd(d, so, others) # {} /\ ~Has(d, others[Min(Odd(d, so, others))])
    BY <1>1 DEF Misses, Disagree
  <2>2. Odd(d, so, others) \subseteq 1 .. Len(others)
    BY DEF Odd
  <2>3. Min(Odd(d, so, others)) \in Odd(d, so, others)
    BY <2>1, <2>2, MinOfPlaces
  <2>. QED  BY <2>1, <2>2, <2>3
<1>. QED  BY <1>1

LEMMA RaisesLacks ==
  ASSUME NEW pass, NEW d, Raises(pass, d)
  PROVE  \E so \in NeededBy(pass) : ~Has(d, so)
<1>1. CASE pass = "filter-bddisasm-salc"
  BY <1>1, RaisesIs DEF NeededBy
<1>2. CASE pass = "filter-ghidra-lock"
  BY <1>2, RaisesIs DEF NeededBy
<1>3. CASE pass = "filter-destroy-bddisasm"
  <2>1. PICK others : others = <<Xed, Zydis>>
    OBVIOUS
  <2>2. Len(others) = 2 /\ DOMAIN others = 1 .. 2 /\ others[1] = Xed /\ others[2] = Zydis
    BY <2>1
  <2>3. Misses(d, Bddisasm, others)
    BY <1>3, <2>1, RaisesIs
  <2>4. ~Has(d, Bddisasm) \/ \E k \in DOMAIN others : ~Has(d, others[k])
    BY <2>2, <2>3, MissesLacks
  <2>5. NeededBy(pass) = {Bddisasm, Xed, Zydis}
    BY <1>3 DEF NeededBy
  <2>. QED  BY <2>2, <2>4, <2>5
<1>4. CASE pass = "filter-destroy-capstone"
  <2>1. PICK others : others = <<Xed, Zydis>>
    OBVIOUS
  <2>2. Len(others) = 2 /\ DOMAIN others = 1 .. 2 /\ others[1] = Xed /\ others[2] = Zydis
    BY <2>1
  <2>3. Misses(d, Capstone, others)
    BY <1>4, <2>1, RaisesIs
  <2>4. ~Has(d, Capstone) \/ \E k \in DOMAIN others : ~Has(d, others[k])
    BY <2>2, <2>3, MissesLacks
  <2>5. NeededBy(pass) = {Capstone, Xed, Zydis}
    BY <1>4 DEF NeededBy
  <2>. QED  BY <2>2, <2>4, <2>5
<1>5. CASE pass = "filter-destroy-ghidra"
  <2>1. PICK others : others = <<Xed, Zydis, Iced>>
    OBVIOUS
  <2>2. Len(others) = 3 /\ DOMAIN others = 1 .. 3 /\ others[1] = Xed /\ others[2] = Zydis
          /\ others[3] = Iced
    BY <2>1
  <2>3. Misses(d, Ghidra, others)
    BY <1>5, <2>1, RaisesIs
  <2>4. ~Has(d, Ghidra) \/ \E k \in DOMAIN others : ~Has(d, others[k])
    BY <2>2, <2>3, MissesLacks
  <2>5. NeededBy(pass) = {Ghidra, Xed, Zydis, Iced}
    BY <1>5 DEF NeededBy
  <2>. QED  BY <2>2, <2>4, <2>5
<1>6. CASE pass \in {"filter-xed-find-overaccept", "filter-xed-find-underaccept"}
  <2>1. ~Has(d, Xed) \/ \E so \in {Bddisasm, Zydis, Iced} : ~Has(d, so)
    BY <1>6, RaisesIs DEF MissesOthers
  <2>2. NeededBy(pass) = {Xed, Bddisasm, Zydis, Iced}
    BY <1>6 DEF NeededBy
  <2>. QED  BY <2>1, <2>2
<1>7. CASE pass \notin {"filter-bddisasm-salc", "filter-ghidra-lock", "filter-destroy-bddisasm",
                        "filter-destroy-capstone", "filter-destroy-ghidra",
                        "filter-xed-find-overaccept", "filter-xed-find-underaccept"}
  BY <1>7 DEF Raises
<1>. QED  BY <1>1, <1>2, <1>3, <1>4, <1>5, <1>6, <1>7

\* A profile is about all decoders its passes need.
LEMMA NeedsLookedAt ==
  ASSUME NEW name \in ProfileNames, NEW k \in 1 .. Len(Chain(name))
  PROVE  NeededBy(Chain(name)[k]) \subseteq LooksAt(name)
<1>. DEFINE t == Chain(name)
<1>1. \A pass \in {"filter-all-failure", "filter-all-success", "filter-any-failure",
                   "filter-ndecoded-same", "filter-ndecoded-different", "filter-incomparable",
                   "find-size-discrepancies", "dedupe", "minimize-input", "normalize"} :
        NeededBy(pass) = {}
  BY DEF NeededBy
<1>2. CASE name \in {"default", "dedupe", "same-size-different-decodings", "size-discrepancies",
                     "status-discrepancies"}
  <2>1. t[k] \in {"filter-all-failure", "filter-all-success", "filter-any-failure",
                  "filter-ndecoded-same", "filter-ndecoded-different", "filter-incomparable",
                  "find-size-discrepancies", "dedupe", "minimize-input", "normalize"}
    <3>1. CASE name = "default"
      BY <3>1, DefaultChain
    <3>2. CASE name = "dedupe"
      BY <3>2, DedupeChain
    <3>3. CASE name = "same-size-different-decodings"
      BY <3>3, SameSizeChain
    <3>4. CASE name = "size-discrepancies"
      BY <3>4, SizeDiscrepanciesChain
    <3>5. CASE name = "status-discrepancies"
      BY <3>5, StatusDiscrepanciesChain
    <3>. QED  BY <1>2, <3>1, <3>2, <3>3, <3>4, <3>5
  <2>. QED  BY <1>1, <2>1
<1>3. CASE name = "destroy-capstone"
  <2>1. t[k] \in {"filter-all-success", "filter-ndecoded-same", "dedupe", "filter-destroy-capstone",
                  "minimize-input", "normalize"}
    BY <1>3, DestroyCapstoneChain
  <2>2. NeededBy("filter-destroy-capstone") = LooksAt(name)
    BY <1>3 DEF NeededBy, LooksAt
  <2>. QED  BY <1>1, <2>1, <2>2
<1>4. CASE name = "destroy-bddisasm"
  <2>1. t[k] \in {"filter-all-success", "filter-ndecoded-same", "dedupe", "filter-destroy-bddisasm",
                  "minimize-input", "normalize"}
    BY <1>4, DestroyBddisasmChain
  <2>2. NeededBy("filter-destroy-bddisasm") = LooksAt(name)
    BY <1>4 DEF NeededBy, LooksAt
  <2>. QED  BY <1>1, <2>1, <2>2
<1>5. CASE name = "destroy-ghidra"
  <2>1. t[k] \in {"filter-all-success", "filter-ndecoded-same", "dedupe", "normalize",
                  "filter-ghidra-lock", "filter-destroy-ghidra", "minimize-input"}
    BY <1>5, DestroyGhidraChain
  <2>2. NeededBy("filter-destroy-ghidra") = LooksAt(name)
        /\ NeededBy("filter-ghidra-lock") \subseteq LooksAt(name)
    BY <1>5 DEF NeededBy, LooksAt
  <2>. QED  BY <1>1, <2>1, <2>2
<1>6. CASE name = "xed-overaccept"
  <2>1. t[k] \in {"filter-all-success", "filter-ndecoded-same", "dedupe",
                  "filter-xed-find-overaccept", "minimize-input", "normalize"}
    BY <1>6, XedOveracceptChain
  <2>2. NeededBy("filter-xed-find-overaccept") = LooksAt(name)
    BY <1>6 DEF NeededBy, LooksAt
  <2>. QED  BY <1>1, <2>1, <2>2
<1>7. CASE name = "xed-underaccept"
  <2>1. t[k] \in {"filter-all-success", "filter-ndecoded-same", "dedupe", "filter-bddisasm-salc",
                  "filter-xed-find-underaccept", "minimize-input", "normalize"}
    BY <1>7, XedUnderacceptChain
  <2>2. NeededBy("filter-xed-find-underaccept") = LooksAt(name)
        /\ NeededBy("filter-bddisasm-salc") \subseteq LooksAt(name)
    BY <1>7 DEF NeededBy, LooksAt
  <2>. QED  BY <1>1, <2>1, <2>2
<1>. QED  BY <1>2, <1>3, <1>4, <1>5, <1>6, <1>7 DEF ProfileNames

\* A pass fails only on a line that lacks a decoder its profile is about.
LEMMA FailsForLack ==
  ASSUME NEW name \in ProfileNames, NEW k \in 1 .. Len(Chain(name)), NEW c, LineOK(c),
         Raises(Chain(name)[k], Changed(Chain(name), k - 1, c))
  PROVE  Lacks(name, c)
<1>1. PICK d : d = Changed(Chain(name), k - 1, c)
  OBVIOUS
<1>2. PICK so \in NeededBy(Chain(name)[k]) : ~Has(d, so)
  BY <1>1, RaisesLacks
<1>3. Same(c, d)
  BY <1>1, SameChanged
<1>4. ~Has(c, so)
  BY <1>2, <1>3 DEF Same, Has
<1>. QED  BY <1>2, <1>4, NeedsLookedAt DEF Lacks

(***************************************************************************)
(* What is shown                                                           *)
(***************************************************************************)

LEMMA AlikeSame ==
  ASSUME NEW c, LineOK(c), NEW d, LineOK(d), Alike(c, d), c.input = d.input
  PROVE  Same(c, d)
<1>1. DOMAIN c.outputs = 1 .. Len(c.outputs) /\ DOMAIN d.outputs = 1 .. Len(d.outputs)
  BY LenProperties DEF LineOK
<1>. QED  BY <1>1 DEF Alike, Same

\* A line comes through all passes when it is Passed and the first of its input.
LEMMA AlivePassed ==
  ASSUME NEW name \in ProfileNames, NEW chain, chain = Chain(name), NEW lines, LinesOK(lines),
         NEW j \in 1 .. Len(lines), Sensible(lines[j]),
         \A l \in 1 .. Len(lines) : lines[l].input = lines[j].input => Same(lines[l], lines[j]),
         \A k \in 1 .. Len(chain) :
           j \in Alive(chain, lines, k - 1) => ~Raises(chain[k], Changed(chain, k - 1, lines[j]))
  PROVE  j \in Alive(chain, lines, Len(chain)) <=>
           /\ Passed(name, lines[j])
           /\ name # "same-size-different-decodings" => FirstOf(lines, j)
<1>1. ChainOK(chain) /\ Shows(name) /\ Finishes(name)
  BY ChainsOK, ProfilesShow
<1>2. PICK m : m = Len(chain)
  OBVIOUS
<1>3. m \in Nat /\ m \in 0 .. Len(chain)
  BY <1>1, <1>2 DEF ChainOK
<1>4. j \in Alive(chain, lines, m) <=>
        Clear(chain, m, lines[j]) /\ (Among(chain, m, "dedupe") => FirstOf(lines, j))
  BY <1>1, <1>3, AliveIs
<1>5. Among(chain, m, "dedupe") <=> name # "same-size-different-decodings"
  BY <1>1, <1>2 DEF Finishes
<1>6. ASSUME Among(chain, m, "dedupe") => FirstOf(lines, j)
      PROVE  Clear(chain, m, lines[j]) <=> Passed(name, lines[j])
  <2>1. ASSUME NEW k \in 1 .. m PROVE First(chain, lines, k - 1, j)
    <3>1. \A d \in 1 .. k - 1 : d \in 1 .. m
      BY <1>3
    <3>. QED  BY <1>6, <3>1, Zenon DEF First, FirstOf, Among
  <2>2. \A k \in 1 .. m : Clear(chain, k - 1, lines[j]) => ~Raises(chain[k], Changed(chain,
          k - 1, lines[j]))
    <3>1. \A k \in 1 .. m : Clear(chain, k - 1, lines[j]) => j \in Alive(chain, lines, k - 1)
      BY <2>1, Zenon DEF Alive
    <3>. QED  BY <1>2, <3>1
  <2>3. LineOK(lines[j]) /\ Sensible(lines[j])
    BY DEF LinesOK
  <2>. QED  BY <1>1, <1>2, <2>2, <2>3, Zenon DEF Shows
<1>. QED  BY <1>2, <1>4, <1>5, <1>6

\* Behind dedupe no input comes twice.
LEMMA AliveOnce ==
  ASSUME NEW chain, ChainOK(chain), NEW m \in 0 .. Len(chain), Among(chain, m, "dedupe"), NEW lines,
         LinesOK(lines), NEW j \in Alive(chain, lines, m), NEW l \in Alive(chain, lines, m), l < j
  PROVE  lines[l].input # lines[j].input
<1>1. PICK d \in 1 .. m : chain[d] = "dedupe"
  BY DEF Among
<1>2. Len(chain) \in Nat /\ Len(lines) \in Nat
  BY DEF ChainOK, LinesOK
<1>3. j \in 1 .. Len(lines) /\ l \in 1 .. Len(lines) /\ Clear(chain, m, lines[l])
        /\ First(chain, lines, m, j)
  BY DEF Alive
<1>4. l \in 1 .. j - 1 /\ \A x \in 1 .. d - 1 : x \in 1 .. m
  BY <1>2, <1>3
<1>5. Clear(chain, d - 1, lines[l])
  BY <1>3, <1>4, Zenon DEF Clear
<1>. QED  BY <1>1, <1>3, <1>4, <1>5, Zenon DEF First

\* Of any campaign a profile shows, in order, trimmed and normalized, the lines
\* it is there to find, none it must not show and no input twice, and misses only
\* what is behind a line that lacks a decoder it is about: analysis and its passes.
THEOREM ProfilesAlways == ReportSpec => []ProfileShowsWanted
<1>1. ReaderInv /\ PipeInv /\ FailInv => ProfileShowsWanted
  <2>. SUFFICES ASSUME ReaderInv, PipeInv, FailInv, Ended, mode = "JSONL"
                PROVE  \E n \in 0 .. Len(printed) : \E K \in SUBSET (1 .. n) :
                         /\ n < Len(printed) => Lacks(profile, printed[n + 1])
                         /\ Stdout = Subsequence([k \in DOMAIN printed |-> Presented(printed[k])], K)
                         /\ RightChoice(n, K)
    BY DEF ProfileShowsWanted
  <2>1. profile \in ProfileNames
    BY DEF PipeInv
  <2>2. PICK chain, lines, pipes, met : chain = Passing /\ lines = printed /\ pipes = pipe
          /\ met = seen
    OBVIOUS
  <2>3. chain = Chain(profile) /\ ChainOK(chain)
    BY <2>1, <2>2, ChainsOK DEF Passing
  <2>4. LinesOK(lines) /\ DOMAIN printed = 1 .. Len(lines)
    BY <2>2, PrintedType DEF LinesOK
  <2>5. PICK p \in PlacesOf(chain, lines) : PipesAt(chain, lines, pipes, met, p)
    BY <2>2 DEF PipeInv, PlacesOf
  <2>6. \A k \in 1 .. Len(chain) : pipes[k] = <<>> \/ Raises(chain[k], Head(pipes[k]))
    <3>1. DOMAIN chain = 1 .. Len(chain)
      BY <2>3 DEF ChainOK
    <3>. QED  BY <2>2, <3>1 DEF Ended, Ready, FailInv
  <2>7. PICK n \in 0 .. Len(lines) : Left(chain, lines, pipes[Len(chain) + 1], n)
    BY <2>3, <2>4, <2>5, <2>6, PipesEnd
  <2>8. PICK m \in 0 .. Len(chain) : m = Len(chain)
    <3>1. Len(chain) \in Nat
      BY <2>3 DEF ChainOK
    <3>. QED  BY <3>1
  <2>9. PICK K : K = {j \in Alive(chain, lines, m) : j <= n}
    OBVIOUS
  <2>10. Len(lines) \in Nat /\ \A j \in K : j \in 1 .. n /\ j \in 1 .. Len(lines)
    BY <2>4, <2>9 DEF Alive, LinesOK
  <2>11. n < Len(printed) => Lacks(profile, printed[n + 1])
    <3>1. ASSUME n < Len(lines) PROVE Lacks(profile, lines[n + 1])
      <4>1. PICK k \in 1 .. Len(chain) : Raises(chain[k], Changed(chain, k - 1, lines[n + 1]))
        BY <2>7, <3>1 DEF Left
      <4>2. LineOK(lines[n + 1])
        <5>1. n + 1 \in 1 .. Len(lines)
          BY <2>10, <3>1
        <5>. QED  BY <2>4, <5>1 DEF LinesOK
      <4>. QED  BY <2>1, <2>3, <4>1, <4>2, FailsForLack
    <3>. QED  BY <2>2, <3>1
  <2>12. Stage(chain, lines, m) = [k \in DOMAIN printed |-> Presented(printed[k])]
    <3>1. \A c : LineOK(c) => Changed(chain, Len(chain), c) = Presented(c)
      BY <2>1, <2>3, ProfilesShow DEF Finishes, Presented
    <3>2. \A k \in 1 .. Len(lines) : LineOK(lines[k])
      BY <2>4 DEF LinesOK
    <3>3. \A k \in 1 .. Len(lines) : Changed(chain, m, lines[k]) = Presented(lines[k])
      BY <2>8, <3>1, <3>2
    <3>. QED  BY <2>2, <2>4, <3>3 DEF Stage
  <2>13. Stdout = Subsequence([k \in DOMAIN printed |-> Presented(printed[k])], K)
    <3>1. Stdout = pipes[Len(chain) + 1]
      BY <2>2 DEF Stdout
    <3>. QED  BY <2>7, <2>8, <2>9, <2>12, <3>1 DEF Left
  <2>14. ASSUME profile # "same-size-different-decodings", NEW j \in K, NEW k \in K, j # k
         PROVE  lines[j].input # lines[k].input
    <3>1. Among(chain, m, "dedupe")
      BY <2>1, <2>3, <2>8, <2>14, ProfilesShow DEF Finishes
    <3>2. j \in Alive(chain, lines, m) /\ k \in Alive(chain, lines, m) /\ (j < k \/ k < j)
      BY <2>9, <2>10, <2>14
    <3>. QED  BY <2>3, <2>4, <3>1, <3>2, AliveOnce
  <2>15. ASSUME NEW k \in 1 .. n, Judgeable(k)
         PROVE  /\ k \in K => ~Unwanted(profile, lines[k])
                /\ Wanted(profile, lines[k])
                     /\ (profile # "same-size-different-decodings" => FirstOf(lines, k)) => k \in K
    <3>1. k \in 1 .. Len(lines) /\ k <= n
      BY <2>10
    <3>2. Sensible(lines[k]) /\ LineOK(lines[k])
            /\ \A l \in 1 .. Len(lines) : LineOK(lines[l]) /\ Alike(lines[l], lines[k])
      BY <2>2, <2>4, <2>15, <3>1 DEF Judgeable, LinesOK
    <3>3. \A l \in 1 .. Len(lines) : lines[l].input = lines[k].input => Same(lines[l], lines[k])
      BY <3>2, AlikeSame
    <3>4. \A x \in 1 .. Len(chain) :
            k \in Alive(chain, lines, x - 1) => ~Raises(chain[x], Changed(chain, x - 1, lines[k]))
      BY <2>7, <3>1 DEF Left
    <3>5. k \in Alive(chain, lines, Len(chain)) <=>
            /\ Passed(profile, lines[k])
            /\ profile # "same-size-different-decodings" => FirstOf(lines, k)
      BY <2>1, <2>3, <2>4, <3>1, <3>2, <3>3, <3>4, AlivePassed
    <3>6. /\ Wanted(profile, lines[k]) => Passed(profile, lines[k])
          /\ Passed(profile, lines[k]) => ~Unwanted(profile, lines[k])
      BY <2>1, <3>2, WantedPasses
    <3>7. k \in K <=> k \in Alive(chain, lines, Len(chain))
      BY <2>8, <2>9, <3>1
    <3>. QED  BY <3>5, <3>6, <3>7
  <2>16. RightChoice(n, K)
    <3>1. \A k : FirstOfInput(k) <=> FirstOf(lines, k)
      BY <2>2 DEF FirstOfInput, FirstOf
    <3>. QED  BY <2>2, <2>14, <2>15, <3>1 DEF RightChoice
  <2>17. K \in SUBSET (1 .. n) /\ n \in 0 .. Len(printed)
    BY <2>2, <2>10
  <2>. QED  BY <2>11, <2>13, <2>16, <2>17
<1>. QED  BY <1>1, FailAlways, PTL
=============================================================================
