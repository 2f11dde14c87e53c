----------------------------- MODULE JsonlProofs -----------------------------
(***************************************************************************)
(* Proofs about Json, Hex and Mish2Jsonl, for any texts and inputs, any    *)
(* campaigns and wherever a stream ends: texts survive the escaping, what  *)
(* mish2jsonl prints is what arrived, and the document is well-formed.     *)
(* ReaderInv says where read_next is in the stream and what it has         *)
(* gathered; DocumentInv adds the document.  The passes behind mish2jsonl  *)
(* change nothing of its state.                                            *)
(***************************************************************************)
EXTENDS Report, SequenceTheorems, WellFoundedInduction, TLAPS

(***************************************************************************)
(* Natural numbers                                                         *)
(***************************************************************************)

\* A set of numbers has a least one.
LEMMA LeastNatural ==
  ASSUME NEW T, T \subseteq Nat, T # {}
  PROVE  \E x \in T : \A y \in T : x <= y
<1>. DEFINE R == OpToRel(<, Nat)
<1>1. \E x \in T : \A y \in T : <<y, x>> \notin R
  BY WFMin, NatLessThanWellFounded
<1>2. \A x, y \in Nat : x < y => <<x, y>> \in R
  BY DEF OpToRel
<1>. HIDE DEF R
<1>3. PICK x \in T : \A y \in T : <<y, x>> \notin R
  BY <1>1
<1>4. \A y \in T : ~(y < x) /\ y \in Nat /\ x \in Nat
  BY <1>2, <1>3
<1>. QED  BY <1>4

\* Induction, as the prover can use it.
LEMMA Induction ==
  ASSUME NEW T, T \subseteq Nat, 0 \in T, \A n \in T : n + 1 \in T
  PROVE  T = Nat
<1>. SUFFICES ASSUME Nat \ T # {} PROVE FALSE
  OBVIOUS
<1>1. PICK n \in Nat \ T : \A k \in Nat \ T : n <= k
  BY LeastNatural
<1>2. n # 0 /\ n - 1 \in Nat /\ n - 1 \in T
  BY <1>1
<1>. QED  BY <1>2

(***************************************************************************)
(* Sequences                                                               *)
(***************************************************************************)

\* The function that FlattenSeq is defined with.
Flatten(S) ==
  LET flatten[j \in 1 .. Len(S)] == IF j = 1 THEN S[j] ELSE flatten[j - 1] \o S[j]
  IN  flatten

\* FlattenSeq, whose definition the prover only sees as a choice, is computed from the left.
LEMMA FlattenIs ==
  ASSUME NEW S, Len(S) \in Nat
  PROVE  Flatten(S) = [j \in 1 .. Len(S) |->
                         IF j = 1 THEN S[j] ELSE Flatten(S)[j - 1] \o S[j]]
<1>. DEFINE Upto(g, k) == g = [j \in 1 .. k |-> IF j = 1 THEN S[j] ELSE g[j - 1] \o S[j]]
            T == {k \in Nat : \E g : Upto(g, k)}
<1>1. 0 \in T
  <2>1. Upto([j \in 1 .. 0 |-> <<>>], 0)
    OBVIOUS
  <2>. QED  BY <2>1
<1>2. ASSUME NEW k \in T PROVE k + 1 \in T
  <2>1. PICK g : Upto(g, k)
    BY <1>2
  <2>. DEFINE h == [j \in 1 .. k + 1 |->
                      IF j <= k THEN g[j] ELSE IF j = 1 THEN S[j] ELSE g[k] \o S[j]]
  <2>2. k \in Nat
    BY <1>2
  <2>3. ASSUME NEW j \in 1 .. k + 1
        PROVE  h[j] = IF j = 1 THEN S[j] ELSE h[j - 1] \o S[j]
    <3>1. CASE j = k + 1
      <4>1. ~(j <= k) /\ (j # 1 => j - 1 = k /\ h[j - 1] = g[k])
        BY <2>2, <3>1
      <4>. QED  BY <3>1, <4>1
    <3>2. CASE j # k + 1
      <4>1. j \in 1 .. k /\ j <= k /\ h[j] = g[j]
        BY <2>2, <3>2
      <4>2. j # 1 => j - 1 \in 1 .. k /\ j - 1 <= k /\ h[j - 1] = g[j - 1]
        BY <2>2, <4>1
      <4>3. g[j] = IF j = 1 THEN S[j] ELSE g[j - 1] \o S[j]
        BY <2>1, <4>1
      <4>. QED  BY <4>1, <4>2, <4>3
    <3>. QED  BY <3>1, <3>2
  <2>4. DOMAIN h = 1 .. k + 1 /\ h = [j \in 1 .. k + 1 |-> h[j]]
    OBVIOUS
  <2>. HIDE DEF h
  <2>5. Upto(h, k + 1)
    BY <2>3, <2>4
  <2>6. \E f : Upto(f, k + 1)
    BY <2>5, Zenon
  <2>. HIDE DEF Upto
  <2>. QED  BY <2>2, <2>6
<1>. HIDE DEF Upto
<1>3. \E g : Upto(g, Len(S))
  <2>1. T \subseteq Nat
    OBVIOUS
  <2>. HIDE DEF T
  <2>2. T = Nat
    BY <1>1, <1>2, <2>1, Induction
  <2>. QED  BY <2>2 DEF T
<1>4. Upto(CHOOSE g : Upto(g, Len(S)), Len(S))
  BY <1>3, Zenon
<1>5. Flatten(S) = CHOOSE g : Upto(g, Len(S))
  BY Zenon DEF Flatten, Upto
<1>6. Upto(Flatten(S), Len(S))
  BY <1>4, <1>5, Zenon
<1>. QED  BY <1>6, Zenon DEF Upto

LEMMA FlattenStep ==
  ASSUME NEW S, Len(S) \in Nat, NEW j \in 1 .. Len(S)
  PROVE  Flatten(S)[j] = IF j = 1 THEN S[j] ELSE Flatten(S)[j - 1] \o S[j]
<1>. DEFINE f == Flatten(S)
<1>1. f = [k \in 1 .. Len(S) |-> IF k = 1 THEN S[k] ELSE f[k - 1] \o S[k]]
  BY FlattenIs
<1>. HIDE DEF f
<1>2. f[j] = IF j = 1 THEN S[j] ELSE f[j - 1] \o S[j]
  BY <1>1
<1>. QED  BY <1>2 DEF f

LEMMA FlattenSeqIs ==
  ASSUME NEW S, Len(S) \in Nat, Len(S) # 0
  PROVE  FlattenSeq(S) = Flatten(S)[Len(S)]
BY Zenon DEF FlattenSeq, Flatten

\* The first n elements, one after the other.
Joined(S, n) == FlattenSeq([j \in 1 .. n |-> S[j]])

\* Nothing is joined.
LEMMA JoinedNone == ASSUME NEW S PROVE Joined(S, 0) = <<>>
<1>1. [j \in 1 .. 0 |-> S[j]] = <<>>
  OBVIOUS
<1>2. Len(<<>>) = 0
  OBVIOUS
<1>. QED  BY <1>1, <1>2, Zenon DEF Joined, FlattenSeq

\* The next element comes behind those before it.
LEMMA JoinedMore ==
  ASSUME NEW S, NEW E, NEW n \in Nat, \A j \in 1 .. n + 1 : S[j] \in Seq(E)
  PROVE  Joined(S, n + 1) = Joined(S, n) \o S[n + 1]
<1>. DEFINE P == [j \in 1 .. n |-> S[j]]
            Q == [j \in 1 .. n + 1 |-> S[j]]
<1>1. /\ Len(P) = n /\ Len(Q) = n + 1 /\ \A j \in 1 .. n : P[j] = Q[j]
      /\ Q[n + 1] = S[n + 1]
  OBVIOUS
<1>. HIDE DEF P, Q
<1>2. CASE n = 0
  <2>1. Joined(S, n) = <<>>
    BY <1>2, JoinedNone
  <2>2. FlattenSeq(Q) = Flatten(Q)[1]
    <3>1. Len(Q) \in Nat /\ Len(Q) # 0 /\ Len(Q) = 1
      BY <1>1, <1>2
    <3>2. FlattenSeq(Q) = Flatten(Q)[Len(Q)]
      BY <3>1, FlattenSeqIs
    <3>. QED  BY <3>1, <3>2
  <2>3. Flatten(Q)[1] = Q[1]
    BY <1>1, <1>2, FlattenStep
  <2>4. S[n + 1] = <<>> \o S[n + 1]
    OBVIOUS
  <2>. QED  BY <1>1, <1>2, <2>1, <2>2, <2>3, <2>4 DEF Joined, Q
<1>3. CASE n # 0
  <2>. DEFINE T == {k \in Nat : k + 1 <= n => Flatten(P)[k + 1] = Flatten(Q)[k + 1]}
  <2>1. 0 \in T
    <3>1. Flatten(P)[1] = P[1] /\ Flatten(Q)[1] = Q[1]
      BY <1>1, <1>3, FlattenStep
    <3>. QED  BY <1>1, <1>3, <3>1
  <2>2. ASSUME NEW k \in T PROVE k + 1 \in T
    <3>. SUFFICES ASSUME k + 1 + 1 <= n PROVE Flatten(P)[k + 1 + 1] = Flatten(Q)[k + 1 + 1]
      BY <2>2
    <3>1. PICK j \in Nat : j = k + 1 + 1
      BY <2>2
    <3>2. /\ k \in Nat /\ j \in 1 .. n /\ j \in 1 .. n + 1 /\ j # 1 /\ j - 1 = k + 1 /\ k + 1 <= n
      BY <2>2, <3>1
    <3>3. Flatten(P)[j - 1] = Flatten(Q)[j - 1]
      BY <2>2, <3>2
    <3>4. /\ Len(P) \in Nat /\ j \in 1 .. Len(P)
          /\ Len(Q) \in Nat /\ j \in 1 .. Len(Q)
      BY <1>1, <3>2
    <3>5. Flatten(P)[j] = Flatten(P)[j - 1] \o P[j]
      BY <3>2, <3>4, FlattenStep
    <3>6. Flatten(Q)[j] = Flatten(Q)[j - 1] \o Q[j]
      BY <3>2, <3>4, FlattenStep
    <3>. QED  BY <1>1, <3>1, <3>2, <3>3, <3>5, <3>6
  <2>3. n - 1 \in T
    <3>1. T \subseteq Nat
      OBVIOUS
    <3>. HIDE DEF T
    <3>2. T = Nat
      BY <2>1, <2>2, <3>1, Induction
    <3>. QED  BY <1>3, <3>2
  <2>4. Flatten(P)[n] = Flatten(Q)[n]
    <3>1. n - 1 + 1 = n /\ n - 1 + 1 <= n
      OBVIOUS
    <3>. QED  BY <2>3, <3>1
  <2>5. FlattenSeq(P) = Flatten(P)[n] /\ FlattenSeq(Q) = Flatten(Q)[n + 1]
    BY <1>1, <1>3, FlattenSeqIs
  <2>6. Flatten(Q)[n + 1] = Flatten(Q)[n] \o Q[n + 1]
    <3>1. PICK j \in Nat : j = n + 1
      OBVIOUS
    <3>2. j \in 1 .. Len(Q) /\ Len(Q) \in Nat /\ j # 1 /\ j - 1 = n
      BY <1>1, <1>3, <3>1
    <3>3. Flatten(Q)[j] = Flatten(Q)[j - 1] \o Q[j]
      BY <3>2, FlattenStep
    <3>. QED  BY <3>1, <3>2, <3>3
  <2>. QED  BY <1>1, <2>4, <2>5, <2>6 DEF Joined, P, Q
<1>. QED  BY <1>2, <1>3

(***************************************************************************)
(* Json                                                                    *)
(***************************************************************************)

Start == Parser(<<>>, <<>>, TRUE)

\* The recursive function is the one its definition says.
LEMMA ReadUpToIs ==
  ASSUME NEW s, Len(s) \in Nat
  PROVE  ReadUpTo(s) = [n \in 0 .. Len(s) |->
                          IF n = 0 THEN Start ELSE ReadChar(s[n], ReadUpTo(s)[n - 1])]
<1>. DEFINE Upto(g, k) == g = [n \in 0 .. k |-> IF n = 0 THEN Start ELSE ReadChar(s[n], g[n - 1])]
            T == {k \in Nat : \E g : Upto(g, k)}
<1>1. 0 \in T
  <2>1. Upto([n \in 0 .. 0 |-> Start], 0)
    OBVIOUS
  <2>. QED  BY <2>1
<1>2. ASSUME NEW k \in T PROVE k + 1 \in T
  <2>1. PICK g : Upto(g, k)
    BY <1>2
  <2>. DEFINE h == [n \in 0 .. k + 1 |-> IF n <= k THEN g[n] ELSE ReadChar(s[k + 1], g[k])]
  <2>2. k \in Nat
    BY <1>2
  <2>3. ASSUME NEW n \in 0 .. k + 1
        PROVE  h[n] = IF n = 0 THEN Start ELSE ReadChar(s[n], h[n - 1])
    <3>1. CASE n = k + 1
      <4>1. n # 0 /\ n - 1 = k /\ h[n - 1] = g[k] /\ ~(n <= k)
        BY <2>2, <3>1
      <4>. QED  BY <3>1, <4>1
    <3>2. CASE n # k + 1
      <4>1. n \in 0 .. k /\ n <= k /\ h[n] = g[n]
        BY <2>2, <3>2
      <4>2. n # 0 => n - 1 \in 0 .. k /\ n - 1 <= k /\ h[n - 1] = g[n - 1]
        BY <2>2, <4>1
      <4>3. g[n] = IF n = 0 THEN Start ELSE ReadChar(s[n], g[n - 1])
        BY <2>1, <4>1
      <4>. QED  BY <4>1, <4>2, <4>3
    <3>. QED  BY <3>1, <3>2
  <2>4. DOMAIN h = 0 .. k + 1 /\ h = [n \in 0 .. k + 1 |-> h[n]]
    OBVIOUS
  <2>. HIDE DEF h
  <2>5. Upto(h, k + 1)
    BY <2>3, <2>4
  <2>6. \E f : Upto(f, k + 1)
    BY <2>5, Zenon
  <2>. HIDE DEF Upto
  <2>. QED  BY <2>2, <2>6
<1>. HIDE DEF Upto
<1>3. \E g : Upto(g, Len(s))
  <2>1. T \subseteq Nat
    OBVIOUS
  <2>. HIDE DEF T
  <2>2. T = Nat
    BY <1>1, <1>2, <2>1, Induction
  <2>. QED  BY <2>2 DEF T
<1>4. Upto(CHOOSE g : Upto(g, Len(s)), Len(s))
  BY <1>3, Zenon
<1>5. ReadUpTo(s) = CHOOSE g : Upto(g, Len(s))
  BY Zenon DEF ReadUpTo, Upto, Start
<1>6. Upto(ReadUpTo(s), Len(s))
  BY <1>4, <1>5, Zenon
<1>. QED  BY <1>6, Zenon DEF Upto

LEMMA ReadUpToStep ==
  ASSUME NEW s, Len(s) \in Nat, NEW n \in 0 .. Len(s)
  PROVE  ReadUpTo(s)[n] = IF n = 0 THEN Start ELSE ReadChar(s[n], ReadUpTo(s)[n - 1])
<1>. DEFINE f == ReadUpTo(s)
<1>1. f = [k \in 0 .. Len(s) |-> IF k = 0 THEN Start ELSE ReadChar(s[k], f[k - 1])]
  BY ReadUpToIs
<1>. HIDE DEF f
<1>2. f[n] = IF n = 0 THEN Start ELSE ReadChar(s[n], f[n - 1])
  BY <1>1
<1>. QED  BY <1>2 DEF f

\* The parser has read nothing.
LEMMA ReadNone == ReadAll(<<>>) = Start
<1>1. Len(<<>>) = 0 /\ Len(<<>>) \in Nat /\ 0 \in 0 .. Len(<<>>)
  OBVIOUS
<1>2. ReadUpTo(<<>>)[0] = Start
  BY <1>1, ReadUpToStep
<1>. QED  BY <1>1, <1>2 DEF ReadAll

\* A parser goes on where it was.
LEMMA ReadMore ==
  ASSUME NEW E, NEW s \in Seq(E), NEW c \in E
  PROVE  ReadAll(Append(s, c)) = ReadChar(c, ReadAll(s))
<1>. DEFINE t == Append(s, c)
            m == Len(s)
            T == {n \in Nat : n <= m => ReadUpTo(t)[n] = ReadUpTo(s)[n]}
<1>1. /\ m \in Nat /\ Len(t) = m + 1 /\ t[m + 1] = c
      /\ \A n \in 1 .. m : t[n] = s[n]
  BY AppendProperties, LenProperties
<1>. HIDE DEF t
<1>2. 0 \in T
  <2>1. /\ Len(t) \in Nat /\ 0 \in 0 .. Len(t) /\ Len(s) \in Nat /\ 0 \in 0 .. Len(s)
    BY <1>1
  <2>2. ReadUpTo(t)[0] = Start /\ ReadUpTo(s)[0] = Start
    BY <2>1, ReadUpToStep
  <2>. QED  BY <2>2
<1>3. ASSUME NEW n \in T PROVE n + 1 \in T
  <2>. SUFFICES ASSUME n + 1 <= m PROVE ReadUpTo(t)[n + 1] = ReadUpTo(s)[n + 1]
    BY <1>3
  <2>1. PICK j \in Nat : j = n + 1
    BY <1>3
  <2>2. /\ j - 1 = n /\ n <= m /\ j # 0 /\ j \in 1 .. m /\ n \in Nat
        /\ Len(t) \in Nat /\ j \in 0 .. Len(t) /\ Len(s) \in Nat /\ j \in 0 .. Len(s)
    BY <1>1, <1>3, <2>1
  <2>3. ReadUpTo(t)[j] = ReadChar(t[j], ReadUpTo(t)[j - 1])
    BY <2>2, ReadUpToStep
  <2>4. ReadUpTo(s)[j] = ReadChar(s[j], ReadUpTo(s)[j - 1])
    BY <2>2, ReadUpToStep
  <2>5. ReadUpTo(t)[n] = ReadUpTo(s)[n] /\ t[j] = s[j]
    BY <1>1, <1>3, <2>2
  <2>. QED  BY <2>1, <2>2, <2>3, <2>4, <2>5
<1>4. m \in T
  <2>1. T \subseteq Nat
    OBVIOUS
  <2>. HIDE DEF T
  <2>2. T = Nat
    BY <1>2, <1>3, <2>1, Induction
  <2>. QED  BY <1>1, <2>2
<1>5. ReadUpTo(t)[m + 1] = ReadChar(c, ReadUpTo(t)[m])
  <2>1. PICK j \in Nat : j = m + 1
    BY <1>1
  <2>2. j - 1 = m /\ j # 0 /\ Len(t) \in Nat /\ j \in 0 .. Len(t)
    BY <1>1, <2>1
  <2>3. ReadUpTo(t)[j] = ReadChar(t[j], ReadUpTo(t)[j - 1])
    BY <2>2, ReadUpToStep
  <2>. QED  BY <1>1, <2>1, <2>2, <2>3
<1>6. ReadUpTo(t)[m] = ReadUpTo(s)[m]
  BY <1>1, <1>4
<1>. QED  BY <1>1, <1>5, <1>6 DEF ReadAll, t

\* The number below 32 that two digits stand for.
LEMMA NibbleOfDigit ==
  \A n \in 0 .. 15 : Nibble(DigitOf(n)) = n /\ (n >= 10 => Nibble(DigitOf(n) - 32) = n)
<1>. SUFFICES ASSUME NEW n \in 0 .. 15
              PROVE  Nibble(DigitOf(n)) = n /\ (n >= 10 => Nibble(DigitOf(n) - 32) = n)
  OBVIOUS
<1>1. CASE n < 10
  BY <1>1 DEF Nibble, DigitOf
<1>2. CASE n >= 10
  BY <1>2 DEF Nibble, DigitOf
<1>. QED  BY <1>1, <1>2

\* A byte is made of two halves.
LEMMA Halves == \A b \in Byte : b \div 16 \in 0 .. 15 /\ b % 16 \in 0 .. 15 /\ (b \div 16) * 16 + (b % 16) = b
BY SMT DEF Byte

LEMMA DigitIsInt == \A n \in 0 .. 15 : DigitOf(n) \in Int
BY DEF DigitOf

\* What a parser does with one character, by how much is pending.
LEMMA ReadPlain ==
  ASSUME NEW text, NEW c \in Int, c >= 32, c # Quote, c # Backslash
  PROVE  ReadChar(c, Parser(text, <<>>, TRUE)) = Parser(Append(text, c), <<>>, TRUE)
<1>1. Len(<<>>) = 0
  OBVIOUS
<1>. QED  BY <1>1 DEF ReadChar, Parser

\* A backslash is waited behind.
LEMMA ReadBackslash ==
  ASSUME NEW text
  PROVE  ReadChar(Backslash, Parser(text, <<>>, TRUE)) = Parser(text, <<Backslash>>, TRUE)
<1>1. Len(<<>>) = 0 /\ Append(<<>>, Backslash) = <<Backslash>>
  OBVIOUS
<1>. QED  BY <1>1 DEF ReadChar, Parser

\* An escape of one letter is read as what it stands for.
LEMMA ReadLetter ==
  ASSUME NEW text, NEW c \in DOMAIN Letter
  PROVE  ReadChar(Letter[c], Parser(text, <<Backslash>>, TRUE)) = Parser(Append(text, c), <<>>, TRUE)
<1>. DEFINE l == Letter[c]
<1>1. Len(<<Backslash>>) = 1
  OBVIOUS
<1>2. l # 117 /\ l \notin {Quote, Backslash}
  BY DEF Letter, Quote, Backslash
<1>3. \A d \in DOMAIN Letter : Letter[d] = l => d = c
  BY DEF Letter
<1>4. LetterFor(l) = c
  <2>. HIDE DEF l
  <2>1. Letter[c] = l
    BY DEF l
  <2>. QED  BY <1>3, <2>1 DEF LetterFor
<1>5. \E d \in DOMAIN Letter : Letter[d] = l
  OBVIOUS
<1>. HIDE DEF l
<1>6. ReadChar(l, Parser(text, <<Backslash>>, TRUE)) = Parser(Append(text, c), <<>>, TRUE)
  BY <1>1, <1>2, <1>4, <1>5 DEF ReadChar, Parser
<1>. QED  BY <1>6 DEF l

\* A quote or a backslash is read as itself behind a backslash.
LEMMA ReadEscaped ==
  ASSUME NEW text, NEW c \in {Quote, Backslash}
  PROVE  ReadChar(c, Parser(text, <<Backslash>>, TRUE)) = Parser(Append(text, c), <<>>, TRUE)
<1>1. Len(<<Backslash>>) = 1
  OBVIOUS
<1>2. c # 117
  BY DEF Quote, Backslash
<1>. QED  BY <1>1, <1>2 DEF ReadChar, Parser

LEMMA TwoOf == ASSUME NEW a \in Int, NEW b \in Int PROVE Append(<<a>>, b) = <<a, b>>
<1>1. <<a>> \in Seq(Int) /\ Len(<<a>>) = 1 /\ <<a>>[1] = a /\ <<a, b>> \in Seq(Int) /\ Len(<<a, b>>) = 2
      /\ <<a, b>>[1] = a /\ <<a, b>>[2] = b
  OBVIOUS
<1>2. /\ Append(<<a>>, b) \in Seq(Int) /\ Len(Append(<<a>>, b)) = 2
      /\ Append(<<a>>, b)[1] = a /\ Append(<<a>>, b)[2] = b
  BY <1>1, AppendProperties
<1>. DEFINE s == Append(<<a>>, b)
            t == <<a, b>>
<1>3. \A n \in 1 .. Len(s) : s[n] = t[n]
  BY <1>1, <1>2
<1>4. s \in Seq(Int) /\ t \in Seq(Int) /\ Len(s) = Len(t)
  BY <1>1, <1>2
<1>. HIDE DEF s, t
<1>5. s = t
  BY <1>3, <1>4, SeqEqual
<1>. QED  BY <1>5 DEF s, t

\* The beginning of \u, then its first digits, are waited behind.
LEMMA ReadU ==
  ASSUME NEW text
  PROVE  ReadChar(117, Parser(text, <<Backslash>>, TRUE)) = Parser(text, <<Backslash, 117>>, TRUE)
<1>. DEFINE pending == <<Backslash>>
<1>1. Len(pending) = 1
  OBVIOUS
<1>2. Append(pending, 117) = <<Backslash, 117>>
  BY TwoOf DEF Backslash
<1>. HIDE DEF pending
<1>3. Len(pending) # 0
  BY <1>1
<1>4. ReadChar(117, Parser(text, pending, TRUE)) = Parser(text, Append(pending, 117), TRUE)
  BY <1>1, <1>3, Zenon DEF ReadChar, Parser
<1>. QED  BY <1>2, <1>4 DEF pending

LEMMA ReadWaits ==
  ASSUME NEW text, NEW c, NEW pending, Len(pending) \in 2 .. 4
  PROVE  ReadChar(c, Parser(text, pending, TRUE)) = Parser(text, Append(pending, c), TRUE)
<1>1. Len(pending) # 0 /\ Len(pending) # 1
  OBVIOUS
<1>. QED  BY <1>1 DEF ReadChar, Parser

\* The last digit ends the escape.
LEMMA ReadLastDigit ==
  ASSUME NEW text, NEW c, NEW pending, Len(pending) = 5
  PROVE  ReadChar(c, Parser(text, pending, TRUE)) =
           Parser(Append(text, 16 * Nibble(pending[5]) + Nibble(c)), <<>>, TRUE)
<1>1. Len(pending) # 0 /\ Len(pending) # 1 /\ Len(pending) \notin 2 .. 4
  OBVIOUS
<1>. QED  BY <1>1 DEF ReadChar, Parser

LEMMA DigitIsByte == \A n \in 0 .. 15 : DigitOf(n) \in Byte
BY DEF DigitOf, Byte

LEMMA AppendTwo ==
  ASSUME NEW E, NEW s \in Seq(E), NEW a \in E, NEW b \in E
  PROVE  s \o <<a, b>> = Append(Append(s, a), b)
<1>. DEFINE t == Append(s, a)
            u == Append(t, b)
            v == s \o <<a, b>>
<1>1. <<a, b>> \in Seq(E) /\ Len(<<a, b>>) = 2 /\ <<a, b>>[1] = a /\ <<a, b>>[2] = b
  OBVIOUS
<1>2. /\ t \in Seq(E) /\ Len(t) = Len(s) + 1 /\ t[Len(s) + 1] = a
      /\ \A n \in 1 .. Len(s) : t[n] = s[n]
  BY AppendProperties
<1>3. Len(s) \in Nat
  BY LenProperties
<1>. HIDE DEF t
<1>4. /\ u \in Seq(E) /\ Len(u) = Len(t) + 1 /\ u[Len(t) + 1] = b
      /\ \A n \in 1 .. Len(t) : u[n] = t[n]
  BY <1>2, AppendProperties
<1>5. /\ v \in Seq(E) /\ Len(v) = Len(s) + 2
      /\ \A n \in 1 .. Len(s) + 2 : v[n] = IF n <= Len(s) THEN s[n] ELSE <<a, b>>[n - Len(s)]
  BY <1>1, ConcatProperties
<1>. HIDE DEF u, v
<1>6. ASSUME NEW n \in 1 .. Len(v) PROVE v[n] = u[n]
  <2>1. CASE n <= Len(s)
    BY <1>2, <1>3, <1>4, <1>5, <2>1
  <2>2. CASE n = Len(s) + 1
    <3>1. n - Len(s) = 1 /\ n \in 1 .. Len(s) + 2 /\ ~(n <= Len(s)) /\ n \in 1 .. Len(t) /\ n = Len(s) + 1
      BY <1>2, <1>3, <2>2
    <3>. QED  BY <1>1, <1>2, <1>4, <1>5, <3>1
  <2>3. CASE n = Len(s) + 2
    <3>1. n - Len(s) = 2 /\ n \in 1 .. Len(s) + 2 /\ ~(n <= Len(s)) /\ n = Len(t) + 1
      BY <1>2, <1>3, <2>3
    <3>. QED  BY <1>1, <1>4, <1>5, <3>1
  <2>. QED  BY <1>3, <1>5, <2>1, <2>2, <2>3
<1>7. Len(v) = Len(u)
  BY <1>2, <1>3, <1>4, <1>5
<1>8. v = u
  BY <1>4, <1>5, <1>6, <1>7, SeqEqual
<1>. QED  BY <1>8 DEF t, u, v

\* Where the brackets of a concatenation are does not matter.
LEMMA FourInARow ==
  ASSUME NEW E, NEW s \in Seq(E), NEW p \in Seq(E), NEW q \in Seq(E), NEW r \in Seq(E)
  PROVE  s \o ((p \o q) \o r) = ((s \o p) \o q) \o r
<1>1. p \o q \in Seq(E)
  BY ConcatProperties
<1>2. s \o ((p \o q) \o r) = (s \o (p \o q)) \o r
  BY <1>1, ConcatAssociative
<1>3. s \o (p \o q) = (s \o p) \o q
  BY ConcatAssociative, SMTT(30)
<1>. QED  BY <1>2, <1>3

LEMMA AppendSix ==
  ASSUME NEW E, NEW s \in Seq(E), NEW a \in E, NEW b \in E, NEW c \in E, NEW d \in E,
         NEW e \in E, NEW f \in E
  PROVE  /\ <<a, b, c, d, e, f>> \in Seq(E)
         /\ s \o <<a, b, c, d, e, f>> =
              Append(Append(Append(Append(Append(Append(s, a), b), c), d), e), f)
<1>. DEFINE p == <<a, b>>
            q == <<c, d>>
            r == <<e, f>>
            six == <<a, b, c, d, e, f>>
<1>1. p \in Seq(E) /\ q \in Seq(E) /\ r \in Seq(E) /\ six \in Seq(E)
  OBVIOUS
<1>2. /\ Len(p) = 2 /\ Len(q) = 2 /\ Len(r) = 2 /\ Len(six) = 6
      /\ p[1] = six[1] /\ p[2] = six[2] /\ q[1] = six[3] /\ q[2] = six[4]
      /\ r[1] = six[5] /\ r[2] = six[6]
  OBVIOUS
<1>3. s \o p = Append(Append(s, a), b) /\ s \o p \in Seq(E)
  BY <1>1, AppendTwo, ConcatProperties
<1>4. (s \o p) \o q = Append(Append(s \o p, c), d) /\ (s \o p) \o q \in Seq(E)
  BY <1>1, <1>3, AppendTwo, ConcatProperties
<1>5. ((s \o p) \o q) \o r = Append(Append((s \o p) \o q, e), f)
  BY <1>1, <1>4, AppendTwo
<1>. HIDE DEF p, q, r, six
<1>6. /\ p \o q \in Seq(E) /\ Len(p \o q) = 4
      /\ \A n \in 1 .. 4 : (p \o q)[n] = IF n <= 2 THEN p[n] ELSE q[n - 2]
  <2>1. /\ p \o q \in Seq(E) /\ Len(p \o q) = Len(p) + Len(q)
        /\ \A n \in 1 .. Len(p) + Len(q) : (p \o q)[n] = IF n <= Len(p) THEN p[n] ELSE q[n - Len(p)]
    BY <1>1, ConcatProperties
  <2>. QED  BY <1>2, <2>1
<1>7. /\ (p \o q) \o r \in Seq(E) /\ Len((p \o q) \o r) = 6
      /\ \A n \in 1 .. 6 : ((p \o q) \o r)[n] = IF n <= 4 THEN (p \o q)[n] ELSE r[n - 4]
  <2>. DEFINE u == p \o q
  <2>1. u \in Seq(E)
    BY <1>6
  <2>. HIDE DEF u
  <2>2. /\ u \o r \in Seq(E) /\ Len(u \o r) = Len(u) + Len(r)
        /\ \A n \in 1 .. Len(u) + Len(r) : (u \o r)[n] = IF n <= Len(u) THEN u[n] ELSE r[n - Len(u)]
    BY <1>1, <2>1, ConcatProperties
  <2>3. Len(u) = 4
    BY <1>6 DEF u
  <2>4. /\ u \o r \in Seq(E) /\ Len(u \o r) = 6
        /\ \A n \in 1 .. 6 : (u \o r)[n] = IF n <= 4 THEN u[n] ELSE r[n - 4]
    BY <1>2, <2>2, <2>3
  <2>. QED  BY <2>4 DEF u
<1>8. ASSUME NEW n \in 1 .. 6 PROVE ((p \o q) \o r)[n] = six[n]
  BY <1>2, <1>6, <1>7
<1>9. (p \o q) \o r = six
  BY <1>1, <1>2, <1>7, <1>8, SeqEqual
<1>10. s \o six = ((s \o p) \o q) \o r
  <2>1. s \o ((p \o q) \o r) = ((s \o p) \o q) \o r
    BY <1>1, FourInARow, SMTT(60)
  <2>. QED  BY <1>9, <2>1
<1>. QED  BY <1>1, <1>3, <1>4, <1>5, <1>10 DEF six

\* What is pending of \u00xy when its last digit comes.
LEMMA Pending ==
  ASSUME NEW d \in Byte
  PROVE  LET p == <<Backslash, 117>>
             q == Append(p, 48)
             r == Append(q, 48)
         IN  /\ Len(p) = 2 /\ Len(q) = 3 /\ Len(r) = 4
             /\ Len(Append(r, d)) = 5 /\ Append(r, d)[5] = d
<1>. DEFINE p == <<Backslash, 117>>
            q == Append(p, 48)
            r == Append(q, 48)
<1>1. 48 \in Byte /\ 117 \in Byte /\ Backslash \in Byte
  BY DEF Byte, Backslash
<1>2. p \in Seq(Byte) /\ Len(p) = 2
  BY <1>1
<1>. HIDE DEF p
<1>3. q \in Seq(Byte) /\ Len(q) = 3
  <2>1. q \in Seq(Byte) /\ Len(q) = Len(p) + 1
    BY <1>1, <1>2, AppendProperties, ZenonT(60)
  <2>. QED  BY <1>2, <2>1
<1>. HIDE DEF q
<1>4. r \in Seq(Byte) /\ Len(r) = 4
  <2>1. r \in Seq(Byte) /\ Len(r) = Len(q) + 1
    BY <1>1, <1>3, AppendProperties, ZenonT(60)
  <2>. QED  BY <1>3, <2>1
<1>. HIDE DEF r
<1>5. Len(Append(r, d)) = 5 /\ Append(r, d)[5] = d
  <2>1. Len(Append(r, d)) = Len(r) + 1 /\ Append(r, d)[Len(r) + 1] = d
    BY <1>4, AppendProperties
  <2>. QED  BY <1>4, <2>1
<1>. QED  BY <1>2, <1>3, <1>4, <1>5 DEF p, q, r

\* A character that was escaped is read as itself.
LEMMA ReadEscapeChar ==
  ASSUME NEW s \in Seq(Byte), NEW c \in Byte, NEW text, ReadAll(s) = Parser(text, <<>>, TRUE)
  PROVE  /\ EscapeChar(c) \in Seq(Byte)
         /\ ReadAll(s \o EscapeChar(c)) = Parser(Append(text, c), <<>>, TRUE)
<1>1. Quote \in Byte /\ Backslash \in Byte /\ 117 \in Byte /\ 48 \in Byte
  BY DEF Quote, Backslash, Byte
<1>2. CASE c \in {Quote, Backslash}
  <2>. c \notin DOMAIN Letter /\ ~(c < 32)
    BY <1>2 DEF Letter, Quote, Backslash
  <2>1. EscapeChar(c) = <<Backslash, c>>
    BY <1>2, Zenon DEF EscapeChar
  <2>2. s \o <<Backslash, c>> = Append(Append(s, Backslash), c)
    BY <1>1, AppendTwo
  <2>3. ReadAll(Append(s, Backslash)) = Parser(text, <<Backslash>>, TRUE)
    BY <1>1, ReadMore, ReadBackslash
  <2>4. Append(s, Backslash) \in Seq(Byte)
    BY <1>1, AppendProperties
  <2>5. ReadAll(Append(Append(s, Backslash), c)) = Parser(Append(text, c), <<>>, TRUE)
    BY <1>2, <2>3, <2>4, ReadMore, ReadEscaped
  <2>6. EscapeChar(c) \in Seq(Byte)
    BY <1>1, <2>1
  <2>. QED  BY <2>1, <2>2, <2>5, <2>6
<1>3. CASE c \in DOMAIN Letter
  <2>1. c \notin {Quote, Backslash} /\ Letter[c] \in Byte
    BY <1>3 DEF Letter, Quote, Backslash, Byte
  <2>2. EscapeChar(c) = <<Backslash, Letter[c]>>
    BY <1>3, <2>1, Zenon DEF EscapeChar
  <2>3. s \o <<Backslash, Letter[c]>> = Append(Append(s, Backslash), Letter[c])
    BY <1>1, <2>1, AppendTwo
  <2>4. ReadAll(Append(s, Backslash)) = Parser(text, <<Backslash>>, TRUE)
    BY <1>1, ReadMore, ReadBackslash
  <2>5. Append(s, Backslash) \in Seq(Byte)
    BY <1>1, AppendProperties
  <2>6. ReadAll(Append(Append(s, Backslash), Letter[c])) = Parser(Append(text, c), <<>>, TRUE)
    BY <1>3, <2>1, <2>4, <2>5, ReadMore, ReadLetter
  <2>7. EscapeChar(c) \in Seq(Byte)
    BY <1>1, <2>1, <2>2
  <2>. QED  BY <2>2, <2>3, <2>6, <2>7
<1>4. CASE c < 32 /\ c \notin DOMAIN Letter
  <2>1. c \notin {Quote, Backslash}
    BY <1>4 DEF Quote, Backslash, Byte
  <2>2. EscapeChar(c) = Unicode(c)
    BY <1>4, <2>1, Zenon DEF EscapeChar
  <2>. DEFINE d == DigitOf(c \div 16)
              e == DigitOf(c % 16)
              a == Append(Append(Append(Append(Append(s, Backslash), 117), 48), 48), d)
  <2>3. d \in Byte /\ e \in Byte /\ Nibble(d) = c \div 16 /\ Nibble(e) = c % 16
    BY Halves, NibbleOfDigit, DigitIsByte
  <2>4. 16 * Nibble(d) + Nibble(e) = c
    <3>1. (c \div 16) * 16 + (c % 16) = c /\ c \div 16 \in Int
      BY Halves
    <3>. QED  BY <2>3, <3>1
  <2>5. EscapeChar(c) = <<Backslash, 117, 48, 48, d, e>>
    BY <2>2 DEF Unicode
  <2>. HIDE DEF d, e
  <2>6. s \o EscapeChar(c) = Append(a, e) /\ EscapeChar(c) \in Seq(Byte)
    <3>1. /\ <<Backslash, 117, 48, 48, d, e>> \in Seq(Byte)
          /\ s \o <<Backslash, 117, 48, 48, d, e>> = Append(a, e)
      BY <1>1, <2>3, AppendSix, SMTT(60)
    <3>. QED  BY <2>5, <3>1
  <2>7. ReadAll(Append(s, Backslash)) = Parser(text, <<Backslash>>, TRUE) /\ Append(s, Backslash) \in Seq(Byte)
    BY <1>1, ReadMore, ReadBackslash, AppendProperties
  <2>8. /\ ReadAll(Append(Append(s, Backslash), 117)) = Parser(text, <<Backslash, 117>>, TRUE)
        /\ Append(Append(s, Backslash), 117) \in Seq(Byte)
    BY <1>1, <2>7, ReadMore, ReadU, AppendProperties, ZenonT(60)
  <2>. DEFINE p == <<Backslash, 117>>
              q == Append(p, 48)
              r == Append(q, 48)
              s2 == Append(Append(s, Backslash), 117)
              s3 == Append(s2, 48)
              s4 == Append(s3, 48)
  <2>9. /\ Len(p) = 2 /\ Len(q) = 3 /\ Len(r) = 4
        /\ Len(Append(r, d)) = 5 /\ Append(r, d)[5] = d
    BY <2>3, Pending
  <2>10. ReadAll(s2) = Parser(text, p, TRUE) /\ s2 \in Seq(Byte)
    BY <2>8
  <2>. HIDE DEF p, s2
  <2>11. ReadAll(s3) = Parser(text, q, TRUE) /\ s3 \in Seq(Byte)
    <3>1. ReadAll(s3) = ReadChar(48, Parser(text, p, TRUE)) /\ s3 \in Seq(Byte)
      BY <1>1, <2>10, ReadMore, AppendProperties, ZenonT(60)
    <3>2. Len(p) \in 2 .. 4
      BY <2>9
    <3>. QED  BY <3>1, <3>2, ReadWaits
  <2>. HIDE DEF q, s3
  <2>12. ReadAll(s4) = Parser(text, r, TRUE) /\ s4 \in Seq(Byte)
    <3>1. ReadAll(s4) = ReadChar(48, Parser(text, q, TRUE)) /\ s4 \in Seq(Byte)
      BY <1>1, <2>11, ReadMore, AppendProperties, ZenonT(60)
    <3>2. Len(q) \in 2 .. 4
      BY <2>9
    <3>. QED  BY <3>1, <3>2, ReadWaits
  <2>. HIDE DEF r, s4
  <2>13. ReadAll(Append(s4, d)) = Parser(text, Append(r, d), TRUE) /\ Append(s4, d) \in Seq(Byte)
    <3>1. ReadAll(Append(s4, d)) = ReadChar(d, Parser(text, r, TRUE)) /\ Append(s4, d) \in Seq(Byte)
      BY <2>3, <2>12, ReadMore, AppendProperties
    <3>2. Len(r) \in 2 .. 4
      BY <2>9
    <3>. QED  BY <3>1, <3>2, ReadWaits
  <2>14. ReadAll(Append(Append(s4, d), e)) = ReadChar(e, Parser(text, Append(r, d), TRUE))
    BY <2>3, <2>13, ReadMore
  <2>15. ReadChar(e, Parser(text, Append(r, d), TRUE)) = Parser(Append(text, c), <<>>, TRUE)
    BY <2>4, <2>9, ReadLastDigit
  <2>16. a = Append(s4, d)
    BY DEF s2, s3, s4
  <2>. QED  BY <2>6, <2>14, <2>15, <2>16
<1>5. CASE c >= 32 /\ c \notin {Quote, Backslash}
  <2>. c \in Int
    BY DEF Byte
  <2>1. c \notin DOMAIN Letter /\ ~(c < 32)
    BY <1>5 DEF Letter
  <2>2. EscapeChar(c) = <<c>>
    BY <1>5, <2>1, Zenon DEF EscapeChar
  <2>3. s \o <<c>> = Append(s, c)
    BY AppendIsConcat
  <2>4. c \in Int /\ c # Quote /\ c # Backslash
    BY <1>5 DEF Byte
  <2>5. ReadAll(Append(s, c)) = Parser(Append(text, c), <<>>, TRUE)
    BY <1>5, <2>4, ReadMore, ReadPlain, ZenonT(60)
  <2>6. EscapeChar(c) \in Seq(Byte)
    BY <2>2
  <2>. QED  BY <2>2, <2>3, <2>5, <2>6
<1>6. c < 32 \/ c >= 32
  BY DEF Byte
<1>. QED  BY <1>2, <1>3, <1>4, <1>5, <1>6, Zenon

LEMMA BytesAreInts == Byte \subseteq Int
BY DEF Byte

\* The beginnings of a sequence.
LEMMA SubSeqMore ==
  ASSUME NEW E, NEW s \in Seq(E), NEW n \in Nat, n + 1 <= Len(s)
  PROVE  /\ SubSeq(s, 1, n) \in Seq(E) /\ s[n + 1] \in E
         /\ SubSeq(s, 1, n + 1) = Append(SubSeq(s, 1, n), s[n + 1])
<1>. DEFINE a == SubSeq(s, 1, n)
            b == SubSeq(s, 1, n + 1)
            c == Append(a, s[n + 1])
<1>1. Len(s) \in Nat /\ \A j \in 1 .. Len(s) : s[j] \in E
  BY LenProperties, ElementOfSeq
<1>2. s[n + 1] \in E
  BY <1>1
<1>3. /\ a \in Seq(E) /\ Len(a) = n /\ \A j \in 1 .. n : a[j] = s[j]
  <2>1. \A j \in 1 .. n : s[j] \in E
    BY <1>1
  <2>2. /\ a \in Seq(E) /\ Len(a) = (IF 1 <= n THEN n - 1 + 1 ELSE 0)
        /\ \A j \in 1 .. n - 1 + 1 : a[j] = s[1 + j - 1]
    BY <2>1, SubSeqProperties
  <2>. HIDE DEF a
  <2>. QED  BY <2>2
<1>4. /\ b \in Seq(E) /\ Len(b) = n + 1 /\ \A j \in 1 .. n + 1 : b[j] = s[j]
  <2>. DEFINE m == n + 1
              d == SubSeq(s, 1, m)
  <2>1. m \in Int /\ (\A j \in 1 .. m : s[j] \in E) /\ 1 <= m
    BY <1>1
  <2>. HIDE DEF m
  <2>2. /\ d \in Seq(E) /\ Len(d) = (IF 1 <= m THEN m - 1 + 1 ELSE 0)
        /\ \A j \in 1 .. m - 1 + 1 : d[j] = s[1 + j - 1]
    BY <2>1, SubSeqProperties
  <2>3. d = b
    BY DEF m
  <2>. HIDE DEF b, d
  <2>4. /\ d \in Seq(E) /\ Len(d) = m /\ \A j \in 1 .. m : d[j] = s[j]
    BY <2>1, <2>2
  <2>. QED  BY <2>3, <2>4 DEF m
<1>. HIDE DEF a
<1>5. /\ c \in Seq(E) /\ Len(c) = Len(a) + 1 /\ c[Len(a) + 1] = s[n + 1]
      /\ \A j \in 1 .. Len(a) : c[j] = a[j]
  BY <1>2, <1>3, AppendProperties
<1>. HIDE DEF b, c
<1>6. ASSUME NEW j \in 1 .. n + 1 PROVE b[j] = c[j]
  <2>1. CASE j <= n
    <3>1. j \in 1 .. n
      BY <2>1
    <3>. QED  BY <1>3, <1>4, <1>5, <3>1
  <2>2. CASE ~(j <= n)
    <3>1. j = n + 1
      BY <2>2
    <3>. QED  BY <1>3, <1>4, <1>5, <3>1
  <2>. QED  BY <2>1, <2>2
<1>7. Len(b) = Len(c) /\ \A j \in 1 .. Len(b) : b[j] = c[j]
  BY <1>3, <1>4, <1>5, <1>6
<1>8. b = c
  BY <1>4, <1>5, <1>7, SeqEqual
<1>. QED  BY <1>2, <1>3, <1>8 DEF a, b, c

LEMMA SubSeqNone == ASSUME NEW s PROVE SubSeq(s, 1, 0) = <<>>
BY SubSeqEmpty

LEMMA SubSeqAll == ASSUME NEW E, NEW s \in Seq(E) PROVE SubSeq(s, 1, Len(s)) = s
BY SubSeqFull

\* A JSON parser gets the bytes of a text back from what json_escape_string made of
\* them, and finds no fault with it.  (A C string ends before its first zero, see
\* CString.  Bytes of 128 and above go through both as they are: whether they are
\* UTF-8, which JSON asks for, is not looked at.)
THEOREM EscapeRoundTrip ==
  \A s \in Seq(Byte) : IsJsonText(Escape(s)) /\ JsonText(Escape(s)) = s
<1>. SUFFICES ASSUME NEW s \in Seq(Byte)
              PROVE  IsJsonText(Escape(s)) /\ JsonText(Escape(s)) = s
  OBVIOUS
<1>. DEFINE S == [k \in DOMAIN s |-> EscapeChar(s[k])]
            P(n) == /\ Joined(S, n) \in Seq(Byte)
                    /\ ReadAll(Joined(S, n)) = Parser(SubSeq(s, 1, n), <<>>, TRUE)
            T == {n \in Nat : n <= Len(s) => P(n)}
<1>1. /\ Len(s) \in Nat /\ DOMAIN s = 1 .. Len(s)
      /\ \A k \in 1 .. Len(s) : s[k] \in Byte
  BY LenProperties, ElementOfSeq
<1>2. \A k \in 1 .. Len(s) : S[k] = EscapeChar(s[k])
  BY <1>1
<1>3. \A k \in 1 .. Len(s) : S[k] \in Seq(Byte)
  <2>1. <<>> \in Seq(Byte)
    BY EmptySeq
  <2>2. ReadAll(<<>>) = Parser(<<>>, <<>>, TRUE)
    BY ReadNone, Zenon DEF Start
  <2>. QED  BY <1>1, <1>2, <2>1, <2>2, ReadEscapeChar
<1>4. Escape(s) = Joined(S, Len(s))
  <2>1. S = [k \in 1 .. Len(s) |-> S[k]]
    BY <1>1
  <2>. QED  BY <2>1 DEF Escape, Joined
<1>. HIDE DEF S
<1>5. 0 \in T
  <2>1. Joined(S, 0) = <<>> /\ SubSeq(s, 1, 0) = <<>> /\ <<>> \in Seq(Byte)
    BY JoinedNone, SubSeqNone, EmptySeq
  <2>2. ReadAll(<<>>) = Parser(<<>>, <<>>, TRUE)
    BY ReadNone, Zenon DEF Start
  <2>3. P(0)
    BY <2>1, <2>2, Zenon
  <2>. HIDE DEF P
  <2>. QED  BY <2>3
<1>6. ASSUME NEW n \in T PROVE n + 1 \in T
  <2>. SUFFICES ASSUME n + 1 <= Len(s) PROVE P(n + 1)
    <3>. HIDE DEF P
    <3>. QED  BY <1>6
  <2>. DEFINE J == Joined(S, n)
              c == s[n + 1]
  <2>1. n \in Nat /\ n <= Len(s) /\ n + 1 \in 1 .. Len(s)
    BY <1>1, <1>6
  <2>2. J \in Seq(Byte) /\ ReadAll(J) = Parser(SubSeq(s, 1, n), <<>>, TRUE)
    <3>1. P(n)
      <4>. HIDE DEF P
      <4>. QED  BY <1>6, <2>1
    <3>. QED  BY <3>1
  <2>3. Joined(S, n + 1) = J \o S[n + 1]
    <3>1. \A j \in 1 .. n + 1 : S[j] \in Seq(Byte)
      BY <1>1, <1>3, <2>1
    <3>. QED  BY <2>1, <3>1, JoinedMore
  <2>4. S[n + 1] = EscapeChar(c) /\ c \in Byte
    BY <1>1, <1>2, <2>1
  <2>5. SubSeq(s, 1, n + 1) = Append(SubSeq(s, 1, n), c)
    BY <2>1, SubSeqMore
  <2>. HIDE DEF J, c
  <2>6. /\ EscapeChar(c) \in Seq(Byte)
        /\ ReadAll(J \o EscapeChar(c)) = Parser(Append(SubSeq(s, 1, n), c), <<>>, TRUE)
    BY <2>2, <2>4, ReadEscapeChar
  <2>7. J \o EscapeChar(c) \in Seq(Byte)
    BY <2>2, <2>6, ConcatProperties
  <2>. QED  BY <2>3, <2>4, <2>5, <2>6, <2>7
<1>7. P(Len(s))
  <2>1. T \subseteq Nat
    OBVIOUS
  <2>. HIDE DEF T
  <2>2. T = Nat
    BY <1>5, <1>6, <2>1, Induction
  <2>. HIDE DEF P
  <2>. QED  BY <1>1, <2>2 DEF T
<1>8. ReadAll(Escape(s)) = Parser(s, <<>>, TRUE)
  <2>1. SubSeq(s, 1, Len(s)) = s
    BY SubSeqAll
  <2>. QED  BY <1>1, <1>4, <1>7, <2>1
<1>. QED  BY <1>8 DEF IsJsonText, JsonText, Parser

\* A name without quotes, backslashes and control characters needs no escapes.
LEMMA PlainIsJson ==
  ASSUME NEW s \in Seq(Byte), PlainName(s)
  PROVE  IsJsonText(s) /\ JsonText(s) = s
<1>. DEFINE P(n) == ReadUpTo(s)[n] = Parser(SubSeq(s, 1, n), <<>>, TRUE)
            T == {n \in Nat : n <= Len(s) => P(n)}
<1>1. /\ Len(s) \in Nat /\ DOMAIN s = 1 .. Len(s)
      /\ \A k \in 1 .. Len(s) : s[k] \in Int /\ s[k] >= 32 /\ s[k] # Quote /\ s[k] # Backslash
  <2>1. Len(s) \in Nat /\ DOMAIN s = 1 .. Len(s) /\ \A k \in 1 .. Len(s) : s[k] \in Byte
    BY LenProperties, ElementOfSeq
  <2>2. \A k \in 1 .. Len(s) : s[k] \in Int
    BY <2>1, BytesAreInts
  <2>. QED  BY <2>1, <2>2 DEF PlainName
<1>2. 0 \in T
  <2>1. ReadUpTo(s)[0] = Start
    BY <1>1, ReadUpToStep
  <2>2. P(0)
    BY <2>1, SubSeqNone DEF Start
  <2>. HIDE DEF P
  <2>. QED  BY <2>2
<1>3. ASSUME NEW n \in T PROVE n + 1 \in T
  <2>. SUFFICES ASSUME n + 1 <= Len(s) PROVE P(n + 1)
    <3>. HIDE DEF P
    <3>. QED  BY <1>3
  <2>1. PICK j \in Nat : j = n + 1
    BY <1>3
  <2>2. /\ n \in Nat /\ n <= Len(s) /\ j - 1 = n /\ j # 0 /\ j \in 0 .. Len(s) /\ j \in 1 .. Len(s)
    BY <1>1, <1>3, <2>1
  <2>3. ReadUpTo(s)[j] = ReadChar(s[j], ReadUpTo(s)[j - 1])
    BY <1>1, <2>2, ReadUpToStep
  <2>4. ReadUpTo(s)[j - 1] = Parser(SubSeq(s, 1, n), <<>>, TRUE)
    <3>1. P(n)
      <4>. HIDE DEF P
      <4>. QED  BY <1>3, <2>2
    <3>. QED  BY <2>2, <3>1
  <2>5. ReadUpTo(s)[j] = Parser(Append(SubSeq(s, 1, n), s[j]), <<>>, TRUE)
    BY <1>1, <2>2, <2>3, <2>4, ReadPlain
  <2>6. SubSeq(s, 1, n + 1) = Append(SubSeq(s, 1, n), s[n + 1])
    BY <2>2, SubSeqMore
  <2>. QED  BY <2>1, <2>5, <2>6
<1>4. P(Len(s))
  <2>1. T \subseteq Nat
    OBVIOUS
  <2>. HIDE DEF T
  <2>2. T = Nat
    BY <1>2, <1>3, <2>1, Induction
  <2>. HIDE DEF P
  <2>. QED  BY <1>1, <2>2 DEF T
<1>5. ReadAll(s) = Parser(s, <<>>, TRUE)
  <2>1. SubSeq(s, 1, Len(s)) = s
    BY SubSeqAll
  <2>. QED  BY <1>1, <1>4, <2>1 DEF ReadAll
<1>. QED  BY <1>5 DEF IsJsonText, JsonText, Parser

(***************************************************************************)
(* Where things are in a stream                                            *)
(***************************************************************************)

\* The bytes of f are those of B from p on.
Lies(B, p, f) ==
  /\ p \in Nat /\ Len(B) \in Nat /\ Len(f) \in Nat /\ p + Len(f) <= Len(B)
  /\ \A j \in 1 .. Len(f) : B[p + j] = f[j]

\* The second of two parts lies behind the first.
LEMMA LiesBehind ==
  ASSUME NEW E, NEW a \in Seq(E), NEW b \in Seq(E)
  PROVE  Lies(a \o b, Len(a), b)
<1>. DEFINE c == a \o b
<1>1. Len(a) \in Nat /\ Len(b) \in Nat
  BY LenProperties
<1>2. /\ Len(c) = Len(a) + Len(b)
      /\ \A j \in 1 .. Len(a) + Len(b) : c[j] = IF j <= Len(a) THEN a[j] ELSE b[j - Len(a)]
  BY ConcatProperties
<1>. HIDE DEF c
<1>3. ASSUME NEW j \in 1 .. Len(b) PROVE c[Len(a) + j] = b[j]
  <2>1. PICK k \in Nat : k = Len(a) + j
    BY <1>1
  <2>2. k \in 1 .. Len(a) + Len(b) /\ ~(k <= Len(a)) /\ k - Len(a) = j
    BY <1>1, <2>1
  <2>. QED  BY <1>2, <2>1, <2>2
<1>4. Lies(c, Len(a), b)
  BY <1>1, <1>2, <1>3 DEF Lies
<1>. QED  BY <1>4 DEF c

\* What lies there stays when something is added.
LEMMA LiesStill ==
  ASSUME NEW E, NEW a \in Seq(E), NEW b \in Seq(E), NEW p, NEW f, Lies(a, p, f)
  PROVE  Lies(a \o b, p, f)
<1>. DEFINE c == a \o b
<1>1. Len(a) \in Nat /\ Len(b) \in Nat
  BY LenProperties
<1>2. /\ Len(c) = Len(a) + Len(b)
      /\ \A j \in 1 .. Len(a) + Len(b) : c[j] = IF j <= Len(a) THEN a[j] ELSE b[j - Len(a)]
  BY ConcatProperties
<1>. HIDE DEF c
<1>3. /\ p \in Nat /\ Len(f) \in Nat /\ p + Len(f) <= Len(a)
      /\ \A j \in 1 .. Len(f) : a[p + j] = f[j]
  BY DEF Lies
<1>4. ASSUME NEW j \in 1 .. Len(f) PROVE c[p + j] = f[j]
  <2>1. PICK k \in Nat : k = p + j
    BY <1>3
  <2>2. k \in 1 .. Len(a) + Len(b) /\ k <= Len(a)
    BY <1>1, <1>3, <2>1
  <2>3. a[k] = f[j]
    BY <1>3, <2>1
  <2>. QED  BY <1>2, <2>1, <2>2, <2>3
<1>5. Len(c) \in Nat /\ p + Len(f) <= Len(c)
  BY <1>1, <1>2, <1>3
<1>6. Lies(c, p, f)
  BY <1>3, <1>4, <1>5 DEF Lies
<1>. QED  BY <1>6 DEF c

\* A part of what lies there lies there, at its own place.
LEMMA LiesWithin ==
  ASSUME NEW B, NEW p, NEW f, NEW q, NEW g, Lies(B, p, f), Lies(f, q, g)
  PROVE  Lies(B, p + q, g)
<1>1. /\ p \in Nat /\ Len(B) \in Nat /\ Len(f) \in Nat /\ p + Len(f) <= Len(B)
      /\ \A j \in 1 .. Len(f) : B[p + j] = f[j]
  BY DEF Lies
<1>2. /\ q \in Nat /\ Len(g) \in Nat /\ q + Len(g) <= Len(f)
      /\ \A j \in 1 .. Len(g) : f[q + j] = g[j]
  BY DEF Lies
<1>3. ASSUME NEW j \in 1 .. Len(g) PROVE B[(p + q) + j] = g[j]
  <2>1. PICK k \in Nat : k = q + j
    BY <1>2
  <2>2. k \in 1 .. Len(f) /\ p + k = (p + q) + j
    BY <1>1, <1>2, <2>1
  <2>3. B[p + k] = f[k] /\ f[k] = g[j]
    BY <1>1, <1>2, <2>1, <2>2
  <2>. QED  BY <2>2, <2>3
<1>4. p + q \in Nat /\ (p + q) + Len(g) <= Len(B)
  BY <1>1, <1>2
<1>. QED  BY <1>1, <1>2, <1>3, <1>4 DEF Lies

\* Two parts, one behind the other.
LEMMA LiesParts ==
  ASSUME NEW E, NEW a \in Seq(E), NEW b \in Seq(E), NEW B, NEW p, Lies(B, p, a \o b)
  PROVE  Lies(B, p, a) /\ Lies(B, p + Len(a), b)
<1>1. Lies(a \o b, Len(a), b)
  BY LiesBehind
<1>2. Lies(a, 0, a)
  <2>1. Len(a) \in Nat
    BY LenProperties
  <2>2. \A j \in 1 .. Len(a) : a[0 + j] = a[j]
    OBVIOUS
  <2>. QED  BY <2>1, <2>2 DEF Lies
<1>3. Lies(a \o b, 0, a)
  BY <1>2, LiesStill
<1>4. Lies(B, p + 0, a)
  BY <1>3, LiesWithin
<1>5. p + 0 = p
  BY DEF Lies
<1>6. Lies(B, p + Len(a), b)
  BY <1>1, LiesWithin
<1>. QED  BY <1>4, <1>5, <1>6

\* Joined parts are a sequence of what the parts are sequences of.
LEMMA JoinedType ==
  ASSUME NEW S, NEW E, NEW m \in Nat, \A j \in 1 .. m : S[j] \in Seq(E), NEW n \in 0 .. m
  PROVE  Joined(S, n) \in Seq(E) /\ Len(Joined(S, n)) \in Nat
<1>. DEFINE T == {k \in Nat : k <= m => Joined(S, k) \in Seq(E)}
<1>1. 0 \in T
  BY JoinedNone, EmptySeq
<1>2. ASSUME NEW k \in T PROVE k + 1 \in T
  <2>. SUFFICES ASSUME k + 1 <= m PROVE Joined(S, k + 1) \in Seq(E)
    BY <1>2
  <2>1. k \in Nat /\ k <= m
    BY <1>2
  <2>2. \A j \in 1 .. k + 1 : S[j] \in Seq(E)
    BY <2>1
  <2>3. Joined(S, k + 1) = Joined(S, k) \o S[k + 1]
    BY <2>1, <2>2, JoinedMore
  <2>4. Joined(S, k) \in Seq(E) /\ S[k + 1] \in Seq(E)
    BY <1>2, <2>1, <2>2
  <2>. QED  BY <2>3, <2>4, ConcatProperties
<1>3. n \in T
  <2>1. T \subseteq Nat
    OBVIOUS
  <2>. HIDE DEF T
  <2>2. T = Nat
    BY <1>1, <1>2, <2>1, Induction
  <2>. QED  BY <2>2
<1>4. Joined(S, n) \in Seq(E)
  BY <1>3
<1>. QED  BY <1>4, LenProperties

\* Each element lies behind those before it, and stays there.
LEMMA JoinedLies ==
  ASSUME NEW S, NEW E, NEW m \in Nat, \A j \in 1 .. m : S[j] \in Seq(E), NEW n \in 0 .. m - 1
  PROVE  /\ Len(Joined(S, n + 1)) = Len(Joined(S, n)) + Len(S[n + 1])
         /\ Lies(Joined(S, m), Len(Joined(S, n)), S[n + 1])
<1>. DEFINE p == Len(Joined(S, n))
            f == S[n + 1]
            T == {k \in Nat : n + 1 + k <= m => Lies(Joined(S, n + 1 + k), p, f)}
<1>1. n \in Nat /\ n + 1 \in 0 .. m /\ n \in 0 .. m /\ f \in Seq(E)
  OBVIOUS
<1>2. Joined(S, n) \in Seq(E) /\ Joined(S, n + 1) = Joined(S, n) \o f
  <2>1. \A j \in 1 .. n + 1 : S[j] \in Seq(E)
    BY <1>1
  <2>. QED  BY <1>1, <2>1, JoinedMore, JoinedType
<1>. HIDE DEF f
<1>3. Len(Joined(S, n + 1)) = p + Len(f)
  BY <1>1, <1>2, ConcatProperties
<1>4. 0 \in T
  <2>1. Lies(Joined(S, n) \o f, p, f)
    BY <1>1, <1>2, LiesBehind
  <2>2. n + 1 + 0 = n + 1
    BY <1>1
  <2>. HIDE DEF p
  <2>. QED  BY <1>2, <2>1, <2>2
<1>. HIDE DEF p
<1>5. ASSUME NEW k \in T PROVE k + 1 \in T
  <2>. SUFFICES ASSUME n + 1 + (k + 1) <= m PROVE Lies(Joined(S, n + 1 + (k + 1)), p, f)
    BY <1>5
  <2>1. PICK l \in Nat : l = n + 1 + k
    BY <1>1, <1>5
  <2>2. l + 1 = n + 1 + (k + 1) /\ l \in 0 .. m /\ l + 1 <= m /\ l <= m
    BY <1>1, <1>5, <2>1
  <2>3. Lies(Joined(S, l), p, f)
    BY <1>5, <2>1, <2>2
  <2>4. \A j \in 1 .. l + 1 : S[j] \in Seq(E)
    BY <2>2
  <2>5. Joined(S, l + 1) = Joined(S, l) \o S[l + 1]
    BY <2>4, JoinedMore
  <2>6. Joined(S, l) \in Seq(E) /\ S[l + 1] \in Seq(E)
    <3>1. Joined(S, l) \in Seq(E)
      BY <2>2, JoinedType
    <3>. QED  BY <2>4, <3>1
  <2>7. Lies(Joined(S, l) \o S[l + 1], p, f)
    BY <2>3, <2>6, LiesStill
  <2>. QED  BY <2>2, <2>5, <2>7
<1>6. Lies(Joined(S, m), p, f)
  <2>1. T \subseteq Nat
    OBVIOUS
  <2>2. PICK k \in Nat : n + 1 + k = m
    <3>1. m - (n + 1) \in Nat /\ n + 1 + (m - (n + 1)) = m
      BY <1>1
    <3>. QED  BY <3>1
  <2>. HIDE DEF T
  <2>3. T = Nat
    BY <1>4, <1>5, <2>1, Induction
  <2>4. k \in T
    BY <2>3
  <2>5. n + 1 + k <= m
    BY <1>1, <2>2
  <2>6. Lies(Joined(S, n + 1 + k), p, f)
    BY <2>4, <2>5 DEF T
  <2>. QED  BY <2>2, <2>6
<1>. QED  BY <1>3, <1>6 DEF p, f

\* The places only move on.
LEMMA JoinedGrows ==
  ASSUME NEW S, NEW E, NEW m \in Nat, \A j \in 1 .. m : S[j] \in Seq(E),
         NEW n \in 0 .. m, NEW l \in 0 .. m, n <= l
  PROVE  Len(Joined(S, n)) <= Len(Joined(S, l))
<1>. DEFINE J(k) == Len(Joined(S, k))
            T == {k \in Nat : n + k <= m => J(n) <= J(n + k)}
<1>1. \A k \in 0 .. m : J(k) \in Nat
  BY JoinedType
<1>2. \A k \in 0 .. m - 1 : J(k) <= J(k + 1)
  <2>. SUFFICES ASSUME NEW k \in 0 .. m - 1 PROVE J(k) <= J(k + 1)
    OBVIOUS
  <2>1. J(k + 1) = J(k) + Len(S[k + 1])
    BY JoinedLies
  <2>2. J(k) \in Nat /\ Len(S[k + 1]) \in Nat
    <3>1. k + 1 \in 1 .. m /\ k \in 0 .. m
      OBVIOUS
    <3>2. S[k + 1] \in Seq(E)
      BY <3>1
    <3>. QED  BY <1>1, <3>1, <3>2, LenProperties
  <2>. HIDE DEF J
  <2>. QED  BY <2>1, <2>2
<1>. HIDE DEF J
<1>3. 0 \in T
  BY <1>1
<1>4. ASSUME NEW k \in T PROVE k + 1 \in T
  <2>. SUFFICES ASSUME n + (k + 1) <= m PROVE J(n) <= J(n + (k + 1))
    BY <1>4
  <2>1. PICK q \in Nat : q = n + k
    BY <1>4
  <2>2. q + 1 = n + (k + 1) /\ q \in 0 .. m - 1 /\ q \in 0 .. m /\ q + 1 \in 0 .. m /\ n + k <= m
    BY <1>4, <2>1
  <2>3. J(n) <= J(q)
    BY <1>4, <2>1, <2>2
  <2>4. J(q) <= J(q + 1) /\ J(q) \in Nat /\ J(q + 1) \in Nat /\ J(n) \in Nat
    BY <1>1, <1>2, <2>2
  <2>. QED  BY <2>2, <2>3, <2>4
<1>5. J(n) <= J(l)
  <2>1. T \subseteq Nat
    OBVIOUS
  <2>2. PICK k \in Nat : n + k = l
    <3>1. l - n \in Nat /\ n + (l - n) = l
      OBVIOUS
    <3>. QED  BY <3>1
  <2>. HIDE DEF T
  <2>3. T = Nat
    BY <1>3, <1>4, <2>1, Induction
  <2>4. k \in T
    BY <2>3
  <2>5. n + k <= m
    BY <2>2
  <2>6. J(n) <= J(n + k)
    BY <2>4, <2>5 DEF T
  <2>. QED  BY <2>2, <2>6
<1>. QED  BY <1>5 DEF J

(***************************************************************************)
(* The invariant of the reader                                             *)
(***************************************************************************)

CohortsBytes(cs) == [k \in DOMAIN cs |-> CohortBytes(cs[k])]
Records(c)       == [w \in DOMAIN c.outputs |-> OutputRecord(c.outputs[w])]

\* Where a cohort starts in the stream, and an output in its cohort.
Off(cs, n)   == Len(Joined(CohortsBytes(cs), n))
RecOff(c, w) == 20 + Len(Joined(Records(c), w))

\* Where in an output the field is that is read at a place of read_next.
FieldOff(o, at) ==
  CASE at = "so_len"   -> 0
    [] at = "so"       -> 8
    [] at = "status"   -> 8 + Len(o.so)
    [] at = "ndecoded" -> 12 + Len(o.so)
    [] at = "len"      -> 14 + Len(o.so)
    [] at = "result"   -> 16 + Len(o.so)

Fields == {"so_len", "so", "status", "ndecoded", "len", "result"}

\* What has been assigned of an output there.
Partly(o, at) ==
  [workerno |-> Unread,
   so       |-> IF at \in {"so_len", "so"} THEN <<>> ELSE o.so,
   status   |-> IF at \in {"so_len", "so", "status"} THEN 0 ELSE o.status,
   ndecoded |-> IF at \in {"len", "result"} THEN o.ndecoded ELSE 0,
   len      |-> 0,
   result   |-> <<>>]

\* All of it, with this text.
Told(o, text) ==
  [workerno |-> Unread, so |-> o.so, status |-> o.status, ndecoded |-> o.ndecoded,
   len |-> Len(o.result), result |-> text]

Whole(o) == Told(o, o.result)

\* The outputs before w are whole, w is x, the others have not been begun.
Gathered(c, input, w, x) ==
  [nworkers |-> Len(c.outputs), input |-> input,
   outputs |-> [v \in 1 .. Len(c.outputs) |->
     IF v < w THEN Whole(c.outputs[v]) ELSE IF v = w THEN x ELSE NoOutput]]

Zeros(n) == [k \in 1 .. n |-> 0]

\* The last text of c is cut after k bytes.
GatheredCut(c, k) ==
  LET W == Len(c.outputs)
      o == c.outputs[W]
  IN  Gathered(c, InputSlot(c.input), W,
        Told(o, SubSeq(o.result, 1, k) \o Zeros(Len(o.result) - k)))

\* The printed line of a cohort, and of one that is cut.
LineOf(c) == [input |-> Hexbuf(c.input), outputs |-> [w \in 1 .. Len(c.outputs) |-> Whole(c.outputs[w])]]

LineCut(c, k) ==
  [input |-> Hexbuf(c.input),
   outputs |-> [w \in 1 .. Len(c.outputs) |->
     LET o == c.outputs[w]
     IN  IF w = Len(c.outputs) THEN Told(o, SubSeq(o.result, 1, k)) ELSE Whole(o)]]

CutsOf(c) == 1 .. Len(c.outputs[Len(c.outputs)].result) - 1

PrintedOutput ==
  [workerno : {Unread}, so : {s \in Seq(Byte) : PlainName(s)}, status : Nat, ndecoded : Nat,
   len : Nat, result : Seq(Byte)]
PrintedLine == [input : Seq(Int), outputs : Seq(PrintedOutput)]

Arrived ==
  /\ campaign \in Campaigns
  /\ Len(stream) \in 0 .. Len(Stream(campaign))
  /\ stream = SubSeq(Stream(campaign), 1, Len(stream))

PrintedUpTo(n) ==
  /\ printed \in Seq(PrintedLine) /\ Len(printed) >= n
  /\ \A k \in 1 .. n : printed[k] = LineOf(campaign[k])

\* read_next is in cohort n + 1, and all before it in the stream was read.
Fine(n) ==
  /\ n \in 0 .. Len(campaign) - 1 /\ Len(printed) = n
  /\ ~m_finished_parsing /\ pos <= Len(stream)

AtCohort(n) == pc \in {"main", "nworkers"} /\ pos = Off(campaign, n)

AtInput(n) ==
  /\ pc = "input" /\ pos = Off(campaign, n) + 4
  /\ results = Gathered(campaign[n + 1], <<>>, 0, NoOutput)

AtField(n) ==
  LET c == campaign[n + 1]
      o == c.outputs[i + 1]
  IN  /\ pc \in Fields /\ i \in 0 .. Len(c.outputs) - 1
      /\ pos = Off(campaign, n) + RecOff(c, i) + FieldOff(o, pc)
      /\ results = Gathered(c, InputSlot(c.input), i + 1, Partly(o, pc))
      /\ pc = "so" => string_length = Len(o.so)
      /\ pc = "result" => string_length = Len(o.result)

AtPrint(n) ==
  LET c == campaign[n + 1]
  IN  /\ pc = "print" /\ pos = Off(campaign, n + 1)
      /\ results = Gathered(c, InputSlot(c.input), Len(c.outputs) + 1, NoOutput)

Reading(n) == Fine(n) /\ (AtCohort(n) \/ AtInput(n) \/ AtField(n) \/ AtPrint(n))

\* The stream ends in cohort n + 1.
EndsIn(n) ==
  /\ n \in 0 .. Len(campaign) /\ Off(campaign, n) <= Len(stream)
  /\ n < Len(campaign) => Len(stream) < Off(campaign, n + 1)

\* All cohorts before were printed, and this one at most with its last text cut.
PrintedAll(n) ==
  \/ Len(printed) = n
  \/ /\ Len(printed) = n + 1 /\ n < Len(campaign)
     /\ \E k \in CutsOf(campaign[n + 1]) : printed[n + 1] = LineCut(campaign[n + 1], k)

\* m_fread will see that the stream is over before anything is printed.
WillSee ==
  /\ pos = Len(stream)
  /\ pc \in {"main", "nworkers", "input", "so_len", "status", "ndecoded", "len"}

\* The end was just behind the first bytes of the last text.
AtCut(n) ==
  /\ pos = Len(stream) /\ pc = "print" /\ Len(printed) = n /\ n < Len(campaign)
  /\ \E k \in CutsOf(campaign[n + 1]) : results = GatheredCut(campaign[n + 1], k)

NoMore(n) == EndsIn(n) /\ PrintedAll(n) /\ (m_finished_parsing \/ WillSee \/ AtCut(n))

ReaderInv ==
  /\ Arrived
  /\ \E n \in 0 .. Len(campaign) : PrintedUpTo(n) /\ (Reading(n) \/ NoMore(n))

DocumentInv ==
  /\ mode \in {"JSON", "JSONL"} /\ Len(printed) \in Nat
  /\ pc = "main" => document = <<>> /\ printed = <<>>
  /\ pc \notin {"main", "done"} =>
       document = IF mode = "JSON" THEN <<"[">> \o Elements(Len(printed)) ELSE Lines(Len(printed))
  /\ pc = "done" =>
       document = IF mode = "JSON" THEN <<"[">> \o Elements(Len(printed)) \o <<"]">>
                  ELSE Lines(Len(printed))

(***************************************************************************)
(* Types and places of what a campaign consists of                         *)
(***************************************************************************)

OutputOK(o) ==
  /\ o.so \in Seq(Byte) /\ PlainName(o.so) /\ o.result \in Seq(Byte) /\ CText(o.result)
  /\ o.status \in Nat /\ o.ndecoded \in Nat

CohortOK(c) ==
  /\ c.input \in Seq(Byte) /\ Len(c.input) <= INSN_MAXLEN
  /\ Len(c.outputs) \in Nat /\ Len(c.outputs) > 0 /\ DOMAIN c.outputs = 1 .. Len(c.outputs)
  /\ \A w \in 1 .. Len(c.outputs) : OutputOK(c.outputs[w])

LEMMA MaxIsNat == UINT16_MAX \in Nat
BY DEF UINT16_MAX

\* The cohorts of a campaign are such as process() writes.
LEMMA CampaignType ==
  ASSUME NEW cs \in Campaigns
  PROVE  Len(cs) \in Nat /\ DOMAIN cs = 1 .. Len(cs) /\ \A k \in 1 .. Len(cs) : CohortOK(cs[k])
<1>1. cs \in Seq(Cohort)
  BY Mish2JsonlAssumption
<1>2. Len(cs) \in Nat /\ DOMAIN cs = 1 .. Len(cs) /\ \A k \in 1 .. Len(cs) : cs[k] \in Cohort
  BY <1>1, LenProperties, ElementOfSeq
<1>3. ASSUME NEW k \in 1 .. Len(cs) PROVE CohortOK(cs[k])
  <2>. DEFINE c == cs[k]
  <2>1. c.input \in Seq(Byte) /\ c.outputs \in Seq(Output)
    BY <1>2 DEF Cohort
  <2>2. /\ Len(c.input) <= INSN_MAXLEN /\ Len(c.outputs) \in 1 .. UINT16_MAX
        /\ \A w \in DOMAIN c.outputs : PlainName(c.outputs[w].so) /\ CText(c.outputs[w].result)
    BY <1>2, Mish2JsonlAssumption
  <2>. HIDE DEF c
  <2>3. Len(c.outputs) > 0
    BY <2>2, MaxIsNat
  <2>4. /\ Len(c.outputs) \in Nat /\ DOMAIN c.outputs = 1 .. Len(c.outputs)
        /\ \A w \in 1 .. Len(c.outputs) : c.outputs[w] \in Output
    BY <2>1, LenProperties, ElementOfSeq
  <2>5. ASSUME NEW w \in 1 .. Len(c.outputs) PROVE OutputOK(c.outputs[w])
    <3>1. c.outputs[w] \in Output /\ w \in DOMAIN c.outputs
      BY <2>4
    <3>2. /\ c.outputs[w].so \in Seq(Byte) /\ c.outputs[w].result \in Seq(Byte)
          /\ c.outputs[w].status \in Status /\ c.outputs[w].ndecoded \in 0 .. UINT16_MAX
      BY <3>1 DEF Output
    <3>3. c.outputs[w].status \in Nat
      BY <3>2 DEF Status
    <3>4. c.outputs[w].ndecoded \in Nat
      BY <3>2, MaxIsNat
    <3>. QED  BY <2>2, <3>1, <3>2, <3>3, <3>4 DEF OutputOK
  <2>6. CohortOK(c)
    BY <2>1, <2>2, <2>3, <2>4, <2>5 DEF CohortOK
  <2>. QED  BY <2>6 DEF c
<1>. QED  BY <1>2, <1>3

\* Two bytes hold the number they were made of.
LEMMA LowAndHigh ==
  ASSUME NEW n \in Nat
  PROVE  n % 256 \in Int /\ n \div 256 \in Int /\ (n % 256) + 256 * (n \div 256) = n
OBVIOUS

\* A number takes its bytes, and is read from them.
LEMMA NumberType ==
  ASSUME NEW n \in Nat, NEW size \in Nat
  PROVE  Number(n, size) \in Seq(Int) /\ Len(Number(n, size)) = size
<1>. DEFINE f == Number(n, size)
<1>1. f = [k \in 1 .. size |-> f[k]] /\ \A k \in 1 .. size : f[k] \in Int
  BY LowAndHigh DEF Number
<1>. HIDE DEF f
<1>2. f \in Seq(Int) /\ Len(f) = size
  BY <1>1
<1>. QED  BY <1>2 DEF f

LEMMA OverNumber ==
  ASSUME NEW n \in Nat, NEW size \in Nat, size >= 2, NEW old
  PROVE  Over(Number(n, size), old) = n
<1>. DEFINE f == Number(n, size)
<1>1. f[1] = n % 256 /\ f[2] = n \div 256
  BY DEF Number
<1>2. 1 <= Len(f) /\ 2 <= Len(f)
  BY NumberType
<1>. HIDE DEF f
<1>3. Over(f, old) = f[1] + 256 * f[2]
  BY <1>2 DEF Over
<1>. QED  BY <1>1, <1>3, LowAndHigh DEF f

\* The input is read from its slot.
LEMMA SlotType ==
  ASSUME NEW input \in Seq(Byte), Len(input) <= INSN_MAXLEN
  PROVE  LET slot == InputSlot(input)
         IN  /\ slot \in Seq(Int) /\ Len(slot) = 16
             /\ SubSeq(slot, 2, slot[1] + 1) = input
<1>. DEFINE slot == InputSlot(input)
            l == Len(input)
            raw == [k \in 1 .. INSN_MAXLEN |-> IF k <= l THEN input[k] ELSE 255]
            part == SubSeq(slot, 2, l + 1)
<1>1. l \in Nat /\ l <= 15 /\ (\A k \in 1 .. l : input[k] \in Byte) /\ input \in Seq(Int)
  <2>1. l \in Nat /\ \A k \in 1 .. l : input[k] \in Byte
    BY LenProperties, ElementOfSeq
  <2>2. input = [k \in 1 .. l |-> input[k]] /\ \A k \in 1 .. l : input[k] \in Int
    BY <2>1, BytesAreInts
  <2>3. input \in Seq(Int)
    BY <2>1, <2>2
  <2>. QED  BY <2>1, <2>3 DEF INSN_MAXLEN
<1>2. raw \in Seq(Int) /\ Len(raw) = 15 /\ \A k \in 1 .. l : raw[k] = input[k]
  <2>1. raw = [k \in 1 .. 15 |-> raw[k]] /\ \A k \in 1 .. 15 : raw[k] \in Int
    BY <1>1, BytesAreInts DEF INSN_MAXLEN
  <2>2. \A k \in 1 .. l : raw[k] = input[k]
    BY <1>1 DEF INSN_MAXLEN
  <2>. HIDE DEF raw
  <2>3. PICK m \in Nat : m = 15
    OBVIOUS
  <2>4. raw \in Seq(Int) /\ Len(raw) = m
    BY <2>1, <2>3
  <2>. QED  BY <2>2, <2>3, <2>4
<1>. DEFINE one == <<l>>
<1>3. one \in Seq(Int) /\ Len(one) = 1 /\ one[1] = l
  BY <1>1
<1>4. slot = one \o raw
  BY DEF InputSlot
<1>. HIDE DEF raw, one
<1>5. /\ slot \in Seq(Int) /\ Len(slot) = Len(one) + Len(raw)
      /\ \A k \in 1 .. Len(one) + Len(raw) :
           slot[k] = IF k <= Len(one) THEN one[k] ELSE raw[k - Len(one)]
  <2>. DEFINE both == one \o raw
  <2>. HIDE DEF slot
  <2>1. one \in Seq(Int) /\ raw \in Seq(Int)
    BY <1>2, <1>3
  <2>2. /\ both \in Seq(Int) /\ Len(both) = Len(one) + Len(raw)
        /\ \A k \in 1 .. Len(one) + Len(raw) :
             both[k] = IF k <= Len(one) THEN one[k] ELSE raw[k - Len(one)]
    BY <2>1, ConcatProperties
  <2>3. slot = both
    BY <1>4
  <2>. HIDE DEF both, slot
  <2>. QED  BY <2>2, <2>3
<1>. HIDE DEF slot
<1>6. /\ slot \in Seq(Int) /\ Len(slot) = 16 /\ slot[1] = l
      /\ \A k \in 2 .. 16 : slot[k] = raw[k - 1]
  <2>1. Len(one) + Len(raw) = 16
    BY <1>2, <1>3
  <2>2. \A k \in 1 .. 16 : slot[k] = IF k <= 1 THEN one[k] ELSE raw[k - 1]
    BY <1>3, <1>5, <2>1
  <2>3. slot[1] = l
    BY <1>3, <2>2
  <2>. QED  BY <1>5, <2>1, <2>2, <2>3
<1>7. /\ part \in Seq(Int) /\ Len(part) = l /\ \A k \in 1 .. l : part[k] = slot[k + 1]
  <2>. DEFINE m == l + 1
              d == SubSeq(slot, 2, m)
  <2>1. m \in Int /\ m <= 16 /\ m >= 1 /\ \A k \in 2 .. m : slot[k] \in Int
    <3>1. m \in Int /\ m <= 16 /\ m >= 1
      BY <1>1
    <3>2. \A k \in 1 .. 16 : slot[k] \in Int
      BY <1>6, ElementOfSeq
    <3>. HIDE DEF m
    <3>3. ASSUME NEW k \in 2 .. m PROVE slot[k] \in Int
      <4>1. k \in 1 .. 16
        BY <3>1
      <4>. QED  BY <3>2, <4>1
    <3>. QED  BY <3>1, <3>3
  <2>. HIDE DEF m
  <2>2. /\ d \in Seq(Int) /\ Len(d) = (IF 2 <= m THEN m - 2 + 1 ELSE 0)
        /\ \A k \in 1 .. m - 2 + 1 : d[k] = slot[2 + k - 1]
    BY <2>1, SubSeqProperties
  <2>3. d = part
    BY DEF m
  <2>. HIDE DEF d, part
  <2>4. Len(d) = l /\ \A k \in 1 .. l : d[k] = slot[k + 1]
    BY <1>1, <2>1, <2>2 DEF m
  <2>. QED  BY <2>2, <2>3, <2>4
<1>. HIDE DEF part
<1>8. \A k \in 1 .. Len(part) : part[k] = input[k]
  <2>. SUFFICES ASSUME NEW k \in 1 .. l PROVE part[k] = input[k]
    BY <1>7
  <2>1. PICK j \in Nat : j = k + 1
    BY <1>1
  <2>2. j \in 2 .. 16 /\ j - 1 = k
    BY <1>1, <2>1
  <2>3. part[k] = slot[j] /\ slot[j] = raw[k] /\ raw[k] = input[k]
    BY <1>2, <1>6, <1>7, <2>1, <2>2
  <2>. QED  BY <2>3
<1>9. part = input
  BY <1>1, <1>7, <1>8, SeqEqual
<1>. QED  BY <1>6, <1>9 DEF part, slot

\* The numbers and texts of an output.
LEMMA FourParts == ASSUME NEW o, OutputOK(o)
  PROVE  /\ o.so \in Seq(Int) /\ o.result \in Seq(Int)
         /\ Len(o.so) \in Nat /\ Len(o.result) \in Nat /\ o.status \in Nat /\ o.ndecoded \in Nat
<1>1. \A s \in Seq(Byte) : s \in Seq(Int) /\ Len(s) \in Nat
  <2>. SUFFICES ASSUME NEW s \in Seq(Byte) PROVE s \in Seq(Int) /\ Len(s) \in Nat
    OBVIOUS
  <2>1. Len(s) \in Nat /\ (\A k \in 1 .. Len(s) : s[k] \in Byte) /\ s = [k \in 1 .. Len(s) |-> s[k]]
    BY LenProperties, ElementOfSeq
  <2>2. \A k \in 1 .. Len(s) : s[k] \in Int
    BY <2>1, BytesAreInts
  <2>. QED  BY <2>1, <2>2
<1>. QED  BY <1>1 DEF OutputOK

\* Where the fields of an output are.
LEMMA RecordLies ==
  ASSUME NEW o, OutputOK(o)
  PROVE  /\ OutputRecord(o) \in Seq(Int)
         /\ Len(OutputRecord(o)) = 16 + Len(o.so) + Len(o.result)
         /\ \A B, p : Lies(B, p, OutputRecord(o)) =>
              /\ Lies(B, p, Number(Len(o.so), 8))
              /\ Lies(B, p + 8, o.so)
              /\ Lies(B, p + (8 + Len(o.so)), Number(o.status, 4))
              /\ Lies(B, p + (12 + Len(o.so)), Number(o.ndecoded, 2))
              /\ Lies(B, p + (14 + Len(o.so)), Number(Len(o.result), 2))
              /\ Lies(B, p + (16 + Len(o.so)), o.result)
<1>. DEFINE ls == Len(o.so)
            a == Number(ls, 8)
            b == a \o o.so
            d == Number(o.status, 4)
            e == b \o d
            f == Number(o.ndecoded, 2)
            g == e \o f
            h == Number(Len(o.result), 2)
            k == g \o h
            r == k \o o.result
<1>1. /\ o.so \in Seq(Int) /\ o.result \in Seq(Int)
      /\ ls \in Nat /\ Len(o.result) \in Nat /\ o.status \in Nat /\ o.ndecoded \in Nat
  BY FourParts
<1>2. /\ a \in Seq(Int) /\ Len(a) = 8 /\ d \in Seq(Int) /\ Len(d) = 4
      /\ f \in Seq(Int) /\ Len(f) = 2 /\ h \in Seq(Int) /\ Len(h) = 2
  BY <1>1, NumberType
<1>. HIDE DEF a, d, f, h
<1>3. b \in Seq(Int) /\ Len(b) = Len(a) + ls
  BY <1>1, <1>2, ConcatProperties
<1>. HIDE DEF b
<1>4. e \in Seq(Int) /\ Len(e) = Len(b) + Len(d)
  BY <1>2, <1>3, ConcatProperties
<1>. HIDE DEF e
<1>5. g \in Seq(Int) /\ Len(g) = Len(e) + Len(f)
  BY <1>2, <1>4, ConcatProperties
<1>. HIDE DEF g
<1>6. k \in Seq(Int) /\ Len(k) = Len(g) + Len(h)
  BY <1>2, <1>5, ConcatProperties
<1>. HIDE DEF k
<1>7. r \in Seq(Int) /\ Len(r) = Len(k) + Len(o.result)
  <2>. DEFINE t == o.result
  <2>1. t \in Seq(Int)
    BY <1>1
  <2>. HIDE DEF t
  <2>2. k \o t \in Seq(Int) /\ Len(k \o t) = Len(k) + Len(t)
    BY <1>6, <2>1, ConcatProperties
  <2>. QED  BY <2>2 DEF t
<1>8. OutputRecord(o) = r
  BY DEF OutputRecord, a, b, d, e, f, g, h, k
<1>9. /\ Len(b) = 8 + ls /\ Len(e) = 12 + ls /\ Len(g) = 14 + ls /\ Len(k) = 16 + ls
      /\ Len(r) = 16 + ls + Len(o.result)
  <2>. HIDE DEF ls, r
  <2>1. Len(b) = 8 + ls /\ ls \in Nat
    BY <1>1, <1>2, <1>3
  <2>2. Len(e) = 12 + ls
    BY <1>2, <1>4, <2>1
  <2>3. Len(g) = 14 + ls
    BY <1>2, <1>5, <2>1, <2>2
  <2>4. Len(k) = 16 + ls
    BY <1>2, <1>6, <2>1, <2>3
  <2>. QED  BY <1>7, <2>1, <2>2, <2>3, <2>4
<1>10. ASSUME NEW B, NEW p, Lies(B, p, r)
       PROVE  /\ Lies(B, p, a) /\ Lies(B, p + 8, o.so) /\ Lies(B, p + (8 + ls), d)
              /\ Lies(B, p + (12 + ls), f) /\ Lies(B, p + (14 + ls), h)
              /\ Lies(B, p + (16 + ls), o.result)
  <2>1. Lies(B, p, k) /\ Lies(B, p + Len(k), o.result)
    BY <1>1, <1>6, <1>10, LiesParts
  <2>2. Lies(B, p, g) /\ Lies(B, p + Len(g), h)
    BY <1>2, <1>5, <2>1, LiesParts DEF k
  <2>3. Lies(B, p, e) /\ Lies(B, p + Len(e), f)
    BY <1>2, <1>4, <2>2, LiesParts DEF g
  <2>4. Lies(B, p, b) /\ Lies(B, p + Len(b), d)
    BY <1>2, <1>3, <2>3, LiesParts DEF e
  <2>5. Lies(B, p, a) /\ Lies(B, p + Len(a), o.so)
    BY <1>1, <1>2, <2>4, LiesParts DEF b
  <2>. QED  BY <1>2, <1>9, <2>1, <2>2, <2>3, <2>4, <2>5
<1>. HIDE DEF r
<1>. QED  BY <1>7, <1>8, <1>9, <1>10 DEF a, d, f, h

\* The records of a cohort.
LEMMA RecordsType ==
  ASSUME NEW c, CohortOK(c)
  PROVE  LET W == Len(c.outputs)
         IN  /\ W \in Nat /\ Joined(Records(c), 0) = <<>>
             /\ \A w \in 1 .. W : Records(c)[w] \in Seq(Int) /\ Records(c)[w] = OutputRecord(c.outputs[w])
             /\ \A w \in 0 .. W : Joined(Records(c), w) \in Seq(Int) /\ RecOff(c, w) \in Nat
             /\ FlattenSeq([w \in DOMAIN c.outputs |-> OutputRecord(c.outputs[w])])
                  = Joined(Records(c), W)
<1>. DEFINE W == Len(c.outputs)
            S == Records(c)
<1>1. W \in Nat /\ DOMAIN c.outputs = 1 .. W /\ \A w \in 1 .. W : OutputOK(c.outputs[w])
  BY DEF CohortOK
<1>. HIDE DEF W
<1>2. S = [w \in 1 .. W |-> OutputRecord(c.outputs[w])]
  BY <1>1 DEF Records
<1>. HIDE DEF S
<1>3. \A w \in 1 .. W : S[w] = OutputRecord(c.outputs[w])
  BY <1>2
<1>4. \A w \in 1 .. W : S[w] \in Seq(Int)
  BY <1>1, <1>3, RecordLies
<1>5. \A w \in 0 .. W : Joined(S, w) \in Seq(Int) /\ Len(Joined(S, w)) \in Nat
  BY <1>1, <1>4, JoinedType
<1>6. \A w \in 0 .. W : RecOff(c, w) \in Nat
  BY <1>5 DEF RecOff, S
<1>7. FlattenSeq([w \in DOMAIN c.outputs |-> OutputRecord(c.outputs[w])]) = Joined(S, W)
  <2>1. S = [w \in 1 .. W |-> S[w]]
    BY <1>2
  <2>. QED  BY <1>1, <1>2, <2>1 DEF Joined
<1>8. Joined(S, 0) = <<>>
  BY JoinedNone
<1>. QED  BY <1>1, <1>3, <1>4, <1>5, <1>6, <1>7, <1>8 DEF W, S

\* Where one output ends the next begins.
LEMMA NextRecord ==
  ASSUME NEW c, CohortOK(c)
  PROVE  /\ RecOff(c, 0) = 20
         /\ \A w \in 0 .. Len(c.outputs) - 1 :
              /\ RecOff(c, w) \in Nat
              /\ RecOff(c, w + 1)
                   = RecOff(c, w) + 16 + Len(c.outputs[w + 1].so) + Len(c.outputs[w + 1].result)
              /\ Lies(Joined(Records(c), Len(c.outputs)), Len(Joined(Records(c), w)),
                      OutputRecord(c.outputs[w + 1]))
<1>. DEFINE W == Len(c.outputs)
            S == Records(c)
<1>1. /\ W \in Nat /\ Joined(S, 0) = <<>> /\ \A w \in 0 .. W : Len(Joined(S, w)) \in Nat
      /\ \A w \in 1 .. W : S[w] \in Seq(Int) /\ S[w] = OutputRecord(c.outputs[w])
  <2>1. \A w \in 0 .. W : Joined(S, w) \in Seq(Int)
    BY RecordsType
  <2>. HIDE DEF W, S
  <2>2. \A w \in 0 .. W : Len(Joined(S, w)) \in Nat
    BY <2>1, LenProperties
  <2>. QED  BY <2>2, RecordsType DEF W, S
<1>. HIDE DEF S
<1>2. RecOff(c, 0) = 20
  <2>1. Len(Joined(S, 0)) = 0
    BY <1>1
  <2>. QED  BY <2>1 DEF RecOff, S
<1>3. ASSUME NEW w \in 0 .. W - 1
      PROVE  /\ RecOff(c, w) \in Nat
             /\ RecOff(c, w + 1)
                  = RecOff(c, w) + 16 + Len(c.outputs[w + 1].so) + Len(c.outputs[w + 1].result)
             /\ Lies(Joined(S, W), Len(Joined(S, w)), OutputRecord(c.outputs[w + 1]))
  <2>. DEFINE o == c.outputs[w + 1]
  <2>1. w + 1 \in 1 .. W /\ w \in 0 .. W
    BY <1>1
  <2>2. OutputOK(o)
    BY <2>1 DEF CohortOK
  <2>3. /\ Len(Joined(S, w + 1)) = Len(Joined(S, w)) + Len(S[w + 1])
        /\ Lies(Joined(S, W), Len(Joined(S, w)), S[w + 1])
    <3>1. \A v \in 1 .. W : S[v] \in Seq(Int)
      BY <1>1
    <3>. HIDE DEF W
    <3>. QED  BY <1>1, <3>1, JoinedLies
  <2>4. S[w + 1] = OutputRecord(o)
    BY <1>1, <2>1
  <2>. HIDE DEF o
  <2>5. /\ Len(OutputRecord(o)) = 16 + Len(o.so) + Len(o.result)
        /\ Len(o.so) \in Nat /\ Len(o.result) \in Nat
    BY <2>2, RecordLies, FourParts
  <2>6. RecOff(c, w) = 20 + Len(Joined(S, w)) /\ RecOff(c, w + 1) = 20 + Len(Joined(S, w + 1))
    BY DEF RecOff, S
  <2>7. RecOff(c, w + 1) = RecOff(c, w) + 16 + Len(o.so) + Len(o.result) /\ RecOff(c, w) \in Nat
    <3>1. Len(Joined(S, w)) \in Nat
      BY <1>1, <2>1
    <3>2. Len(S[w + 1]) = 16 + Len(o.so) + Len(o.result)
      BY <2>4, <2>5
    <3>. DEFINE x == Len(Joined(S, w))
                y == Len(Joined(S, w + 1))
                z == Len(S[w + 1])
                u == Len(o.so)
                v == Len(o.result)
                q == RecOff(c, w)
                t == RecOff(c, w + 1)
    <3>3. y = x + z /\ q = 20 + x /\ t = 20 + y
      BY <2>3, <2>6
    <3>4. x \in Nat /\ z = 16 + u + v /\ u \in Nat /\ v \in Nat
      BY <2>5, <3>1, <3>2
    <3>. HIDE DEF x, y, z, u, v, q, t
    <3>5. t = q + 16 + u + v /\ q \in Nat
      BY <3>3, <3>4
    <3>. QED  BY <3>5 DEF t, q, u, v
  <2>. QED  BY <2>3, <2>4, <2>7 DEF o
<1>. QED  BY <1>2, <1>3 DEF W, S

\* Where the parts of a cohort are.
LEMMA CohortLies ==
  ASSUME NEW c, CohortOK(c)
  PROVE  /\ CohortBytes(c) \in Seq(Int)
         /\ Len(CohortBytes(c)) = RecOff(c, Len(c.outputs))
         /\ \A B, p : Lies(B, p, CohortBytes(c)) =>
              /\ Lies(B, p, Number(Len(c.outputs), 4))
              /\ Lies(B, p + 4, InputSlot(c.input))
              /\ \A w \in 0 .. Len(c.outputs) - 1 :
                   Lies(B, p + RecOff(c, w), OutputRecord(c.outputs[w + 1]))
<1>. DEFINE W == Len(c.outputs)
            a == Number(W, 4)
            b == InputSlot(c.input)
            d == a \o b
            e == Joined(Records(c), W)
            r == d \o e
<1>1. W \in Nat /\ c.input \in Seq(Byte) /\ Len(c.input) <= INSN_MAXLEN
  BY DEF CohortOK
<1>2. /\ a \in Seq(Int) /\ Len(a) = 4 /\ b \in Seq(Int) /\ Len(b) = 16
  BY <1>1, NumberType, SlotType
<1>3. e \in Seq(Int) /\ Len(e) \in Nat
  <2>1. \A w \in 0 .. W : Joined(Records(c), w) \in Seq(Int)
    BY RecordsType
  <2>2. e \in Seq(Int)
    BY <1>1, <2>1
  <2>. HIDE DEF e
  <2>. QED  BY <2>2, LenProperties
<1>4. CohortBytes(c) = r
  BY RecordsType DEF CohortBytes
<1>5. RecOff(c, W) = 20 + Len(e)
  BY DEF RecOff
<1>. HIDE DEF a, b, e, W
<1>6. d \in Seq(Int) /\ Len(d) = Len(a) + Len(b)
  BY <1>2, ConcatProperties
<1>. HIDE DEF d
<1>7. r \in Seq(Int) /\ Len(r) = Len(d) + Len(e)
  BY <1>3, <1>6, ConcatProperties
<1>8. Len(d) = 20
  BY <1>2, <1>6
<1>9. Len(r) = RecOff(c, W)
  <2>. HIDE DEF r
  <2>. QED  BY <1>3, <1>5, <1>7, <1>8
<1>10. ASSUME NEW B, NEW p, Lies(B, p, r)
       PROVE  /\ Lies(B, p, a) /\ Lies(B, p + 4, b)
              /\ \A w \in 0 .. W - 1 : Lies(B, p + RecOff(c, w), OutputRecord(c.outputs[w + 1]))
  <2>1. Lies(B, p, d) /\ Lies(B, p + 20, e)
    BY <1>3, <1>6, <1>8, <1>10, LiesParts
  <2>2. Lies(B, p, a) /\ Lies(B, p + 4, b)
    BY <1>2, <2>1, LiesParts DEF d
  <2>3. ASSUME NEW w \in 0 .. W - 1
        PROVE  Lies(B, p + RecOff(c, w), OutputRecord(c.outputs[w + 1]))
    <3>1. Lies(e, Len(Joined(Records(c), w)), OutputRecord(c.outputs[w + 1]))
      BY NextRecord DEF e, W
    <3>2. Lies(B, (p + 20) + Len(Joined(Records(c), w)), OutputRecord(c.outputs[w + 1]))
      BY <2>1, <3>1, LiesWithin
    <3>3. p \in Nat /\ Len(Joined(Records(c), w)) \in Nat
      BY <2>1, <3>1 DEF Lies
    <3>4. p + RecOff(c, w) = (p + 20) + Len(Joined(Records(c), w))
      BY <3>3 DEF RecOff
    <3>. QED  BY <3>2, <3>4
  <2>. QED  BY <2>2, <2>3
<1>. HIDE DEF r
<1>. QED  BY <1>4, <1>7, <1>9, <1>10 DEF a, b, W

\* Where the cohorts of a campaign are in its stream.
LEMMA StreamIs ==
  ASSUME NEW cs \in Campaigns
  PROVE  /\ Stream(cs) = Joined(CohortsBytes(cs), Len(cs))
         /\ \A n \in 1 .. Len(cs) :
              CohortsBytes(cs)[n] \in Seq(Int) /\ CohortsBytes(cs)[n] = CohortBytes(cs[n])
         /\ \A n \in 0 .. Len(cs) : Len(Stream(SubSeq(cs, 1, n))) = Off(cs, n)
<1>. DEFINE m == Len(cs)
            S == CohortsBytes(cs)
<1>1. m \in Nat /\ DOMAIN cs = 1 .. m /\ \A k \in 1 .. m : CohortOK(cs[k])
  BY CampaignType
<1>. HIDE DEF m
<1>2. S = [k \in 1 .. m |-> CohortBytes(cs[k])]
  BY <1>1 DEF CohortsBytes
<1>. HIDE DEF S
<1>3. \A n \in 1 .. m : S[n] = CohortBytes(cs[n])
  BY <1>2
<1>4. \A n \in 1 .. m : S[n] \in Seq(Int)
  BY <1>1, <1>3, CohortLies
<1>5. Stream(cs) = Joined(S, m)
  <2>1. S = [k \in 1 .. m |-> S[k]]
    BY <1>2
  <2>. QED  BY <1>1, <1>2, <2>1 DEF Joined, Stream
<1>6. ASSUME NEW n \in 0 .. m PROVE Len(Stream(SubSeq(cs, 1, n))) = Off(cs, n)
  <2>. DEFINE d == SubSeq(cs, 1, n)
  <2>1. DOMAIN d = 1 .. n /\ \A k \in 1 .. n : d[k] = cs[k]
    <3>1. cs \in Seq(Cohort)
      BY Mish2JsonlAssumption
    <3>2. \A k \in 1 .. n : cs[k] \in Cohort
      BY <1>1, <3>1, ElementOfSeq DEF m
    <3>3. /\ d \in Seq(Cohort) /\ Len(d) = (IF 1 <= n THEN n - 1 + 1 ELSE 0)
          /\ \A k \in 1 .. n - 1 + 1 : d[k] = cs[1 + k - 1]
      BY <1>1, <3>1, <3>2, SubSeqProperties
    <3>. HIDE DEF d
    <3>4. DOMAIN d = 1 .. Len(d)
      BY <3>3, LenProperties
    <3>. QED  BY <1>1, <3>3, <3>4
  <2>. HIDE DEF d
  <2>2. [k \in DOMAIN d |-> CohortBytes(d[k])] = [k \in 1 .. n |-> S[k]]
    <3>1. \A k \in 1 .. n : CohortBytes(d[k]) = S[k]
      <4>1. \A k \in 1 .. n : k \in 1 .. m
        BY <1>1
      <4>. QED  BY <1>3, <2>1, <4>1
    <3>. QED  BY <2>1, <3>1
  <2>3. Stream(d) = Joined(S, n)
    BY <2>2 DEF Stream, Joined
  <2>. QED  BY <2>3 DEF Off, S, d
<1>. QED  BY <1>3, <1>4, <1>5, <1>6 DEF m, S

\* Where a cohort starts, and that it is found there.
LEMMA StreamLies ==
  ASSUME NEW cs \in Campaigns
  PROVE  /\ Len(cs) \in Nat /\ Stream(cs) \in Seq(Int) /\ Len(Stream(cs)) = Off(cs, Len(cs))
         /\ Off(cs, 0) = 0 /\ \A n \in 0 .. Len(cs) : Off(cs, n) \in Nat
         /\ \A n, l \in 0 .. Len(cs) : n <= l => Off(cs, n) <= Off(cs, l)
         /\ \A n \in 0 .. Len(cs) - 1 :
              /\ CohortOK(cs[n + 1])
              /\ Off(cs, n + 1) = Off(cs, n) + RecOff(cs[n + 1], Len(cs[n + 1].outputs))
              /\ Lies(Stream(cs), Off(cs, n), CohortBytes(cs[n + 1]))
<1>. DEFINE m == Len(cs)
            S == CohortsBytes(cs)
<1>1. m \in Nat /\ \A k \in 1 .. m : CohortOK(cs[k])
  BY CampaignType
<1>2. /\ Stream(cs) = Joined(S, m)
      /\ \A n \in 1 .. m : S[n] \in Seq(Int) /\ S[n] = CohortBytes(cs[n])
  BY StreamIs
<1>3. \A n \in 0 .. m : Off(cs, n) = Len(Joined(S, n))
  BY DEF Off
<1>. HIDE DEF S, m
<1>4. \A n \in 0 .. m : Joined(S, n) \in Seq(Int) /\ Len(Joined(S, n)) \in Nat
  <2>1. \A k \in 1 .. m : S[k] \in Seq(Int)
    BY <1>2
  <2>. QED  BY <1>1, <2>1, JoinedType
<1>5. Stream(cs) \in Seq(Int) /\ Len(Stream(cs)) = Off(cs, m)
  <2>1. m \in 0 .. m
    BY <1>1
  <2>. QED  BY <1>2, <1>3, <1>4, <2>1
<1>6. Off(cs, 0) = 0 /\ \A n \in 0 .. m : Off(cs, n) \in Nat
  <2>1. 0 \in 0 .. m /\ Joined(S, 0) = <<>>
    BY <1>1, JoinedNone
  <2>2. Len(<<>>) = 0
    OBVIOUS
  <2>. QED  BY <1>3, <1>4, <2>1, <2>2
<1>7. ASSUME NEW n \in 0 .. m, NEW l \in 0 .. m, n <= l PROVE Off(cs, n) <= Off(cs, l)
  <2>1. \A k \in 1 .. m : S[k] \in Seq(Int)
    BY <1>2
  <2>2. Len(Joined(S, n)) <= Len(Joined(S, l))
    BY <1>1, <1>7, <2>1, JoinedGrows
  <2>. QED  BY <1>3, <2>2
<1>8. ASSUME NEW n \in 0 .. m - 1
      PROVE  /\ CohortOK(cs[n + 1])
             /\ Off(cs, n + 1) = Off(cs, n) + RecOff(cs[n + 1], Len(cs[n + 1].outputs))
             /\ Lies(Stream(cs), Off(cs, n), CohortBytes(cs[n + 1]))
  <2>. DEFINE c == cs[n + 1]
  <2>1. \A k \in 1 .. m : S[k] \in Seq(Int)
    BY <1>2
  <2>2. n + 1 \in 1 .. m /\ n + 1 \in 0 .. m /\ n \in 0 .. m
    BY <1>1
  <2>3. CohortOK(c) /\ S[n + 1] = CohortBytes(c)
    BY <1>1, <1>2, <2>2
  <2>4. /\ Len(Joined(S, n + 1)) = Len(Joined(S, n)) + Len(S[n + 1])
        /\ Lies(Joined(S, m), Len(Joined(S, n)), S[n + 1])
    BY <1>1, <2>1, JoinedLies
  <2>. HIDE DEF c
  <2>5. Len(CohortBytes(c)) = RecOff(c, Len(c.outputs))
    BY <2>3, CohortLies
  <2>6. Off(cs, n + 1) = Off(cs, n) + RecOff(c, Len(c.outputs))
    BY <1>3, <2>2, <2>3, <2>4, <2>5
  <2>7. Lies(Stream(cs), Off(cs, n), CohortBytes(c))
    BY <1>2, <1>3, <2>2, <2>3, <2>4
  <2>. QED  BY <2>3, <2>6, <2>7 DEF c
<1>. QED  BY <1>1, <1>5, <1>6, <1>7, <1>8 DEF m

(***************************************************************************)
(* What fread finds                                                        *)
(***************************************************************************)

\* The lesser of two numbers, and the least of a set.
LEMMA MinTwo ==
  ASSUME NEW a \in Int, NEW b \in Int
  PROVE  Min({a, b}) = IF a <= b THEN a ELSE b
<1>. DEFINE x == IF a <= b THEN a ELSE b
<1>1. x \in {a, b} /\ \A y \in {a, b} : x <= y
  OBVIOUS
<1>2. \A z \in {a, b} : (\A y \in {a, b} : z <= y) => z = x
  OBVIOUS
<1>. HIDE DEF x
<1>3. Min({a, b}) = CHOOSE z \in {a, b} : \A y \in {a, b} : z <= y
  BY DEF Min
<1>4. Min({a, b}) = x
  BY <1>1, <1>2, <1>3, Zenon
<1>. QED  BY <1>4 DEF x

\* A part of a beginning of B.
LEMMA PartOf ==
  ASSUME NEW B \in Seq(Int), NEW L \in 0 .. Len(B), NEW p \in 0 .. L, NEW q \in p .. L
  PROVE  LET s == SubSeq(B, 1, L)
             f == SubSeq(s, p + 1, q)
         IN  /\ s \in Seq(Int) /\ Len(s) = L
             /\ f \in Seq(Int) /\ Len(f) = q - p /\ \A j \in 1 .. q - p : f[j] = B[p + j]
<1>. DEFINE s == SubSeq(B, 1, L)
<1>1. Len(B) \in Nat /\ L \in Nat /\ L <= Len(B) /\ \A j \in 1 .. Len(B) : B[j] \in Int
  BY LenProperties, ElementOfSeq
<1>2. s \in Seq(Int) /\ Len(s) = L /\ \A j \in 1 .. L : s[j] = B[j]
  <2>1. \A j \in 1 .. L : B[j] \in Int
    BY <1>1
  <2>2. /\ s \in Seq(Int) /\ Len(s) = (IF 1 <= L THEN L - 1 + 1 ELSE 0)
        /\ \A j \in 1 .. L - 1 + 1 : s[j] = B[1 + j - 1]
    BY <1>1, <2>1, SubSeqProperties
  <2>. HIDE DEF s
  <2>. QED  BY <1>1, <2>2
<1>. HIDE DEF s
<1>. DEFINE a == p + 1
            f == SubSeq(s, a, q)
<1>3. a \in Int /\ a \in Nat /\ a >= 1 /\ p \in Nat /\ q \in Nat /\ p <= q /\ q <= L
  BY <1>1
<1>4. /\ f \in Seq(Int) /\ Len(f) = (IF a <= q THEN q - a + 1 ELSE 0)
      /\ \A j \in 1 .. q - a + 1 : f[j] = s[a + j - 1]
  <2>. HIDE DEF a
  <2>1. \A j \in a .. q : s[j] \in Int
    <3>1. ASSUME NEW j \in a .. q PROVE s[j] \in Int
      <4>1. j \in 1 .. L
        BY <1>3
      <4>2. j \in 1 .. Len(B)
        BY <1>1, <4>1
      <4>. QED  BY <1>1, <1>2, <4>1, <4>2
    <3>. QED  BY <3>1
  <2>. QED  BY <1>2, <1>3, <2>1, SubSeqProperties
<1>5. a = p + 1
  OBVIOUS
<1>. HIDE DEF f, a
<1>6. Len(f) = q - p
  BY <1>3, <1>4, <1>5
<1>7. ASSUME NEW j \in 1 .. q - p PROVE f[j] = B[p + j]
  <2>1. j \in 1 .. q - a + 1 /\ a + j - 1 = p + j /\ p + j \in 1 .. L
    BY <1>3, <1>5
  <2>. QED  BY <1>2, <1>4, <2>1
<1>. QED  BY <1>2, <1>4, <1>6, <1>7 DEF f, a, s

\* All of what lies there is found, if the stream does not end before.
LEMMA FindsAll ==
  ASSUME NEW B \in Seq(Int), NEW L \in 0 .. Len(B), NEW p, NEW f \in Seq(Int),
         stream = SubSeq(B, 1, L), pos = p, Lies(B, p, f), p + Len(f) <= L
  PROVE  Found(Len(f)) = f /\ Len(Found(Len(f))) = Len(f) /\ p + Len(f) \in 0 .. L
<1>. DEFINE q == p + Len(f)
            g == SubSeq(stream, p + 1, q)
<1>1. /\ p \in Nat /\ Len(f) \in Nat /\ L \in Nat /\ \A j \in 1 .. Len(f) : B[p + j] = f[j]
      /\ Len(B) \in Nat
  <2>1. /\ p \in Nat /\ Len(f) \in Nat /\ Len(B) \in Nat
        /\ \A j \in 1 .. Len(f) : B[p + j] = f[j]
    BY DEF Lies
  <2>2. L \in Nat
    BY <2>1
  <2>. QED  BY <2>1, <2>2
<1>2. q \in p .. L /\ p \in 0 .. L /\ q - p = Len(f) /\ q \in 0 .. L /\ q \in Int
  BY <1>1
<1>. HIDE DEF q
<1>3. /\ Len(stream) = L
      /\ g \in Seq(Int) /\ Len(g) = Len(f) /\ \A j \in 1 .. Len(f) : g[j] = B[p + j]
  <2>1. /\ Len(stream) = L
        /\ g \in Seq(Int) /\ Len(g) = q - p /\ \A j \in 1 .. q - p : g[j] = B[p + j]
    BY <1>2, PartOf
  <2>. HIDE DEF g
  <2>. QED  BY <1>2, <2>1
<1>4. Min({q, L}) = q
  <2>1. L \in Int /\ q <= L
    BY <1>1, <1>2
  <2>. QED  BY <1>2, <2>1, MinTwo
<1>5. Found(Len(f)) = g
  BY <1>3, <1>4 DEF Found, q
<1>. HIDE DEF g
<1>6. g = f
  BY <1>1, <1>3, SeqEqual
<1>. QED  BY <1>2, <1>5, <1>6 DEF q

\* Of the rest, what is in the stream is found.
LEMMA FindsLess ==
  ASSUME NEW B \in Seq(Int), NEW L \in 0 .. Len(B), NEW p \in 0 .. L, NEW n \in Nat, p + n > L,
         stream = SubSeq(B, 1, L), pos = p
  PROVE  /\ Found(n) \in Seq(Int) /\ Len(Found(n)) = L - p /\ L - p < n
         /\ \A f \in Seq(Int) : Len(f) = n /\ Lies(B, p, f) =>
              \A j \in 1 .. L - p : Found(n)[j] = f[j]
<1>. DEFINE q == p + n
            g == SubSeq(stream, p + 1, L)
<1>1. p \in Nat /\ L \in Nat /\ L \in p .. L
  OBVIOUS
<1>2. /\ Len(stream) = L
      /\ g \in Seq(Int) /\ Len(g) = L - p /\ \A j \in 1 .. L - p : g[j] = B[p + j]
  BY <1>1, PartOf
<1>3. Min({q, L}) = L
  <2>1. L \in Int /\ q \in Int /\ ~(q <= L)
    BY <1>1
  <2>. HIDE DEF q
  <2>. QED  BY <2>1, MinTwo
<1>4. Found(n) = g
  BY <1>2, <1>3 DEF Found, q
<1>5. L - p < n
  BY <1>1
<1>. HIDE DEF g, q
<1>6. ASSUME NEW f \in Seq(Int), Len(f) = n, Lies(B, p, f), NEW j \in 1 .. L - p
      PROVE  g[j] = f[j]
  <2>1. j \in 1 .. n
    BY <1>1, <1>5
  <2>2. B[p + j] = f[j]
    BY <1>6, <2>1 DEF Lies
  <2>. QED  BY <1>2, <2>2
<1>. QED  BY <1>2, <1>4, <1>5, <1>6

(***************************************************************************)
(* What is printed                                                         *)
(***************************************************************************)

LEMMA MinIs ==
  ASSUME NEW S, NEW x \in S, S \subseteq Int, \A y \in S : x <= y
  PROVE  Min(S) = x
<1>1. \A z \in S : (\A y \in S : z <= y) => z = x
  OBVIOUS
<1>. QED  BY <1>1, Zenon DEF Min

\* The beginning of a sequence, up to n.
LEMMA BeginningIs ==
  ASSUME NEW E, NEW s \in Seq(E), NEW n \in 0 .. Len(s)
  PROVE  /\ SubSeq(s, 1, n) \in Seq(E) /\ Len(SubSeq(s, 1, n)) = n
         /\ \A j \in 1 .. n : SubSeq(s, 1, n)[j] = s[j]
<1>. DEFINE d == SubSeq(s, 1, n)
<1>1. Len(s) \in Nat /\ \A j \in 1 .. Len(s) : s[j] \in E
  BY LenProperties, ElementOfSeq
<1>2. n \in Int /\ \A j \in 1 .. n : s[j] \in E
  BY <1>1
<1>3. /\ d \in Seq(E) /\ Len(d) = (IF 1 <= n THEN n - 1 + 1 ELSE 0)
      /\ \A j \in 1 .. n - 1 + 1 : d[j] = s[1 + j - 1]
  BY <1>2, SubSeqProperties
<1>. HIDE DEF d
<1>4. d \in Seq(E) /\ Len(d) = n /\ \A j \in 1 .. n : d[j] = s[j]
  BY <1>1, <1>3
<1>. QED  BY <1>4 DEF d

\* A C string ends where its first 0 is.
LEMMA CStringIs ==
  ASSUME NEW s \in Seq(Int), NEW n \in 0 .. Len(s), \A k \in 1 .. n : s[k] # 0,
         n < Len(s) => s[n + 1] = 0
  PROVE  CString(s) = SubSeq(s, 1, n)
<1>. DEFINE Z == {k \in DOMAIN s : s[k] = 0} \cup {Len(s) + 1}
<1>1. Len(s) \in Nat /\ DOMAIN s = 1 .. Len(s)
  BY LenProperties
<1>2. Z \subseteq Int /\ n + 1 \in Z /\ \A k \in Z : n + 1 <= k
  <2>1. Z \subseteq Int
    BY <1>1
  <2>2. n + 1 \in Z
    BY <1>1
  <2>3. \A k \in Z : n + 1 <= k
    BY <1>1
  <2>. QED  BY <2>1, <2>2, <2>3
<1>. HIDE DEF Z
<1>3. Min(Z) = n + 1
  <2>1. PICK x \in Z : x = n + 1
    BY <1>2
  <2>2. Min(Z) = x
    BY <1>2, <2>1, MinIs
  <2>. QED  BY <2>1, <2>2
<1>4. Min(Z) - 1 = n
  BY <1>3
<1>5. CString(s) = SubSeq(s, 1, Min(Z) - 1)
  BY DEF CString, Z
<1>. QED  BY <1>4, <1>5

\* A text without a zero is a C string, also with zeros behind it.
LEMMA CStringWhole ==
  ASSUME NEW s \in Seq(Int), \A k \in 1 .. Len(s) : s[k] # 0
  PROVE  CString(s) = s
<1>1. Len(s) \in Nat /\ Len(s) \in 0 .. Len(s) /\ ~(Len(s) < Len(s))
  BY LenProperties
<1>2. CString(s) = SubSeq(s, 1, Len(s))
  BY <1>1, CStringIs
<1>. QED  BY <1>2, SubSeqAll

LEMMA CStringCut ==
  ASSUME NEW s \in Seq(Int), \A k \in 1 .. Len(s) : s[k] # 0, NEW n \in Nat
  PROVE  CString(s \o Zeros(n)) = s
<1>. DEFINE z == Zeros(n)
            r == s \o z
            l == Len(s)
<1>1. l \in Nat
  BY LenProperties
<1>2. z \in Seq(Int) /\ Len(z) = n /\ \A k \in 1 .. n : z[k] = 0
  BY DEF Zeros
<1>. HIDE DEF z
<1>3. /\ r \in Seq(Int) /\ Len(r) = Len(s) + Len(z)
      /\ \A k \in 1 .. Len(s) + Len(z) : r[k] = IF k <= Len(s) THEN s[k] ELSE z[k - Len(s)]
  BY <1>2, ConcatProperties
<1>. HIDE DEF r
<1>4. Len(r) = l + n /\ \A k \in 1 .. l + n : r[k] = IF k <= l THEN s[k] ELSE z[k - l]
  BY <1>2, <1>3
<1>. HIDE DEF l
<1>5. \A k \in 1 .. l : r[k] = s[k]
  BY <1>1, <1>4
<1>6. l < Len(r) => r[l + 1] = 0
  <2>. SUFFICES ASSUME l < Len(r) PROVE r[l + 1] = 0
    OBVIOUS
  <2>1. PICK k \in Nat : k = l + 1
    BY <1>1
  <2>2. k \in 1 .. l + n /\ ~(k <= l) /\ k - l = 1 /\ 1 \in 1 .. n
    BY <1>1, <1>4, <2>1
  <2>3. r[k] = z[1] /\ z[1] = 0
    BY <1>2, <1>4, <2>2
  <2>. QED  BY <2>1, <2>3
<1>7. l \in 0 .. Len(r)
  BY <1>1, <1>4
<1>8. \A k \in 1 .. l : s[k] # 0
  BY DEF l
<1>9. CString(r) = SubSeq(r, 1, l)
  BY <1>3, <1>5, <1>6, <1>7, <1>8, CStringIs
<1>10. SubSeq(r, 1, l) = s
  <2>. DEFINE d == SubSeq(r, 1, l)
  <2>1. d \in Seq(Int) /\ Len(d) = l /\ \A j \in 1 .. l : d[j] = r[j]
    BY <1>3, <1>7, BeginningIs
  <2>. HIDE DEF d
  <2>2. Len(d) = Len(s) /\ \A j \in 1 .. Len(d) : d[j] = s[j]
    BY <1>5, <2>1 DEF l
  <2>3. d = s
    BY <2>1, <2>2, SeqEqual
  <2>. QED  BY <2>3 DEF d
<1>. QED  BY <1>9, <1>10 DEF r, z

\* Bytes are integers.
LEMMA TextIsInts ==
  ASSUME NEW s \in Seq(Byte)
  PROVE  /\ s \in Seq(Int) /\ Len(s) \in Nat /\ DOMAIN s = 1 .. Len(s)
         /\ \A k \in 1 .. Len(s) : s[k] \in Byte /\ s[k] \in Int
<1>1. /\ Len(s) \in Nat /\ DOMAIN s = 1 .. Len(s) /\ s = [k \in 1 .. Len(s) |-> s[k]]
      /\ \A k \in 1 .. Len(s) : s[k] \in Byte
  BY LenProperties, ElementOfSeq
<1>2. \A k \in 1 .. Len(s) : s[k] \in Int
  BY <1>1, BytesAreInts
<1>3. s \in Seq(Int)
  BY <1>1, <1>2
<1>. QED  BY <1>1, <1>2, <1>3

\* What a JSON parser gets of a name, and of a text, also if zeros follow it.
LEMMA NameShown ==
  ASSUME NEW s \in Seq(Byte), PlainName(s)
  PROVE  JsonText(CString(s)) = s
<1>1. s \in Seq(Int) /\ \A k \in 1 .. Len(s) : s[k] # 0
  <2>1. s \in Seq(Int) /\ \A k \in 1 .. Len(s) : s[k] \in Int /\ s[k] >= 32
    BY TextIsInts DEF PlainName
  <2>. QED  BY <2>1
<1>2. CString(s) = s
  BY <1>1, CStringWhole
<1>. QED  BY <1>2, PlainIsJson

\* A text is shown as it is, also with zeros behind it.
LEMMA TextShown ==
  ASSUME NEW s \in Seq(Byte), CText(s), NEW n \in Nat
  PROVE  /\ JsonText(Escape(CString(s \o Zeros(n)))) = s
         /\ JsonText(Escape(CString(s))) = s
<1>1. s \in Seq(Int) /\ \A k \in 1 .. Len(s) : s[k] # 0
  BY TextIsInts DEF CText
<1>2. CString(s) = s /\ CString(s \o Zeros(n)) = s
  BY <1>1, CStringWhole, CStringCut
<1>3. JsonText(Escape(s)) = s
  BY EscapeRoundTrip
<1>. QED  BY <1>2, <1>3

\* An output as it is printed, and parsed.
Shown(o) == [o EXCEPT !.so = JsonText(CString(@)), !.result = JsonText(Escape(CString(@)))]

\* What is printed of an output, of a cohort, and of one that was cut.
LEMMA ShownIs ==
  ASSUME NEW o, NEW text, NEW clean, OutputOK(o), JsonText(Escape(CString(text))) = clean
  PROVE  Shown(Told(o, text)) = Told(o, clean)
<1>1. JsonText(CString(o.so)) = o.so
  BY NameShown DEF OutputOK
<1>. DEFINE T == Told(o, text)
            name == JsonText(CString(o.so))
<1>2. JsonText(CString(T.so)) = name /\ JsonText(Escape(CString(T.result))) = clean
  BY DEF Told
<1>3. Shown(T) = [[T EXCEPT !.so = JsonText(CString(T.so))]
                    EXCEPT !.result = JsonText(Escape(CString(T.result)))]
  BY DEF Shown, Told
<1>4. Shown(T) = [[T EXCEPT !.so = name] EXCEPT !.result = clean]
  BY <1>2, <1>3
<1>. HIDE DEF name
<1>. DEFINE R(so, result) ==
        [workerno |-> Unread, so |-> so, status |-> o.status,
         ndecoded |-> o.ndecoded, len |-> Len(o.result), result |-> result]
<1>5. [T EXCEPT !.so = name] = R(name, text)
  BY DEF Told
<1>6. [R(name, text) EXCEPT !.result = clean] = R(name, clean)
  OBVIOUS
<1>7. R(o.so, clean) = Told(o, clean)
  BY DEF Told
<1>8. name = o.so
  BY <1>1 DEF name
<1>. HIDE DEF R, T
<1>9. Shown(T) = R(o.so, clean)
  BY <1>4, <1>5, <1>6, <1>8
<1>. QED  BY <1>7, <1>9 DEF T

LEMMA LineIs ==
  ASSUME NEW c, CohortOK(c)
  PROVE  Line(Gathered(c, InputSlot(c.input), Len(c.outputs) + 1, NoOutput)) = LineOf(c)
<1>. DEFINE W == Len(c.outputs)
            slot == InputSlot(c.input)
            r == Gathered(c, slot, W + 1, NoOutput)
<1>1. SubSeq(slot, 2, slot[1] + 1) = c.input
  BY SlotType DEF CohortOK
<1>2. r.nworkers = W /\ r.input = slot /\ \A w \in 1 .. W : r.outputs[w] = Whole(c.outputs[w])
  <2>1. W \in Nat
    BY DEF CohortOK
  <2>2. \A w \in 1 .. W : w < W + 1
    BY <2>1
  <2>. HIDE DEF W, slot
  <2>3. \A w \in 1 .. Len(c.outputs) : w < W + 1
    BY <2>2 DEF W
  <2>. QED  BY <2>3 DEF Gathered, W
<1>. HIDE DEF r, slot
<1>3. \A w \in 1 .. W : Shown(r.outputs[w]) = Whole(c.outputs[w])
  <2>. SUFFICES ASSUME NEW w \in 1 .. W PROVE Shown(r.outputs[w]) = Whole(c.outputs[w])
    OBVIOUS
  <2>. DEFINE o == c.outputs[w]
  <2>1. OutputOK(o)
    BY DEF CohortOK
  <2>. HIDE DEF o
  <2>2. JsonText(Escape(CString(o.result))) = o.result
    BY <2>1, TextShown DEF OutputOK
  <2>3. Shown(Told(o, o.result)) = Told(o, o.result)
    BY <2>1, <2>2, ShownIs
  <2>. QED  BY <1>2, <2>3 DEF Whole, o
<1>4. Line(r) = [input |-> Hexbuf(c.input), outputs |-> [w \in 1 .. W |-> Shown(r.outputs[w])]]
  BY <1>1, <1>2 DEF Line, Shown
<1>5. [w \in 1 .. W |-> Shown(r.outputs[w])] = [w \in 1 .. W |-> Whole(c.outputs[w])]
  BY <1>3
<1>6. Line(r) = LineOf(c)
  BY <1>4, <1>5 DEF LineOf
<1>. QED  BY <1>6 DEF r, slot

LEMMA LineCutIs ==
  ASSUME NEW c, CohortOK(c), NEW k \in CutsOf(c)
  PROVE  Line(GatheredCut(c, k)) = LineCut(c, k)
<1>. DEFINE W == Len(c.outputs)
            slot == InputSlot(c.input)
            last == c.outputs[W]
            part == SubSeq(last.result, 1, k)
            rest == Len(last.result) - k
            r == Gathered(c, slot, W, Told(last, part \o Zeros(rest)))
            l == [w \in 1 .. W |-> IF w = W THEN Told(last, part) ELSE Whole(c.outputs[w])]
<1>1. SubSeq(slot, 2, slot[1] + 1) = c.input
  BY SlotType DEF CohortOK
<1>2. W \in Nat /\ W \in 1 .. W /\ \A w \in 1 .. W : OutputOK(c.outputs[w])
  BY DEF CohortOK
<1>3. OutputOK(last) /\ k \in 0 .. Len(last.result) /\ rest \in Nat
  <2>1. OutputOK(last)
    BY <1>2
  <2>2. Len(last.result) \in Nat /\ k \in 1 .. Len(last.result) - 1
    BY <2>1, FourParts DEF CutsOf
  <2>. QED  BY <2>1, <2>2
<1>4. part \in Seq(Byte) /\ CText(part)
  <2>1. last.result \in Seq(Byte) /\ CText(last.result)
    BY <1>3 DEF OutputOK
  <2>. DEFINE t == last.result
  <2>2. Len(t) \in Nat /\ \A j \in 1 .. Len(t) : t[j] # 0
    BY <2>1, TextIsInts DEF CText
  <2>. HIDE DEF t, last
  <2>3. SubSeq(t, 1, k) \in Seq(Byte) /\ Len(SubSeq(t, 1, k)) = k
        /\ \A j \in 1 .. k : SubSeq(t, 1, k)[j] = t[j]
    BY <1>3, <2>1, BeginningIs DEF t
  <2>4. part = SubSeq(t, 1, k)
    BY DEF t
  <2>. HIDE DEF part
  <2>5. DOMAIN part = 1 .. k /\ part \in Seq(Byte)
    <3>1. part \in Seq(Byte) /\ Len(part) = k
      BY <2>3, <2>4
    <3>. QED  BY <3>1, LenProperties
  <2>6. \A j \in 1 .. k : part[j] # 0
    <3>1. \A j \in 1 .. k : j \in 1 .. Len(t)
      BY <1>3, <2>2 DEF t
    <3>. QED  BY <2>2, <2>3, <2>4, <3>1
  <2>. QED  BY <2>5, <2>6 DEF CText
<1>5. JsonText(Escape(CString(part \o Zeros(rest)))) = part
  <2>. HIDE DEF part, rest
  <2>. QED  BY <1>3, <1>4, TextShown
<1>6. Shown(Told(last, part \o Zeros(rest))) = Told(last, part)
  <2>. HIDE DEF part, rest, last
  <2>. QED  BY <1>3, <1>5, ShownIs
<1>. HIDE DEF part, rest, slot
<1>7. /\ r.nworkers = W /\ r.input = slot
      /\ \A w \in 1 .. W : r.outputs[w] =
           IF w = W THEN Told(last, part \o Zeros(rest)) ELSE Whole(c.outputs[w])
  <2>1. \A w \in 1 .. W : (w # W => w < W) /\ ~(W < W)
    BY <1>2
  <2>. HIDE DEF last
  <2>2. r.nworkers = W /\ r.input = slot
    BY DEF Gathered
  <2>3. \A w \in 1 .. W : r.outputs[w] =
          IF w < W THEN Whole(c.outputs[w])
          ELSE IF w = W THEN Told(last, part \o Zeros(rest)) ELSE NoOutput
    BY DEF Gathered
  <2>. HIDE DEF r
  <2>. QED  BY <2>1, <2>2, <2>3
<1>. HIDE DEF r
<1>8. \A w \in 1 .. W : Shown(r.outputs[w]) = l[w]
  <2>. SUFFICES ASSUME NEW w \in 1 .. W PROVE Shown(r.outputs[w]) = l[w]
    OBVIOUS
  <2>1. CASE w = W
    BY <1>6, <1>7, <2>1
  <2>2. CASE w # W
    <3>. DEFINE o == c.outputs[w]
    <3>1. OutputOK(o)
      BY <1>2
    <3>2. r.outputs[w] = Whole(o) /\ l[w] = Whole(o)
      BY <1>7, <2>2
    <3>. HIDE DEF o, l
    <3>3. JsonText(Escape(CString(o.result))) = o.result
      BY <3>1, TextShown DEF OutputOK
    <3>4. Shown(Told(o, o.result)) = Told(o, o.result)
      BY <3>1, <3>3, ShownIs
    <3>. QED  BY <3>2, <3>4 DEF Whole
  <2>. QED  BY <2>1, <2>2
<1>9. Line(r) = [input |-> Hexbuf(c.input), outputs |-> [w \in 1 .. W |-> Shown(r.outputs[w])]]
  BY <1>1, <1>7 DEF Line, Shown
<1>10. [w \in 1 .. W |-> Shown(r.outputs[w])] = l
  <2>1. l = [w \in 1 .. W |-> l[w]]
    OBVIOUS
  <2>. HIDE DEF l
  <2>. QED  BY <1>8, <2>1
<1>11. LineCut(c, k) = [input |-> Hexbuf(c.input), outputs |-> l]
  BY DEF LineCut, part
<1>12. GatheredCut(c, k) = r
  BY DEF GatheredCut, r, part, rest, slot
<1>. QED  BY <1>9, <1>10, <1>11, <1>12

(***************************************************************************)
(* Steps                                                                   *)
(***************************************************************************)

\* Where the fields of an output are, and what is behind it.
LEMMA FieldLies ==
  ASSUME NEW cs \in Campaigns, NEW n \in 0 .. Len(cs) - 1,
         NEW w \in 0 .. Len(cs[n + 1].outputs) - 1
  PROVE  LET c == cs[n + 1]
             o == c.outputs[w + 1]
             start == Off(cs, n) + RecOff(c, w)
             B == Stream(cs)
         IN  /\ OutputOK(o) /\ start \in Nat /\ Off(cs, n) \in Nat /\ Off(cs, n) <= start
             /\ Off(cs, n) + RecOff(c, w + 1) = start + (16 + Len(o.so) + Len(o.result))
             /\ start + (16 + Len(o.so) + Len(o.result)) <= Off(cs, n + 1)
             /\ Lies(B, start, Number(Len(o.so), 8))
             /\ Lies(B, start + 8, o.so)
             /\ Lies(B, start + (8 + Len(o.so)), Number(o.status, 4))
             /\ Lies(B, start + (12 + Len(o.so)), Number(o.ndecoded, 2))
             /\ Lies(B, start + (14 + Len(o.so)), Number(Len(o.result), 2))
             /\ Lies(B, start + (16 + Len(o.so)), o.result)
<1>. DEFINE c == cs[n + 1]
            W == Len(c.outputs)
            o == c.outputs[w + 1]
            B == Stream(cs)
            base == Off(cs, n)
            off == RecOff(c, w)
            start == base + off
<1>1. /\ CohortOK(c) /\ base \in Nat /\ Off(cs, n + 1) = base + RecOff(c, W)
      /\ Lies(B, base, CohortBytes(c))
  <2>1. n \in 0 .. Len(cs)
    BY StreamLies
  <2>. QED  BY <2>1, StreamLies
<1>2. W \in Nat /\ w \in 0 .. W - 1 /\ w + 1 \in 1 .. W
  BY <1>1 DEF CohortOK
<1>3. OutputOK(o)
  BY <1>1, <1>2 DEF CohortOK
<1>. HIDE DEF c, base
<1>4. Lies(B, start, OutputRecord(o))
  <2>1. \A v \in 0 .. W - 1 : Lies(B, base + RecOff(c, v), OutputRecord(c.outputs[v + 1]))
    BY <1>1, CohortLies
  <2>. QED  BY <1>2, <2>1
<1>5. /\ off \in Nat /\ RecOff(c, w + 1) = off + 16 + Len(o.so) + Len(o.result)
      /\ Lies(Joined(Records(c), W), Len(Joined(Records(c), w)), OutputRecord(o))
  BY <1>1, <1>2, NextRecord
<1>6. Len(OutputRecord(o)) = 16 + Len(o.so) + Len(o.result) /\ Len(o.so) \in Nat /\ Len(o.result) \in Nat
  BY <1>3, RecordLies, FourParts
<1>7. off + Len(OutputRecord(o)) <= RecOff(c, W)
  <2>. DEFINE x == Len(Joined(Records(c), w))
              y == Len(Joined(Records(c), W))
              z == Len(OutputRecord(o))
  <2>1. x + z <= y /\ x \in Nat /\ y \in Nat /\ z \in Nat
    BY <1>5 DEF Lies
  <2>2. off = 20 + x /\ RecOff(c, W) = 20 + y
    BY DEF RecOff
  <2>. HIDE DEF x, y, z, off
  <2>3. off + z <= RecOff(c, W)
    BY <2>1, <2>2
  <2>. QED  BY <2>3 DEF z
<1>8. /\ Lies(B, start, Number(Len(o.so), 8))
      /\ Lies(B, start + 8, o.so)
      /\ Lies(B, start + (8 + Len(o.so)), Number(o.status, 4))
      /\ Lies(B, start + (12 + Len(o.so)), Number(o.ndecoded, 2))
      /\ Lies(B, start + (14 + Len(o.so)), Number(Len(o.result), 2))
      /\ Lies(B, start + (16 + Len(o.so)), o.result)
  <2>. HIDE DEF start, o, B
  <2>. QED  BY <1>3, <1>4, RecordLies
<1>9. /\ start \in Nat /\ base <= start
      /\ base + RecOff(c, w + 1) = start + (16 + Len(o.so) + Len(o.result))
      /\ start + (16 + Len(o.so) + Len(o.result)) <= Off(cs, n + 1)
  <2>1. RecOff(c, W) \in Nat
    <3>1. W \in 0 .. W
      BY <1>2
    <3>. QED  BY <1>1, <3>1, RecordsType
  <2>. DEFINE x == Len(o.so)
              y == Len(o.result)
              e == RecOff(c, W)
              t == RecOff(c, w + 1)
  <2>2. x \in Nat /\ y \in Nat /\ off \in Nat /\ base \in Nat /\ e \in Nat
        /\ t = off + 16 + x + y /\ off + (16 + x + y) <= e /\ Off(cs, n + 1) = base + e
    BY <1>1, <1>5, <1>6, <1>7, <2>1
  <2>. HIDE DEF x, y, e, t, off
  <2>3. /\ base + off \in Nat /\ base <= base + off
        /\ base + t = (base + off) + (16 + x + y)
        /\ (base + off) + (16 + x + y) <= Off(cs, n + 1)
    BY <2>2
  <2>. QED  BY <2>3 DEF x, y, t, off
<1>. QED  BY <1>1, <1>3, <1>8, <1>9 DEF c, base

\* The head of a cohort.
LEMMA HeadLies ==
  ASSUME NEW cs \in Campaigns, NEW n \in 0 .. Len(cs) - 1
  PROVE  LET c == cs[n + 1]
             base == Off(cs, n)
             B == Stream(cs)
         IN  /\ CohortOK(c) /\ base \in Nat
             /\ Lies(B, base, Number(Len(c.outputs), 4)) /\ Lies(B, base + 4, InputSlot(c.input))
             /\ base + RecOff(c, 0) = base + 20 /\ base + 20 <= Off(cs, n + 1)
             /\ Off(cs, n + 1) = base + RecOff(c, Len(c.outputs))
<1>. DEFINE c == cs[n + 1]
            W == Len(c.outputs)
            B == Stream(cs)
            base == Off(cs, n)
<1>1. /\ CohortOK(c) /\ base \in Nat /\ Off(cs, n + 1) = base + RecOff(c, W)
      /\ Lies(B, base, CohortBytes(c))
  <2>1. n \in 0 .. Len(cs)
    BY StreamLies
  <2>. QED  BY <2>1, StreamLies
<1>. HIDE DEF c, B, base
<1>2. Lies(B, base, Number(Len(c.outputs), 4)) /\ Lies(B, base + 4, InputSlot(c.input))
  BY <1>1, CohortLies
<1>3. RecOff(c, 0) = 20
  BY <1>1, NextRecord
<1>4. 20 <= RecOff(c, W) /\ RecOff(c, W) \in Nat
  <2>1. W \in 0 .. W /\ W \in Nat
    BY <1>1 DEF CohortOK
  <2>2. Joined(Records(c), W) \in Seq(Int) /\ RecOff(c, W) \in Nat
    BY <1>1, <2>1, RecordsType
  <2>3. Len(Joined(Records(c), W)) \in Nat
    BY <2>2, LenProperties
  <2>. HIDE DEF W
  <2>. QED  BY <2>2, <2>3 DEF RecOff
<1>5. base + RecOff(c, 0) = base + 20 /\ base + 20 <= Off(cs, n + 1)
  BY <1>1, <1>3, <1>4
<1>. QED  BY <1>1, <1>2, <1>5 DEF c, B, base

\* The bytes that lie there are found, or those of them in the stream.
LEMMA Reads ==
  ASSUME Arrived, NEW p, NEW f \in Seq(Int), Lies(Stream(campaign), p, f),
         pos = p, p <= Len(stream)
  PROVE  /\ p \in Nat /\ Len(f) \in Nat /\ Len(stream) \in Nat
         /\ p + Len(f) <= Len(stream) => Found(Len(f)) = f
         /\ p + Len(f) > Len(stream) =>
              /\ Len(Found(Len(f))) = Len(stream) - p /\ Len(stream) - p < Len(f)
              /\ Found(Len(f)) = SubSeq(f, 1, Len(stream) - p)
<1>. DEFINE B == Stream(campaign)
            L == Len(stream)
            n == Len(f)
<1>1. B \in Seq(Int) /\ L \in 0 .. Len(B) /\ stream = SubSeq(B, 1, L)
  BY StreamLies DEF Arrived
<1>2. p \in Nat /\ n \in Nat /\ Len(B) \in Nat
  BY DEF Lies
<1>3. L \in Nat /\ p \in 0 .. L
  BY <1>1, <1>2
<1>4. p + n <= L => Found(n) = f
  <2>. SUFFICES ASSUME p + n <= L PROVE Found(n) = f
    OBVIOUS
  <2>. HIDE DEF B, L
  <2>. QED  BY <1>1, FindsAll DEF B
<1>5. ASSUME p + n > L
      PROVE  Len(Found(n)) = L - p /\ L - p < n /\ Found(n) = SubSeq(f, 1, L - p)
  <2>. DEFINE g == Found(n)
              m == L - p
              d == SubSeq(f, 1, m)
  <2>1. /\ g \in Seq(Int) /\ Len(g) = m /\ m < n
        /\ \A e \in Seq(Int) : Len(e) = n /\ Lies(B, p, e) => \A j \in 1 .. m : g[j] = e[j]
    <3>. HIDE DEF B, L, n, g
    <3>. QED  BY <1>1, <1>2, <1>3, <1>5, FindsLess DEF g
  <2>2. \A j \in 1 .. m : g[j] = f[j]
    BY <2>1
  <2>3. m \in 0 .. n
    BY <1>2, <1>3, <2>1
  <2>. HIDE DEF g, m
  <2>4. d \in Seq(Int) /\ Len(d) = m /\ \A j \in 1 .. m : d[j] = f[j]
    BY <2>3, BeginningIs
  <2>. HIDE DEF d
  <2>5. g = d
    BY <2>1, <2>2, <2>4, SeqEqual
  <2>. QED  BY <2>1, <2>5 DEF g, m, d
<1>. QED  BY <1>2, <1>3, <1>4, <1>5

\* m_fread of one item.
LEMMA ReadsItem ==
  ASSUME Arrived, NEW p, NEW f \in Seq(Int), Lies(Stream(campaign), p, f),
         pos = p, p <= Len(stream), ~m_finished_parsing,
         NEW size \in Nat, size # 0, Len(f) = size, MFread(size, 1)
  PROVE  /\ campaign' = campaign /\ stream' = stream
         /\ p + size <= Len(stream) =>
              Found(size) = f /\ pos' = p + size /\ ~m_finished_parsing'
         /\ p + size > Len(stream) => m_finished_parsing'
<1>1. /\ p \in Nat /\ Len(stream) \in Nat
      /\ p + size <= Len(stream) => Found(size) = f
      /\ p + size > Len(stream) =>
           Len(Found(size)) = Len(stream) - p /\ Len(stream) - p < size
  BY Reads
<1>2. size * 1 = size
  OBVIOUS
<1>3. /\ campaign' = campaign /\ stream' = stream /\ pos' = pos + Len(Found(size))
      /\ m_finished_parsing' =
           (m_finished_parsing \/ (Len(Found(size)) \div size = 0 /\ size # 0))
  BY <1>2 DEF MFread, Fread, AtEnd
<1>4. p + size <= Len(stream) => pos' = p + size /\ ~m_finished_parsing'
  <2>1. size \div size # 0
    OBVIOUS
  <2>. QED  BY <1>1, <1>3, <2>1
<1>5. p + size > Len(stream) => m_finished_parsing'
  <2>. SUFFICES ASSUME p + size > Len(stream) PROVE m_finished_parsing'
    OBVIOUS
  <2>. DEFINE l == Len(Found(size))
  <2>1. l \in Nat /\ l < size
    BY <1>1
  <2>. HIDE DEF l
  <2>2. l \div size = 0
    BY <2>1
  <2>. QED  BY <1>3, <2>2 DEF l
<1>. QED  BY <1>1, <1>3, <1>4, <1>5

\* m_fread of a text.
LEMMA ReadsText ==
  ASSUME Arrived, NEW p, NEW f \in Seq(Int), Lies(Stream(campaign), p, f),
         pos = p, p <= Len(stream), ~m_finished_parsing,
         NEW l, Len(f) = l, MFread(1, l)
  PROVE  /\ campaign' = campaign /\ stream' = stream
         /\ p + l <= Len(stream) =>
              Padded(l) = f /\ pos' = p + l /\ ~m_finished_parsing'
         /\ p + l > Len(stream) =>
              \/ m_finished_parsing'
              \/ /\ pos' = Len(stream) /\ ~m_finished_parsing'
                 /\ Len(stream) - p \in 1 .. l - 1
                 /\ Padded(l) = SubSeq(f, 1, Len(stream) - p) \o Zeros(l - (Len(stream) - p))
<1>1. /\ p \in Nat /\ l \in Nat /\ Len(stream) \in Nat
      /\ p + l <= Len(stream) => Found(l) = f
      /\ p + l > Len(stream) =>
           /\ Len(Found(l)) = Len(stream) - p /\ Len(stream) - p < l
           /\ Found(l) = SubSeq(f, 1, Len(stream) - p)
  BY Reads
<1>2. 1 * l = l
  BY <1>1
<1>3. /\ campaign' = campaign /\ stream' = stream /\ pos' = pos + Len(Found(l))
      /\ m_finished_parsing' = (m_finished_parsing \/ (Len(Found(l)) \div 1 = 0 /\ l # 0))
  BY <1>2 DEF MFread, Fread, AtEnd
<1>4. Padded(l) = Found(l) \o Zeros(l - Len(Found(l)))
  BY DEF Padded, Zeros
<1>5. ASSUME p + l <= Len(stream)
      PROVE  Padded(l) = f /\ pos' = p + l /\ ~m_finished_parsing'
  <2>1. Found(l) = f
    BY <1>1, <1>5
  <2>2. l - Len(Found(l)) = 0
    BY <1>1, <2>1
  <2>3. Zeros(0) = <<>>
    BY DEF Zeros
  <2>4. f \o <<>> = f
    OBVIOUS
  <2>5. pos' = p + l
    BY <1>3, <2>1
  <2>6. l \div 1 = l
    BY <1>1
  <2>7. ~m_finished_parsing'
    BY <1>3, <2>1, <2>6
  <2>8. Padded(l) = f
    BY <1>4, <2>1, <2>2, <2>3, <2>4
  <2>. QED  BY <2>5, <2>7, <2>8
<1>6. ASSUME p + l > Len(stream), ~m_finished_parsing'
      PROVE  /\ pos' = Len(stream) /\ Len(stream) - p \in 1 .. l - 1
             /\ Padded(l) = SubSeq(f, 1, Len(stream) - p) \o Zeros(l - (Len(stream) - p))
  <2>. DEFINE k == Len(stream) - p
  <2>1. Len(Found(l)) = k /\ k < l /\ Found(l) = SubSeq(f, 1, k) /\ k \in Nat
    BY <1>1, <1>6
  <2>2. k # 0
    <3>. SUFFICES ASSUME k = 0 PROVE FALSE
      OBVIOUS
    <3>1. Len(Found(l)) = 0 /\ l # 0
      BY <1>1, <2>1
    <3>2. Len(Found(l)) \div 1 = 0
      BY <3>1
    <3>. QED  BY <1>3, <1>6, <3>1, <3>2
  <2>3. pos' = Len(stream)
    BY <1>1, <1>3, <2>1
  <2>4. Padded(l) = SubSeq(f, 1, k) \o Zeros(l - k)
    <3>. HIDE DEF k
    <3>. QED  BY <1>4, <2>1
  <2>5. k \in 1 .. l - 1
    <3>. HIDE DEF k
    <3>. QED  BY <1>1, <2>1, <2>2
  <2>. QED  BY <2>3, <2>4, <2>5
<1>. QED  BY <1>3, <1>5, <1>6

\* When an output is whole, those after it have not been begun.
LEMMA GatheredNext ==
  ASSUME NEW c, NEW input, NEW w \in Nat
  PROVE  Gathered(c, input, w, Whole(c.outputs[w])) = Gathered(c, input, w + 1, NoOutput)
<1>. DEFINE W == 1 .. Len(c.outputs)
            f == [v \in W |-> IF v < w THEN Whole(c.outputs[v])
                              ELSE IF v = w THEN Whole(c.outputs[w]) ELSE NoOutput]
            g == [v \in W |-> IF v < w + 1 THEN Whole(c.outputs[v])
                              ELSE IF v = w + 1 THEN NoOutput ELSE NoOutput]
<1>1. ASSUME NEW v \in W PROVE f[v] = g[v]
  <2>1. v \in Int /\ (v < w + 1 <=> v < w \/ v = w)
    OBVIOUS
  <2>. QED  BY <2>1
<1>2. f = g
  BY <1>1
<1>. QED  BY <1>2 DEF Gathered

\* One output is changed.
SetOutput(r, w, y) == [r EXCEPT !.outputs[w] = y]

\* An output is assigned in what was gathered.
LEMMA GatheredSet ==
  ASSUME NEW c, NEW input, NEW w \in 1 .. Len(c.outputs), Len(c.outputs) \in Nat, NEW x, NEW y
  PROVE  SetOutput(Gathered(c, input, w, x), w, y) = Gathered(c, input, w, y)
<1>. DEFINE W == 1 .. Len(c.outputs)
            f == [v \in W |-> IF v < w THEN Whole(c.outputs[v]) ELSE IF v = w THEN x ELSE NoOutput]
            g == [v \in W |-> IF v < w THEN Whole(c.outputs[v]) ELSE IF v = w THEN y ELSE NoOutput]
            r == Gathered(c, input, w, x)
<1>1. r = [nworkers |-> Len(c.outputs), input |-> input, outputs |-> f]
  BY DEF Gathered
<1>2. [f EXCEPT ![w] = y] = g
  <2>1. ASSUME NEW v \in W PROVE [f EXCEPT ![w] = y][v] = g[v]
    <3>1. CASE v = w
      BY <3>1
    <3>2. CASE v # w
      BY <3>2
    <3>. QED  BY <3>1, <3>2
  <2>. QED  BY <2>1
<1>. HIDE DEF f, g, r
<1>3. [r EXCEPT !.outputs[w] = y] = [nworkers |-> Len(c.outputs), input |-> input, outputs |-> g]
  BY <1>1, <1>2
<1>. QED  BY <1>3 DEF Gathered, SetOutput, g, r

\* The output that is assigned.
LEMMA GatheredAt ==
  ASSUME NEW c, NEW input, NEW w \in 1 .. Len(c.outputs), Len(c.outputs) \in Nat, NEW x
  PROVE  Gathered(c, input, w, x).outputs[w] = x
BY DEF Gathered

\* The stream ends in what was to be read.
LEMMA Short ==
  ASSUME Arrived, NEW n, Fine(n), NEW z \in Nat, NEW p \in Nat, Off(campaign, n) <= p,
         p <= Len(stream), p + z > Len(stream), p + z <= Off(campaign, n + 1),
         campaign' = campaign, stream' = stream, printed' = printed,
         m_finished_parsing' \/ WillSee' \/ AtCut(n)'
  PROVE  NoMore(n)'
<1>1. n \in 0 .. Len(campaign) - 1 /\ Len(campaign) \in Nat
  BY CampaignType DEF Fine, Arrived
<1>2. n \in 0 .. Len(campaign) /\ n + 1 \in 0 .. Len(campaign)
  BY <1>1
<1>3. /\ Off(campaign, n) \in Nat /\ Off(campaign, n + 1) \in Nat
      /\ Len(Stream(campaign)) = Off(campaign, Len(campaign)) /\ Len(campaign) \in 0 .. Len(campaign)
      /\ Off(campaign, Len(campaign)) \in Nat
  BY <1>1, <1>2, StreamLies DEF Arrived
<1>4. Len(stream) \in Nat
  BY <1>3 DEF Arrived
<1>5. Off(campaign, n) <= Len(stream) /\ Len(stream) < Off(campaign, n + 1)
  <2>. DEFINE a == Off(campaign, n)
              b == Off(campaign, n + 1)
              l == Len(stream)
  <2>1. a <= p /\ p <= l /\ p + z > l /\ p + z <= b /\ a \in Nat /\ b \in Nat /\ l \in Nat
    BY <1>3, <1>4
  <2>. HIDE DEF a, b, l
  <2>2. a <= l /\ l < b
    BY <2>1
  <2>. QED  BY <2>2 DEF a, b, l
<1>6. EndsIn(n)'
  BY <1>2, <1>5 DEF EndsIn
<1>7. PrintedAll(n)'
  BY DEF PrintedAll, Fine
<1>. QED  BY <1>6, <1>7 DEF NoMore

\* main begins.
LEMMA MainReading ==
  ASSUME NEW n, Reading(n), Main
  PROVE  Reading(n)'
<1>1. Fine(n) /\ AtCohort(n)
  BY DEF Reading, Main, AtCohort, AtInput, AtField, AtPrint, Fields
<1>2. /\ pc' = "nworkers"
      /\ UNCHANGED <<campaign, stream, pos, m_finished_parsing, results, string_length, i, mode, printed>>
  BY DEF Main
<1>3. Fine(n)' /\ AtCohort(n)'
  BY <1>1, <1>2 DEF Fine, AtCohort
<1>. QED  BY <1>3 DEF Reading

\* The number of outputs is read, or the stream ends in front of it, or in it.
LEMMA NWorkersReading ==
  ASSUME Arrived, NEW n, Reading(n), ReadNWorkers
  PROVE  Reading(n)' \/ NoMore(n)'
<1>. DEFINE c == campaign[n + 1]
            base == Off(campaign, n)
            W == Len(c.outputs)
            f == Number(W, 4)
<1>1. Fine(n) /\ AtCohort(n) /\ campaign \in Campaigns
  BY DEF Reading, ReadNWorkers, AtCohort, AtInput, AtField, AtPrint, Fields, Arrived
<1>2. /\ CohortOK(c) /\ base \in Nat /\ Lies(Stream(campaign), base, f)
      /\ base + 20 <= Off(campaign, n + 1)
  BY <1>1, HeadLies DEF Fine
<1>3. W \in Nat /\ f \in Seq(Int) /\ Len(f) = 4
  <2>1. W \in Nat
    BY <1>2 DEF CohortOK
  <2>. HIDE DEF W
  <2>. QED  BY <2>1, NumberType
<1>4. pos = base /\ base <= Len(stream)
  BY <1>1 DEF AtCohort, Fine
<1>5. /\ Len(stream) \in Nat
      /\ base + 4 <= Len(stream) => Found(4) = f
      /\ base + 4 > Len(stream) => Len(Found(4)) = Len(stream) - base
  <2>. HIDE DEF f, base
  <2>. QED  BY <1>2, <1>3, <1>4, Reads
<1>6. /\ pos' = pos + Len(Found(4)) /\ campaign' = campaign /\ stream' = stream /\ pc' = "input"
      /\ printed' = printed /\ m_finished_parsing' = m_finished_parsing
  BY DEF ReadNWorkers, Fread
<1>7. CASE base + 4 <= Len(stream)
  <2>1. Found(4) = f
    BY <1>5, <1>7
  <2>2. Over(Found(4), results.nworkers) = W
    <3>1. 4 \in Nat /\ 4 >= 2
      OBVIOUS
    <3>2. Over(f, results.nworkers) = W
      <4>. HIDE DEF W
      <4>. QED  BY <1>3, <3>1, OverNumber
    <3>. QED  BY <2>1, <3>2
  <2>3. results' = [nworkers |-> W, input |-> <<>>, outputs |-> [w \in 1 .. W |-> NoOutput]]
    <3>1. results' = LET m == Over(Found(4), results.nworkers)
                     IN  [nworkers |-> m, input |-> <<>>, outputs |-> [w \in 1 .. m |-> NoOutput]]
      BY DEF ReadNWorkers
    <3>. HIDE DEF W
    <3>. QED  BY <2>2, <3>1
  <2>4. results' = Gathered(c, <<>>, 0, NoOutput)
    <3>. DEFINE g == [v \in 1 .. W |-> IF v < 0 THEN Whole(c.outputs[v])
                                      ELSE IF v = 0 THEN NoOutput ELSE NoOutput]
    <3>1. \A v \in 1 .. W : g[v] = NoOutput
      OBVIOUS
    <3>2. [w \in 1 .. W |-> NoOutput] = g
      BY <3>1
    <3>. QED  BY <2>3, <3>2 DEF Gathered
  <2>5. pos' = base + 4 /\ base + 4 <= Len(stream)
    BY <1>3, <1>4, <1>6, <1>7, <2>1
  <2>6. AtInput(n)'
    BY <1>6, <2>4, <2>5 DEF AtInput
  <2>7. Fine(n)'
    BY <1>1, <1>6, <2>5 DEF Fine
  <2>. QED  BY <2>6, <2>7 DEF Reading
<1>8. CASE ~(base + 4 <= Len(stream))
  <2>1. base + 4 > Len(stream)
    BY <1>2, <1>5, <1>8
  <2>2. pos' = Len(stream)
    BY <1>2, <1>4, <1>5, <1>6, <2>1
  <2>3. WillSee'
    BY <1>6, <2>2 DEF WillSee
  <2>4. base + 4 <= Off(campaign, n + 1)
    <3>1. Off(campaign, n + 1) \in Nat
      <4>1. n + 1 \in 0 .. Len(campaign)
        BY <1>1, StreamLies DEF Fine
      <4>. QED  BY <1>1, <4>1, StreamLies
    <3>. HIDE DEF base
    <3>. QED  BY <1>2, <3>1
  <2>5. base <= base
    BY <1>2
  <2>. HIDE DEF base
  <2>6. Off(campaign, n) <= base
    BY <2>5 DEF base
  <2>7. NoMore(n)'
    BY <1>1, <1>2, <1>4, <1>6, <2>1, <2>3, <2>4, <2>6, Short
  <2>. QED  BY <2>7
<1>. QED  BY <1>7, <1>8

\* The input is read, or the stream ends in front of it, or in it.
LEMMA InputReading ==
  ASSUME Arrived, NEW n, Reading(n), ReadInput
  PROVE  Reading(n)' \/ NoMore(n)'
<1>. DEFINE c == campaign[n + 1]
            base == Off(campaign, n)
            W == Len(c.outputs)
            f == InputSlot(c.input)
            p == base + 4
<1>1. Fine(n) /\ AtInput(n) /\ campaign \in Campaigns
  BY DEF Reading, ReadInput, AtCohort, AtInput, AtField, AtPrint, Fields, Arrived
<1>2. /\ CohortOK(c) /\ base \in Nat /\ Lies(Stream(campaign), p, f)
      /\ base + RecOff(c, 0) = base + 20 /\ base + 20 <= Off(campaign, n + 1)
  BY <1>1, HeadLies DEF Fine
<1>3. W \in Nat /\ W > 0 /\ f \in Seq(Int) /\ Len(f) = 16
  BY <1>2, SlotType DEF CohortOK
<1>4. pos = p /\ p <= Len(stream) /\ ~m_finished_parsing /\ results = Gathered(c, <<>>, 0, NoOutput)
  BY <1>1 DEF AtInput, Fine
<1>. HIDE DEF base, f
<1>5. MFread(16, 1) /\ results' = [results EXCEPT !.input = Found(16)] /\ printed' = printed
      /\ NextWorker(0, results.nworkers)
  BY DEF ReadInput, INSN_MAXLEN
<1>6. /\ campaign' = campaign /\ stream' = stream
      /\ p + 16 <= Len(stream) => Found(16) = f /\ pos' = p + 16 /\ ~m_finished_parsing'
      /\ p + 16 > Len(stream) => m_finished_parsing'
  <2>1. 16 \in Nat /\ 16 # 0
    OBVIOUS
  <2>. HIDE DEF p
  <2>. QED  BY <1>2, <1>3, <1>4, <1>5, <2>1, ReadsItem
<1>7. p + 16 = base + 20 /\ p \in Nat /\ base <= p
  BY <1>2
<1>8. CASE p + 16 <= Len(stream)
  <2>1. results' = Gathered(c, f, 1, NoOutput)
    <3>. DEFINE g(k) == [v \in 1 .. W |-> IF v < k THEN Whole(c.outputs[v])
                                      ELSE IF v = k THEN NoOutput ELSE NoOutput]
    <3>1. \A v \in 1 .. W : g(0)[v] = NoOutput /\ g(1)[v] = NoOutput
      OBVIOUS
    <3>2. g(0) = g(1)
      BY <3>1
    <3>3. results' = [Gathered(c, <<>>, 0, NoOutput) EXCEPT !.input = f]
      BY <1>4, <1>5, <1>6, <1>8
    <3>4. Gathered(c, <<>>, 0, NoOutput) = [nworkers |-> W, input |-> <<>>, outputs |-> g(0)]
      BY DEF Gathered
    <3>5. Gathered(c, f, 1, NoOutput) = [nworkers |-> W, input |-> f, outputs |-> g(1)]
      BY DEF Gathered
    <3>. HIDE DEF g, W
    <3>. QED  BY <3>2, <3>3, <3>4, <3>5
  <2>2. Partly(c.outputs[1], "so_len") = NoOutput
    BY DEF Partly, NoOutput
  <2>3. i' = 0 /\ pc' = "so_len"
    <3>1. results.nworkers = W
      BY <1>4 DEF Gathered
    <3>. HIDE DEF W
    <3>. QED  BY <1>3, <1>5, <3>1 DEF NextWorker
  <2>4. pos' = base + RecOff(c, 0) + FieldOff(c.outputs[1], "so_len")
    <3>1. FieldOff(c.outputs[1], "so_len") = 0
      BY DEF FieldOff
    <3>2. pos' = base + 20
      BY <1>6, <1>7, <1>8
    <3>. QED  BY <1>2, <3>1, <3>2
  <2>5. AtField(n)'
    <3>1. 0 \in 0 .. W - 1 /\ 0 + 1 = 1
      BY <1>3
    <3>2. results' = Gathered(c, f, 1, Partly(c.outputs[1], "so_len"))
      BY <2>1, <2>2
    <3>. QED  BY <1>6, <2>3, <2>4, <3>1, <3>2 DEF AtField, Fields, base, f
  <2>6. Fine(n)'
    BY <1>1, <1>5, <1>6, <1>8 DEF Fine
  <2>. QED  BY <2>5, <2>6 DEF Reading
<1>9. CASE ~(p + 16 <= Len(stream))
  <2>1. Len(stream) \in Nat
    <3>1. Len(f) \in Nat
      BY <1>3
    <3>. HIDE DEF p
    <3>. QED  BY <1>2, <1>3, <1>4, Reads
  <2>2. p + 16 > Len(stream) /\ p + 16 <= Off(campaign, n + 1) /\ 16 \in Nat /\ Off(campaign, n) <= p
    BY <1>2, <1>7, <1>9, <2>1 DEF base
  <2>3. m_finished_parsing'
    BY <1>6, <2>2
  <2>. HIDE DEF p
  <2>4. NoMore(n)'
    BY <1>1, <1>4, <1>5, <1>6, <1>7, <2>2, <2>3, Short
  <2>. QED  BY <2>4
<1>. QED  BY <1>8, <1>9

\* read_next at a field of an output.
LEMMA AtAField ==
  ASSUME Arrived, NEW n, Reading(n), pc \in Fields
  PROVE  LET c == campaign[n + 1]
             o == c.outputs[i + 1]
             start == Off(campaign, n) + RecOff(c, i)
         IN  /\ Fine(n) /\ campaign \in Campaigns /\ n \in 0 .. Len(campaign) - 1
             /\ i \in Nat /\ Len(c.outputs) \in Nat /\ i \in 0 .. Len(c.outputs) - 1
             /\ i + 1 \in 1 .. Len(c.outputs)
             /\ OutputOK(o) /\ start \in Nat
             /\ pos = start + FieldOff(o, pc)
             /\ results = Gathered(c, InputSlot(c.input), i + 1, Partly(o, pc))
             /\ pc = "so" => string_length = Len(o.so)
             /\ pc = "result" => string_length = Len(o.result)
<1>. DEFINE c == campaign[n + 1]
            o == c.outputs[i + 1]
            start == Off(campaign, n) + RecOff(c, i)
<1>1. Fine(n) /\ AtField(n) /\ campaign \in Campaigns
  BY DEF Reading, AtCohort, AtInput, AtPrint, Fields, Arrived
<1>2. n \in 0 .. Len(campaign) - 1
  BY <1>1 DEF Fine
<1>3. i \in 0 .. Len(c.outputs) - 1
  BY <1>1 DEF AtField
<1>4. CohortOK(c)
  BY <1>1, <1>2, HeadLies
<1>5. Len(c.outputs) \in Nat
  BY <1>4 DEF CohortOK
<1>6. i \in Nat /\ i + 1 \in 1 .. Len(c.outputs)
  BY <1>3, <1>5
<1>7. OutputOK(o) /\ start \in Nat
  BY <1>1, <1>2, <1>3, FieldLies
<1>. QED  BY <1>1, <1>2, <1>3, <1>5, <1>6, <1>7 DEF AtField

\* The places of the fields, and what lies there.
LEMMA FieldPlaces ==
  ASSUME Arrived, NEW n, Reading(n), pc \in Fields
  PROVE  LET c == campaign[n + 1]
             o == c.outputs[i + 1]
             start == Off(campaign, n) + RecOff(c, i)
             B == Stream(campaign)
         IN  /\ Len(o.so) \in Nat /\ Len(o.result) \in Nat /\ o.status \in Nat /\ o.ndecoded \in Nat
             /\ o.so \in Seq(Int) /\ o.result \in Seq(Int)
             /\ Off(campaign, n) \in Nat /\ Off(campaign, n) <= pos /\ pos \in Nat
             /\ start + (16 + Len(o.so) + Len(o.result)) <= Off(campaign, n + 1)
             /\ Off(campaign, n) + RecOff(c, i + 1) = start + (16 + Len(o.so) + Len(o.result))
             /\ pc = "so_len"   => pos = start /\ Lies(B, pos, Number(Len(o.so), 8))
             /\ pc = "so"       => pos = start + 8 /\ Lies(B, pos, o.so)
             /\ pc = "status"   => pos = start + (8 + Len(o.so)) /\ Lies(B, pos, Number(o.status, 4))
             /\ pc = "ndecoded" => pos = start + (12 + Len(o.so)) /\ Lies(B, pos, Number(o.ndecoded, 2))
             /\ pc = "len"      => pos = start + (14 + Len(o.so)) /\ Lies(B, pos, Number(Len(o.result), 2))
             /\ pc = "result"   => pos = start + (16 + Len(o.so)) /\ Lies(B, pos, o.result)
<1>. DEFINE c == campaign[n + 1]
            o == c.outputs[i + 1]
            base == Off(campaign, n)
            start == base + RecOff(c, i)
            B == Stream(campaign)
<1>1. /\ campaign \in Campaigns /\ n \in 0 .. Len(campaign) - 1 /\ i \in 0 .. Len(c.outputs) - 1
      /\ OutputOK(o) /\ start \in Nat /\ pos = start + FieldOff(o, pc)
  BY AtAField
<1>2. /\ base \in Nat /\ base <= start
      /\ base + RecOff(c, i + 1) = start + (16 + Len(o.so) + Len(o.result))
      /\ start + (16 + Len(o.so) + Len(o.result)) <= Off(campaign, n + 1)
      /\ Lies(B, start, Number(Len(o.so), 8))
      /\ Lies(B, start + 8, o.so)
      /\ Lies(B, start + (8 + Len(o.so)), Number(o.status, 4))
      /\ Lies(B, start + (12 + Len(o.so)), Number(o.ndecoded, 2))
      /\ Lies(B, start + (14 + Len(o.so)), Number(Len(o.result), 2))
      /\ Lies(B, start + (16 + Len(o.so)), o.result)
  BY <1>1, FieldLies
<1>3. /\ o.so \in Seq(Int) /\ o.result \in Seq(Int)
      /\ Len(o.so) \in Nat /\ Len(o.result) \in Nat /\ o.status \in Nat /\ o.ndecoded \in Nat
  BY <1>1, FourParts
<1>. HIDE DEF start, B, base
<1>4. /\ pc = "so_len"   => pos = start + 0
      /\ pc = "so"       => pos = start + 8
      /\ pc = "status"   => pos = start + (8 + Len(o.so))
      /\ pc = "ndecoded" => pos = start + (12 + Len(o.so))
      /\ pc = "len"      => pos = start + (14 + Len(o.so))
      /\ pc = "result"   => pos = start + (16 + Len(o.so))
  <2>. HIDE DEF o
  <2>1. \A at \in Fields : FieldOff(o, at) =
          IF at = "so_len" THEN 0 ELSE IF at = "so" THEN 8
          ELSE IF at = "status" THEN 8 + Len(o.so) ELSE IF at = "ndecoded" THEN 12 + Len(o.so)
          ELSE IF at = "len" THEN 14 + Len(o.so) ELSE 16 + Len(o.so)
    BY DEF FieldOff, Fields
  <2>. QED  BY <1>1, <2>1
<1>5. start + 0 = start
  BY <1>1
<1>6. base <= pos /\ pos \in Nat
  <2>. HIDE DEF o
  <2>1. pos = start \/ pos = start + 8 \/ pos = start + (8 + Len(o.so)) \/ pos = start + (12 + Len(o.so))
        \/ pos = start + (14 + Len(o.so)) \/ pos = start + (16 + Len(o.so))
    BY <1>1, <1>4, <1>5 DEF Fields
  <2>. DEFINE x == Len(o.so)
  <2>2. x \in Nat /\ base \in Nat /\ start \in Nat /\ base <= start
    BY <1>1, <1>2, <1>3
  <2>. HIDE DEF x
  <2>3. pos = start \/ pos = start + 8 \/ pos = start + (8 + x) \/ pos = start + (12 + x)
        \/ pos = start + (14 + x) \/ pos = start + (16 + x)
    BY <2>1 DEF x
  <2>. QED  BY <2>2, <2>3
<1>. HIDE DEF o
<1>. QED  BY <1>2, <1>3, <1>4, <1>5, <1>6 DEF start, B, base, o

\* One item of an output is read, or the stream ends.
LEMMA ItemReading ==
  ASSUME Arrived, NEW n, Reading(n), pc \in Fields,
         NEW f \in Seq(Int), Lies(Stream(campaign), pos, f),
         NEW size \in Nat, size # 0, Len(f) = size, pos + size <= Off(campaign, n + 1),
         MFread(size, 1), printed' = printed
  PROVE  \/ /\ Fine(n)' /\ campaign' = campaign
            /\ Found(size) = f /\ pos' = pos + size
         \/ NoMore(n)'
<1>. DEFINE p == pos
<1>1. /\ Fine(n) /\ p \in Nat /\ Off(campaign, n) <= p
  BY AtAField, FieldPlaces
<1>2. p <= Len(stream) /\ ~m_finished_parsing /\ pos = p
  BY <1>1 DEF Fine
<1>3. /\ campaign' = campaign /\ stream' = stream
      /\ p + size <= Len(stream) => Found(size) = f /\ pos' = p + size /\ ~m_finished_parsing'
      /\ p + size > Len(stream) => m_finished_parsing'
  <2>1. Lies(Stream(campaign), p, f) /\ p \in Nat
    BY <1>1
  <2>2. /\ campaign' = campaign /\ stream' = stream
        /\ p + size <= Len(stream) => Found(size) = f /\ pos' = p + size /\ ~m_finished_parsing'
    <3>. HIDE DEF p
    <3>. QED  BY <1>2, <2>1, ReadsItem, Zenon
  <2>3. p + size > Len(stream) => m_finished_parsing'
    <3>. HIDE DEF p
    <3>. QED  BY <1>2, <2>1, ReadsItem, Zenon
  <2>. QED  BY <2>2, <2>3
<1>4. Len(stream) \in Nat
  BY Reads, <1>2
<1>5. CASE p + size <= Len(stream)
  <2>1. Fine(n)'
    BY <1>1, <1>3, <1>5 DEF Fine
  <2>. QED  BY <1>3, <1>5, <2>1
<1>6. CASE ~(p + size <= Len(stream))
  <2>1. p + size > Len(stream)
    BY <1>1, <1>4, <1>6
  <2>2. p + size <= Off(campaign, n + 1)
    OBVIOUS
  <2>. HIDE DEF p
  <2>3. NoMore(n)'
    BY <1>1, <1>2, <1>3, <2>1, <2>2, Short
  <2>. QED  BY <2>3
<1>. QED  BY <1>5, <1>6

\* The length of a name is read, or the stream ends in it.
LEMMA SoLenReading ==
  ASSUME Arrived, NEW n, Reading(n), ReadLength("so_len", 8, "so")
  PROVE  Reading(n)' \/ NoMore(n)'
<1>. DEFINE c == campaign[n + 1]
            o == c.outputs[i + 1]
            start == Off(campaign, n) + RecOff(c, i)
            f == Number(Len(o.so), 8)
<1>1. pc = "so_len" /\ pc \in Fields
  BY DEF ReadLength, Fields
<1>2. /\ MFread(8, 1) /\ string_length' = Over(Found(8), 0) /\ pc' = "so"
      /\ UNCHANGED <<results, i, mode, printed, document>>
  BY DEF ReadLength
<1>3. /\ start \in Nat /\ i \in 0 .. Len(c.outputs) - 1
      /\ results = Gathered(c, InputSlot(c.input), i + 1, Partly(o, "so_len"))
  BY <1>1, AtAField
<1>4. /\ Len(o.so) \in Nat /\ Len(o.result) \in Nat /\ pos = start /\ Lies(Stream(campaign), pos, f)
      /\ start + (16 + Len(o.so) + Len(o.result)) <= Off(campaign, n + 1)
  BY <1>1, FieldPlaces
<1>5. f \in Seq(Int) /\ Len(f) = 8 /\ Over(f, 0) = Len(o.so)
  <2>1. 8 \in Nat /\ 8 >= 2
    OBVIOUS
  <2>. DEFINE l == Len(o.so)
  <2>2. l \in Nat
    BY <1>4
  <2>. HIDE DEF l
  <2>3. Number(l, 8) \in Seq(Int) /\ Len(Number(l, 8)) = 8 /\ Over(Number(l, 8), 0) = l
    BY <2>1, <2>2, NumberType, OverNumber
  <2>. QED  BY <2>3 DEF l
<1>. HIDE DEF f
<1>6. pos + 8 <= Off(campaign, n + 1)
  <2>1. Off(campaign, n + 1) \in Int
    <3>1. n + 1 \in 0 .. Len(campaign) /\ campaign \in Campaigns
      BY <1>1, AtAField, StreamLies
    <3>. QED  BY <3>1, StreamLies
  <2>. DEFINE x == Len(o.so)
              y == Len(o.result)
  <2>. HIDE DEF start, x, y
  <2>2. pos = start /\ start \in Nat /\ x \in Nat /\ y \in Nat
        /\ start + (16 + x + y) <= Off(campaign, n + 1)
    BY <1>3, <1>4 DEF x, y
  <2>. QED  BY <2>1, <2>2
<1>7. \/ /\ Fine(n)' /\ campaign' = campaign /\ Found(8) = f /\ pos' = pos + 8
      \/ NoMore(n)'
  <2>1. 8 \in Nat /\ 8 # 0 /\ printed' = printed
    BY <1>2
  <2>. QED  BY <1>1, <1>2, <1>4, <1>5, <1>6, <2>1, ItemReading
<1>8. ASSUME Fine(n)', campaign' = campaign, Found(8) = f, pos' = pos + 8
      PROVE  AtField(n)'
  <2>1. Partly(o, "so") = Partly(o, "so_len")
    BY DEF Partly
  <2>2. pos' = start + FieldOff(o, "so")
    BY <1>3, <1>4, <1>8 DEF FieldOff
  <2>3. string_length' = Len(o.so)
    BY <1>2, <1>5, <1>8
  <2>. QED  BY <1>2, <1>3, <1>8, <2>1, <2>2, <2>3 DEF AtField, Fields
<1>. QED  BY <1>7, <1>8 DEF Reading

\* There is a byte less in front of the end of a cohort.
LEMMA EndOffset ==
  ASSUME Arrived, NEW n, Reading(n), pc \in Fields
  PROVE  Off(campaign, n + 1) \in Nat
<1>1. n + 1 \in 0 .. Len(campaign) /\ campaign \in Campaigns
  BY AtAField, StreamLies
<1>. QED  BY <1>1, StreamLies

\* A number is read from its bytes.
LEMMA NumberReads ==
  ASSUME NEW l \in Nat, NEW size \in Nat, size >= 2
  PROVE  /\ Number(l, size) \in Seq(Int) /\ Len(Number(l, size)) = size /\ size # 0
         /\ Over(Number(l, size), 0) = l
<1>1. Number(l, size) \in Seq(Int) /\ Len(Number(l, size)) = size /\ size # 0
  BY NumberType
<1>2. Over(Number(l, size), 0) = l
  BY OverNumber
<1>. QED  BY <1>1, <1>2

\* The length of a text is read, or the stream ends in it.
LEMMA LenReading ==
  ASSUME Arrived, NEW n, Reading(n), ReadLength("len", 2, "result")
  PROVE  Reading(n)' \/ NoMore(n)'
<1>. DEFINE c == campaign[n + 1]
            o == c.outputs[i + 1]
            start == Off(campaign, n) + RecOff(c, i)
            x == Len(o.so)
            y == Len(o.result)
            f == Number(y, 2)
<1>1. pc = "len" /\ pc \in Fields
  BY DEF ReadLength, Fields
<1>2. /\ MFread(2, 1) /\ string_length' = Over(Found(2), 0) /\ pc' = "result"
      /\ UNCHANGED <<results, i, mode, printed, document>>
  BY DEF ReadLength
<1>3. /\ start \in Nat /\ i \in 0 .. Len(c.outputs) - 1
      /\ results = Gathered(c, InputSlot(c.input), i + 1, Partly(o, "len"))
  BY <1>1, AtAField
<1>4. /\ x \in Nat /\ y \in Nat /\ pos = start + (14 + x) /\ Lies(Stream(campaign), pos, f)
      /\ start + (16 + x + y) <= Off(campaign, n + 1)
  BY <1>1, FieldPlaces
<1>5. f \in Seq(Int) /\ Len(f) = 2 /\ Over(f, 0) = y
  <2>. HIDE DEF y
  <2>1. 2 \in Nat /\ 2 >= 2
    OBVIOUS
  <2>. QED  BY <1>4, <2>1, NumberReads
<1>. HIDE DEF f
<1>6. Off(campaign, n + 1) \in Nat
  BY <1>1, EndOffset
<1>7. pos + 2 <= Off(campaign, n + 1) /\ pos + 2 = start + (16 + x)
  <2>. HIDE DEF start, x, y
  <2>1. /\ x \in Nat /\ y \in Nat /\ pos = start + (14 + x) /\ start \in Nat
        /\ start + (16 + x + y) <= Off(campaign, n + 1)
    BY <1>3, <1>4
  <2>. QED  BY <1>6, <2>1
<1>8. \/ /\ Fine(n)' /\ campaign' = campaign /\ Found(2) = f /\ pos' = pos + 2
      \/ NoMore(n)'
  <2>1. 2 \in Nat /\ 2 # 0 /\ printed' = printed
    BY <1>2
  <2>. QED  BY <1>1, <1>2, <1>4, <1>5, <1>7, <2>1, ItemReading
<1>9. ASSUME Fine(n)', campaign' = campaign, Found(2) = f, pos' = pos + 2
      PROVE  AtField(n)'
  <2>1. Partly(o, "result") = Partly(o, "len")
    BY DEF Partly
  <2>2. pos' = start + FieldOff(o, "result")
    BY <1>7, <1>9 DEF FieldOff
  <2>3. string_length' = y
    BY <1>2, <1>5, <1>9
  <2>. QED  BY <1>2, <1>3, <1>9, <2>1, <2>2, <2>3 DEF AtField, Fields
<1>. QED  BY <1>8, <1>9 DEF Reading

\* A field of the output that is being read is set.
SetSo(r, w, v)       == [r EXCEPT !.outputs[w].so = v]
SetStatus(r, w, v)   == [r EXCEPT !.outputs[w].status = v]
SetNDecoded(r, w, v) == [r EXCEPT !.outputs[w].ndecoded = v]

\* What the fields of an output are assigned.
LEMMA SoSet ==
  ASSUME NEW c, NEW input, NEW w \in 1 .. Len(c.outputs), Len(c.outputs) \in Nat, NEW x, NEW v,
         NEW y, y = [x EXCEPT !.so = v]
  PROVE  SetSo(Gathered(c, input, w, x), w, v) = Gathered(c, input, w, y)
<1>. DEFINE r == Gathered(c, input, w, x)
<1>1. r.outputs[w] = x /\ SetOutput(r, w, y) = Gathered(c, input, w, y)
  BY GatheredAt, GatheredSet
<1>. HIDE DEF r
<1>2. SetSo(r, w, v) = [r EXCEPT !.outputs[w] = [r.outputs[w] EXCEPT !.so = v]]
  BY DEF SetSo
<1>3. SetSo(r, w, v) = SetOutput(r, w, y)
  BY <1>1, <1>2 DEF SetOutput
<1>. QED  BY <1>1, <1>3 DEF r

LEMMA StatusSet ==
  ASSUME NEW c, NEW input, NEW w \in 1 .. Len(c.outputs), Len(c.outputs) \in Nat, NEW x, NEW v,
         NEW y, y = [x EXCEPT !.status = v]
  PROVE  SetStatus(Gathered(c, input, w, x), w, v) = Gathered(c, input, w, y)
<1>. DEFINE r == Gathered(c, input, w, x)
<1>1. r.outputs[w] = x /\ SetOutput(r, w, y) = Gathered(c, input, w, y)
  BY GatheredAt, GatheredSet
<1>. HIDE DEF r
<1>2. SetStatus(r, w, v) = [r EXCEPT !.outputs[w] = [r.outputs[w] EXCEPT !.status = v]]
  BY DEF SetStatus
<1>3. SetStatus(r, w, v) = SetOutput(r, w, y)
  BY <1>1, <1>2 DEF SetOutput
<1>. QED  BY <1>1, <1>3 DEF r

LEMMA NDecodedSet ==
  ASSUME NEW c, NEW input, NEW w \in 1 .. Len(c.outputs), Len(c.outputs) \in Nat, NEW x, NEW v,
         NEW y, y = [x EXCEPT !.ndecoded = v]
  PROVE  SetNDecoded(Gathered(c, input, w, x), w, v) = Gathered(c, input, w, y)
<1>. DEFINE r == Gathered(c, input, w, x)
<1>1. r.outputs[w] = x /\ SetOutput(r, w, y) = Gathered(c, input, w, y)
  BY GatheredAt, GatheredSet
<1>. HIDE DEF r
<1>2. SetNDecoded(r, w, v) = [r EXCEPT !.outputs[w] = [r.outputs[w] EXCEPT !.ndecoded = v]]
  BY DEF SetNDecoded
<1>3. SetNDecoded(r, w, v) = SetOutput(r, w, y)
  BY <1>1, <1>2 DEF SetOutput
<1>. QED  BY <1>1, <1>3 DEF r

\* The status is read, or the stream ends in it.
LEMMA StatusReading ==
  ASSUME Arrived, NEW n, Reading(n), ReadStatus
  PROVE  Reading(n)' \/ NoMore(n)'
<1>. DEFINE c == campaign[n + 1]
            o == c.outputs[i + 1]
            start == Off(campaign, n) + RecOff(c, i)
            x == Len(o.so)
            y == Len(o.result)
            z == o.status
            f == Number(z, 4)
<1>1. pc = "status" /\ pc \in Fields
  BY DEF ReadStatus, Fields
<1>2. /\ MFread(4, 1) /\ pc' = "ndecoded"
      /\ results' = [results EXCEPT !.outputs[i + 1].status = Over(Found(4), 0)]
      /\ UNCHANGED <<string_length, i, mode, printed, document>>
  BY DEF ReadStatus
<1>3. /\ start \in Nat /\ i \in 0 .. Len(c.outputs) - 1
      /\ results = Gathered(c, InputSlot(c.input), i + 1, Partly(o, "status"))
      /\ i + 1 \in 1 .. Len(c.outputs) /\ Len(c.outputs) \in Nat
  BY <1>1, AtAField
<1>4. /\ x \in Nat /\ y \in Nat /\ pos = start + (8 + x) /\ Lies(Stream(campaign), pos, f)
      /\ start + (16 + x + y) <= Off(campaign, n + 1) /\ z \in Nat
  BY <1>1, FieldPlaces
<1>5. f \in Seq(Int) /\ Len(f) = 4 /\ Over(f, 0) = z
  <2>. HIDE DEF z
  <2>1. 4 \in Nat /\ 4 >= 2
    OBVIOUS
  <2>. QED  BY <1>4, <2>1, NumberReads
<1>. HIDE DEF f
<1>6. Off(campaign, n + 1) \in Nat
  BY <1>1, EndOffset
<1>7. pos + 4 <= Off(campaign, n + 1) /\ pos + 4 = start + (12 + x)
  <2>. HIDE DEF start, x, y
  <2>1. /\ x \in Nat /\ y \in Nat /\ pos = start + (8 + x) /\ start \in Nat
        /\ start + (16 + x + y) <= Off(campaign, n + 1)
    BY <1>3, <1>4
  <2>. QED  BY <1>6, <2>1
<1>8. \/ /\ Fine(n)' /\ campaign' = campaign /\ Found(4) = f /\ pos' = pos + 4
      \/ NoMore(n)'
  <2>1. 4 \in Nat /\ 4 # 0 /\ printed' = printed
    BY <1>2
  <2>. QED  BY <1>1, <1>2, <1>4, <1>5, <1>7, <2>1, ItemReading
<1>9. ASSUME Fine(n)', campaign' = campaign, Found(4) = f, pos' = pos + 4
      PROVE  AtField(n)'
  <2>1. [Partly(o, "status") EXCEPT !.status = z] = Partly(o, "ndecoded")
    BY DEF Partly
  <2>2. pos' = start + FieldOff(o, "ndecoded")
    BY <1>7, <1>9 DEF FieldOff
  <2>3. results' = Gathered(c, InputSlot(c.input), i + 1, Partly(o, "ndecoded"))
    <3>. DEFINE slot == InputSlot(c.input)
                w == i + 1
                part == Partly(o, "status")
                next == Partly(o, "ndecoded")
    <3>1. results' = SetStatus(results, w, z)
      BY <1>2, <1>5, <1>9 DEF SetStatus
    <3>2. w \in 1 .. Len(c.outputs) /\ Len(c.outputs) \in Nat /\ results = Gathered(c, slot, w, part)
      BY <1>3
    <3>3. next = [part EXCEPT !.status = z]
      BY <2>1
    <3>. HIDE DEF c, z, slot, w, part, next
    <3>4. SetStatus(Gathered(c, slot, w, part), w, z) = Gathered(c, slot, w, next)
      BY <3>2, <3>3, StatusSet
    <3>5. results' = Gathered(c, slot, w, next)
      BY <3>1, <3>2, <3>4
    <3>. QED  BY <3>5 DEF slot, w, next
  <2>. QED  BY <1>2, <1>3, <1>9, <2>2, <2>3 DEF AtField, Fields
<1>. QED  BY <1>8, <1>9 DEF Reading

\* The decoded length is read, or the stream ends in it.
LEMMA NDecodedReading ==
  ASSUME Arrived, NEW n, Reading(n), ReadNDecoded
  PROVE  Reading(n)' \/ NoMore(n)'
<1>. DEFINE c == campaign[n + 1]
            o == c.outputs[i + 1]
            start == Off(campaign, n) + RecOff(c, i)
            x == Len(o.so)
            y == Len(o.result)
            z == o.ndecoded
            f == Number(z, 2)
<1>1. pc = "ndecoded" /\ pc \in Fields
  BY DEF ReadNDecoded, Fields
<1>2. /\ MFread(2, 1) /\ pc' = "len"
      /\ results' = [results EXCEPT !.outputs[i + 1].ndecoded = Over(Found(2), 0)]
      /\ UNCHANGED <<string_length, i, mode, printed, document>>
  BY DEF ReadNDecoded
<1>3. /\ start \in Nat /\ i \in 0 .. Len(c.outputs) - 1
      /\ results = Gathered(c, InputSlot(c.input), i + 1, Partly(o, "ndecoded"))
      /\ i + 1 \in 1 .. Len(c.outputs) /\ Len(c.outputs) \in Nat
  BY <1>1, AtAField
<1>4. /\ x \in Nat /\ y \in Nat /\ pos = start + (12 + x) /\ Lies(Stream(campaign), pos, f)
      /\ start + (16 + x + y) <= Off(campaign, n + 1) /\ z \in Nat
  BY <1>1, FieldPlaces
<1>5. f \in Seq(Int) /\ Len(f) = 2 /\ Over(f, 0) = z
  <2>. HIDE DEF z
  <2>1. 2 \in Nat /\ 2 >= 2
    OBVIOUS
  <2>. QED  BY <1>4, <2>1, NumberReads
<1>. HIDE DEF f
<1>6. Off(campaign, n + 1) \in Nat
  BY <1>1, EndOffset
<1>7. pos + 2 <= Off(campaign, n + 1) /\ pos + 2 = start + (14 + x)
  <2>. HIDE DEF start, x, y
  <2>1. /\ x \in Nat /\ y \in Nat /\ pos = start + (12 + x) /\ start \in Nat
        /\ start + (16 + x + y) <= Off(campaign, n + 1)
    BY <1>3, <1>4
  <2>. QED  BY <1>6, <2>1
<1>8. \/ /\ Fine(n)' /\ campaign' = campaign /\ Found(2) = f /\ pos' = pos + 2
      \/ NoMore(n)'
  <2>1. 2 \in Nat /\ 2 # 0 /\ printed' = printed
    BY <1>2
  <2>. QED  BY <1>1, <1>2, <1>4, <1>5, <1>7, <2>1, ItemReading
<1>9. ASSUME Fine(n)', campaign' = campaign, Found(2) = f, pos' = pos + 2
      PROVE  AtField(n)'
  <2>1. [Partly(o, "ndecoded") EXCEPT !.ndecoded = z] = Partly(o, "len")
    BY DEF Partly
  <2>2. pos' = start + FieldOff(o, "len")
    BY <1>7, <1>9 DEF FieldOff
  <2>3. results' = Gathered(c, InputSlot(c.input), i + 1, Partly(o, "len"))
    <3>. DEFINE slot == InputSlot(c.input)
                w == i + 1
                part == Partly(o, "ndecoded")
                next == Partly(o, "len")
    <3>1. results' = SetNDecoded(results, w, z)
      BY <1>2, <1>5, <1>9 DEF SetNDecoded
    <3>2. w \in 1 .. Len(c.outputs) /\ Len(c.outputs) \in Nat /\ results = Gathered(c, slot, w, part)
      BY <1>3
    <3>3. next = [part EXCEPT !.ndecoded = z]
      BY <2>1
    <3>. HIDE DEF c, z, slot, w, part, next
    <3>4. SetNDecoded(Gathered(c, slot, w, part), w, z) = Gathered(c, slot, w, next)
      BY <3>2, <3>3, NDecodedSet
    <3>5. results' = Gathered(c, slot, w, next)
      BY <3>1, <3>2, <3>4
    <3>. QED  BY <3>5 DEF slot, w, next
  <2>. QED  BY <1>2, <1>3, <1>9, <2>2, <2>3 DEF AtField, Fields
<1>. QED  BY <1>8, <1>9 DEF Reading

\* A text of an output is read, or the stream ends in front of it, or in it.
LEMMA TextReading ==
  ASSUME Arrived, NEW n, Reading(n), pc \in Fields,
         NEW f \in Seq(Int), Lies(Stream(campaign), pos, f),
         NEW l \in Nat, Len(f) = l, pos + l <= Off(campaign, n + 1),
         MFread(1, l), printed' = printed
  PROVE  /\ campaign' = campaign /\ stream' = stream
         /\ \/ Fine(n)' /\ Padded(l) = f /\ pos' = pos + l
            \/ NoMore(n)'
            \/ /\ pos' = Len(stream) /\ ((WillSee' \/ AtCut(n)') => NoMore(n)')
               /\ \E k \in 1 .. l - 1 : Padded(l) = SubSeq(f, 1, k) \o Zeros(l - k)
<1>. DEFINE p == pos
            m == Len(stream) - p
<1>1. /\ Fine(n) /\ p \in Nat /\ Off(campaign, n) <= p
  BY AtAField, FieldPlaces
<1>2. p <= Len(stream) /\ ~m_finished_parsing /\ pos = p
  BY <1>1 DEF Fine
<1>3. /\ campaign' = campaign /\ stream' = stream
      /\ p + l <= Len(stream) => Padded(l) = f /\ pos' = p + l /\ ~m_finished_parsing'
      /\ p + l > Len(stream) =>
           \/ m_finished_parsing'
           \/ /\ pos' = Len(stream) /\ m \in 1 .. l - 1
              /\ Padded(l) = SubSeq(f, 1, m) \o Zeros(l - m)
  <2>1. Lies(Stream(campaign), p, f) /\ p \in Nat
    BY <1>1
  <2>. HIDE DEF p
  <2>2. /\ campaign' = campaign /\ stream' = stream
        /\ p + l <= Len(stream) => Padded(l) = f /\ pos' = p + l /\ ~m_finished_parsing'
    BY <1>2, <2>1, ReadsText, Zenon
  <2>3. p + l > Len(stream) =>
           \/ m_finished_parsing'
           \/ /\ pos' = Len(stream) /\ m \in 1 .. l - 1
              /\ Padded(l) = SubSeq(f, 1, m) \o Zeros(l - m)
    BY <1>2, <2>1, ReadsText, Zenon
  <2>. HIDE DEF m
  <2>. QED  BY <2>2, <2>3
<1>4. Len(stream) \in Nat
  BY Reads, <1>2
<1>5. CASE p + l <= Len(stream)
  <2>1. Fine(n)'
    BY <1>1, <1>3, <1>5 DEF Fine
  <2>. QED  BY <1>3, <1>5, <2>1
<1>6. CASE ~(p + l <= Len(stream))
  <2>1. p + l > Len(stream)
    BY <1>1, <1>4, <1>6
  <2>2. p + l <= Off(campaign, n + 1)
    OBVIOUS
  <2>3. (m_finished_parsing' \/ WillSee' \/ AtCut(n)') => NoMore(n)'
    <3>. HIDE DEF p
    <3>. QED  BY <1>1, <1>2, <1>3, <2>1, <2>2, Short
  <2>. HIDE DEF m, p
  <2>. QED  BY <1>3, <2>1, <2>3
<1>. QED  BY <1>5, <1>6

\* The name is read, or the stream ends in it.
LEMMA SoReading ==
  ASSUME Arrived, NEW n, Reading(n), ReadSo
  PROVE  Reading(n)' \/ NoMore(n)'
<1>. DEFINE c == campaign[n + 1]
            o == c.outputs[i + 1]
            start == Off(campaign, n) + RecOff(c, i)
            x == Len(o.so)
            y == Len(o.result)
            f == o.so
<1>1. pc = "so" /\ pc \in Fields
  BY DEF ReadSo, Fields
<1>2. /\ MFread(1, string_length) /\ pc' = "status"
      /\ results' = [results EXCEPT !.outputs[i + 1].so = Padded(string_length)]
      /\ UNCHANGED <<string_length, i, mode, printed, document>>
  BY DEF ReadSo
<1>3. /\ start \in Nat /\ i \in 0 .. Len(c.outputs) - 1
      /\ results = Gathered(c, InputSlot(c.input), i + 1, Partly(o, "so"))
      /\ i + 1 \in 1 .. Len(c.outputs) /\ Len(c.outputs) \in Nat
      /\ string_length = x
  BY <1>1, AtAField
<1>4. /\ x \in Nat /\ y \in Nat /\ pos = start + 8 /\ Lies(Stream(campaign), pos, f)
      /\ start + (16 + x + y) <= Off(campaign, n + 1) /\ f \in Seq(Int)
  BY <1>1, FieldPlaces
<1>5. Len(f) = x /\ MFread(1, x)
  BY <1>2, <1>3
<1>6. Off(campaign, n + 1) \in Nat
  BY <1>1, EndOffset
<1>. HIDE DEF f
<1>7. pos + x <= Off(campaign, n + 1) /\ pos + x = start + (8 + x)
  <2>. HIDE DEF start, x, y
  <2>1. /\ x \in Nat /\ y \in Nat /\ pos = start + 8 /\ start \in Nat
        /\ start + (16 + x + y) <= Off(campaign, n + 1)
    BY <1>3, <1>4
  <2>. QED  BY <1>6, <2>1
<1>8. /\ campaign' = campaign /\ stream' = stream
      /\ \/ Fine(n)' /\ Padded(x) = f /\ pos' = pos + x
         \/ NoMore(n)'
         \/ pos' = Len(stream) /\ (WillSee' => NoMore(n)')
  <2>1. printed' = printed
    BY <1>2
  <2>. HIDE DEF x
  <2>2. /\ campaign' = campaign /\ stream' = stream
        /\ \/ Fine(n)' /\ Padded(x) = f /\ pos' = pos + x
           \/ NoMore(n)'
           \/ /\ pos' = Len(stream) /\ ((WillSee' \/ AtCut(n)') => NoMore(n)')
              /\ \E k \in 1 .. x - 1 : Padded(x) = SubSeq(f, 1, k) \o Zeros(x - k)
    BY <1>1, <1>4, <1>5, <1>7, <2>1, TextReading
  <2>. QED  BY <2>2
<1>9. ASSUME Fine(n)', Padded(x) = f, pos' = pos + x
      PROVE  AtField(n)'
  <2>1. [Partly(o, "so") EXCEPT !.so = f] = Partly(o, "status")
    BY DEF Partly, f
  <2>2. pos' = start + FieldOff(o, "status")
    BY <1>7, <1>9 DEF FieldOff
  <2>3. results' = Gathered(c, InputSlot(c.input), i + 1, Partly(o, "status"))
    <3>. DEFINE slot == InputSlot(c.input)
                w == i + 1
                part == Partly(o, "so")
                next == Partly(o, "status")
    <3>1. results' = SetSo(results, w, f)
      BY <1>2, <1>3, <1>9 DEF SetSo
    <3>2. w \in 1 .. Len(c.outputs) /\ Len(c.outputs) \in Nat /\ results = Gathered(c, slot, w, part)
      BY <1>3
    <3>3. next = [part EXCEPT !.so = f]
      BY <2>1
    <3>. HIDE DEF c, slot, w, part, next
    <3>4. SetSo(Gathered(c, slot, w, part), w, f) = Gathered(c, slot, w, next)
      BY <3>2, <3>3, SoSet
    <3>5. results' = Gathered(c, slot, w, next)
      BY <3>1, <3>2, <3>4
    <3>. QED  BY <3>5 DEF slot, w, next
  <2>. QED  BY <1>2, <1>3, <1>8, <1>9, <2>2, <2>3 DEF AtField, Fields
<1>10. pos' = Len(stream) => WillSee'
  BY <1>2, <1>8 DEF WillSee
<1>. QED  BY <1>8, <1>9, <1>10 DEF Reading

SetResult(r, w, l, t) == [r EXCEPT !.outputs[w].len = l, !.outputs[w].result = t]

SetText(x, l, t) == [[x EXCEPT !.len = l] EXCEPT !.result = t]

\* What the text of an output is assigned.
LEMMA ResultSet ==
  ASSUME NEW c, NEW input, NEW w \in 1 .. Len(c.outputs), Len(c.outputs) \in Nat, NEW x, NEW l, NEW t
  PROVE  SetResult(Gathered(c, input, w, x), w, l, t) = Gathered(c, input, w, SetText(x, l, t))
<1>. DEFINE r == Gathered(c, input, w, x)
            y == [x EXCEPT !.len = l]
            z == SetText(x, l, t)
            s == Gathered(c, input, w, y)
<1>1. /\ r.outputs[w] = x /\ SetOutput(r, w, y) = s
      /\ s.outputs[w] = y /\ SetOutput(s, w, z) = Gathered(c, input, w, z)
  <2>. HIDE DEF y, z
  <2>. QED  BY GatheredAt, GatheredSet
<1>2. z = [y EXCEPT !.result = t]
  BY DEF SetText
<1>. HIDE DEF r, s, z
<1>3. SetResult(r, w, l, t) = [[r EXCEPT !.outputs[w].len = l] EXCEPT !.outputs[w].result = t]
  BY DEF SetResult
<1>4. [r EXCEPT !.outputs[w].len = l] = [r EXCEPT !.outputs[w] = [r.outputs[w] EXCEPT !.len = l]]
  OBVIOUS
<1>. HIDE DEF y
<1>5. y = [x EXCEPT !.len = l]
  BY DEF y
<1>6. [r EXCEPT !.outputs[w].len = l] = s
  <2>1. [r.outputs[w] EXCEPT !.len = l] = y
    BY <1>1, <1>5
  <2>. QED  BY <2>1, <1>1, <1>4 DEF SetOutput
<1>7. [s EXCEPT !.outputs[w].result = t] = [s EXCEPT !.outputs[w] = [s.outputs[w] EXCEPT !.result = t]]
  OBVIOUS
<1>8. [s EXCEPT !.outputs[w].result = t] = Gathered(c, input, w, z)
  <2>1. [s.outputs[w] EXCEPT !.result = t] = z
    BY <1>1, <1>2
  <2>. QED  BY <1>1, <1>7, <2>1 DEF SetOutput
<1>9. SetResult(r, w, l, t) = Gathered(c, input, w, z)
  BY <1>3, <1>6, <1>8
<1>. QED  BY <1>9 DEF r, z

\* The text is read; or the stream ends in it, which is seen unless it was
\* in the last text of the cohort, behind its first byte.
LEMMA ResultReading ==
  ASSUME Arrived, NEW n, Reading(n), ReadResult
  PROVE  Reading(n)' \/ NoMore(n)'
<1>. DEFINE c == campaign[n + 1]
            W == Len(c.outputs)
            o == c.outputs[i + 1]
            slot == InputSlot(c.input)
            base == Off(campaign, n)
            start == base + RecOff(c, i)
            x == Len(o.so)
            y == Len(o.result)
            f == o.result
<1>1. pc = "result" /\ pc \in Fields
  BY DEF ReadResult, Fields
<1>2. /\ MFread(1, string_length) /\ NextWorker(i + 1, results.nworkers)
      /\ results' = [results EXCEPT !.outputs[i + 1].len = string_length,
                                    !.outputs[i + 1].result = Padded(string_length)]
      /\ UNCHANGED <<string_length, mode, printed, document>>
  BY DEF ReadResult
<1>3. /\ start \in Nat /\ i \in 0 .. W - 1 /\ Fine(n) /\ n \in 0 .. Len(campaign) - 1
      /\ results = Gathered(c, slot, i + 1, Partly(o, "result"))
      /\ i + 1 \in 1 .. W /\ W \in Nat /\ i \in Nat
      /\ string_length = y
  BY <1>1, AtAField
<1>4. /\ x \in Nat /\ y \in Nat /\ pos = start + (16 + x) /\ Lies(Stream(campaign), pos, f)
      /\ start + (16 + x + y) <= Off(campaign, n + 1) /\ f \in Seq(Int)
      /\ base + RecOff(c, i + 1) = start + (16 + x + y)
  BY <1>1, FieldPlaces
<1>5. Len(f) = y /\ MFread(1, y)
  BY <1>2, <1>3
<1>6. Off(campaign, n + 1) \in Nat
  BY <1>1, EndOffset
<1>. HIDE DEF f
<1>7. pos + y <= Off(campaign, n + 1) /\ pos + y = base + RecOff(c, i + 1)
  <2>. DEFINE e == base + RecOff(c, i + 1)
  <2>1. e = start + (16 + x + y)
    BY <1>4
  <2>. HIDE DEF start, x, y, e
  <2>2. /\ x \in Nat /\ y \in Nat /\ pos = start + (16 + x) /\ start \in Nat
        /\ start + (16 + x + y) <= Off(campaign, n + 1)
    BY <1>3, <1>4
  <2>3. pos + y <= Off(campaign, n + 1) /\ pos + y = e
    BY <1>6, <2>1, <2>2
  <2>. QED  BY <2>3 DEF e
<1>8. /\ campaign' = campaign /\ stream' = stream
      /\ \/ Fine(n)' /\ Padded(y) = f /\ pos' = pos + y
         \/ NoMore(n)'
         \/ /\ pos' = Len(stream) /\ ((WillSee' \/ AtCut(n)') => NoMore(n)')
            /\ \E k \in 1 .. y - 1 : Padded(y) = SubSeq(f, 1, k) \o Zeros(y - k)
  <2>1. printed' = printed
    BY <1>2
  <2>. HIDE DEF y
  <2>. QED  BY <1>1, <1>4, <1>5, <1>7, <2>1, TextReading
<1>9. \A t : Padded(y) = t => results' = Gathered(c, slot, i + 1, Told(o, t))
  <2>. SUFFICES ASSUME NEW t, Padded(y) = t PROVE results' = Gathered(c, slot, i + 1, Told(o, t))
    OBVIOUS
  <2>. DEFINE w == i + 1
              part == Partly(o, "result")
              two == [part EXCEPT !.len = y]
              next == Told(o, t)
  <2>1. results' = SetResult(results, w, y, t)
    BY <1>2, <1>3 DEF SetResult
  <2>2. w \in 1 .. Len(c.outputs) /\ Len(c.outputs) \in Nat /\ results = Gathered(c, slot, w, part)
    BY <1>3
  <2>3. next = [two EXCEPT !.result = t]
    <3>1. two = [workerno |-> Unread, so |-> o.so, status |-> o.status, ndecoded |-> o.ndecoded,
                 len |-> y, result |-> <<>>]
      BY DEF Partly
    <3>. HIDE DEF two
    <3>2. [two EXCEPT !.result = t] =
            [workerno |-> Unread, so |-> o.so, status |-> o.status, ndecoded |-> o.ndecoded,
             len |-> y, result |-> t]
      BY <3>1
    <3>. QED  BY <3>2 DEF Told
  <2>4. next = SetText(part, y, t)
    BY <2>3 DEF SetText
  <2>. HIDE DEF c, slot, w, part, two, next, y
  <2>5. SetResult(Gathered(c, slot, w, part), w, y, t) = Gathered(c, slot, w, SetText(part, y, t))
    BY <2>2, ResultSet
  <2>6. results' = Gathered(c, slot, w, next)
    BY <2>1, <2>2, <2>4, <2>5
  <2>. QED  BY <2>6 DEF w, next
<1>10. i' = i + 1 /\ pc' = IF i + 1 < W THEN "so_len" ELSE "print"
  <2>1. results.nworkers = W
    BY <1>3 DEF Gathered
  <2>. HIDE DEF W
  <2>. QED  BY <1>2, <2>1 DEF NextWorker
<1>11. ASSUME Fine(n)', Padded(y) = f, pos' = pos + y
       PROVE  AtField(n)' \/ AtPrint(n)'
  <2>1. results' = Gathered(c, slot, i + 1, Whole(o))
    BY <1>9, <1>11 DEF Whole, f
  <2>2. results' = Gathered(c, slot, i + 1 + 1, NoOutput)
    <3>1. i + 1 \in Nat
      BY <1>3
    <3>. HIDE DEF c, slot
    <3>2. Gathered(c, slot, i + 1, Whole(c.outputs[i + 1])) = Gathered(c, slot, i + 1 + 1, NoOutput)
      BY <3>1, GatheredNext
    <3>. QED  BY <2>1, <3>2
  <2>3. pos' = base + RecOff(c, i + 1)
    BY <1>7, <1>11
  <2>4. CASE i + 1 < W
    <3>. DEFINE q == c.outputs[i + 1 + 1]
    <3>1. Partly(q, "so_len") = NoOutput
      BY DEF Partly, NoOutput
    <3>2. FieldOff(q, "so_len") = 0
      BY DEF FieldOff
    <3>3. base + RecOff(c, i + 1) + 0 = base + RecOff(c, i + 1)
      <4>. DEFINE e == base + RecOff(c, i + 1)
      <4>1. e \in Int
        <5>1. e = start + (16 + x + y) /\ start \in Nat /\ x \in Nat /\ y \in Nat
          BY <1>3, <1>4
        <5>. HIDE DEF e, start, x, y
        <5>. QED  BY <5>1
      <4>. HIDE DEF e
      <4>2. e + 0 = e
        BY <4>1
      <4>. QED  BY <4>2 DEF e
    <3>4. i + 1 \in 0 .. W - 1
      BY <1>3, <2>4
    <3>5. results' = Gathered(c, slot, i + 1 + 1, Partly(q, "so_len"))
      BY <2>2, <3>1
    <3>6. pos' = base + RecOff(c, i + 1) + FieldOff(q, "so_len")
      BY <2>3, <3>2, <3>3
    <3>7. i' = i + 1 /\ pc' = "so_len"
      BY <1>10, <2>4
    <3>8. AtField(n)'
      BY <1>8, <3>4, <3>5, <3>6, <3>7 DEF AtField, Fields
    <3>. QED  BY <3>8
  <2>5. CASE ~(i + 1 < W)
    <3>1. i + 1 = W
      BY <1>3, <2>5
    <3>2. campaign \in Campaigns
      BY DEF Arrived
    <3>3. Off(campaign, n + 1) = base + RecOff(c, W)
      BY <1>3, <3>2, HeadLies
    <3>4. pc' = "print"
      BY <1>10, <2>5
    <3>5. AtPrint(n)'
      BY <1>8, <2>2, <2>3, <3>1, <3>3, <3>4 DEF AtPrint
    <3>. QED  BY <3>5
  <2>. QED  BY <2>4, <2>5
<1>12. ASSUME pos' = Len(stream), NEW k \in 1 .. y - 1,
              Padded(y) = SubSeq(f, 1, k) \o Zeros(y - k)
       PROVE  WillSee' \/ AtCut(n)'
  <2>1. CASE i + 1 < W
    BY <1>8, <1>10, <1>12, <2>1 DEF WillSee
  <2>2. CASE ~(i + 1 < W)
    <3>1. i + 1 = W
      BY <1>3, <2>2
    <3>2. pc' = "print"
      BY <1>10, <2>2
    <3>3. results' = Gathered(c, slot, i + 1, Told(o, SubSeq(f, 1, k) \o Zeros(y - k)))
      BY <1>9, <1>12
    <3>4. results' = GatheredCut(c, k)
      BY <3>1, <3>3 DEF GatheredCut, f
    <3>5. k \in CutsOf(c)
      BY <1>12, <3>1 DEF CutsOf, f
    <3>6. Len(printed') = n /\ n < Len(campaign)
      <4>1. n < Len(campaign)
        <5>1. campaign \in Campaigns
          BY DEF Arrived
        <5>2. Len(campaign) \in Nat
          BY <5>1, StreamLies
        <5>. QED  BY <1>3, <5>2
      <4>. QED  BY <1>2, <1>3, <4>1 DEF Fine
    <3>7. AtCut(n)'
      BY <1>8, <1>12, <3>2, <3>4, <3>5, <3>6 DEF AtCut
    <3>. QED  BY <3>7
  <2>. QED  BY <2>1, <2>2
<1>13. CASE Fine(n)' /\ Padded(y) = f /\ pos' = pos + y
  BY <1>11, <1>13 DEF Reading
<1>14. CASE /\ pos' = Len(stream) /\ ((WillSee' \/ AtCut(n)') => NoMore(n)')
            /\ \E k \in 1 .. y - 1 : Padded(y) = SubSeq(f, 1, k) \o Zeros(y - k)
  <2>1. pos' = Len(stream) /\ ((WillSee' \/ AtCut(n)') => NoMore(n)')
    BY <1>14
  <2>2. WillSee' \/ AtCut(n)'
    BY <1>12, <1>14
  <2>. QED  BY <2>1, <2>2
<1>. QED  BY <1>8, <1>13, <1>14

(***************************************************************************)
(* Hex                                                                     *)
(***************************************************************************)

LEMMA ByteFits == \A b \in Byte : b % 256 = b
BY SMT DEF Byte

\* Two digits a byte.
LEMMA HexbufType ==
  ASSUME NEW bytes \in Seq(Byte)
  PROVE  Hexbuf(bytes) \in Seq(Int) /\ Len(Hexbuf(bytes)) = 2 * Len(bytes)
<1>. DEFINE n == Len(bytes)
            line == Hexbuf(bytes)
<1>1. n \in Nat /\ \A j \in 1 .. n : bytes[j] \in Byte
  OBVIOUS
<1>2. line \in Seq(Int) /\ Len(line) = 2 * n
  <2>1. \A k \in 1 .. 2 * n : line[k] \in Int
    <3>. SUFFICES ASSUME NEW k \in 1 .. 2 * n PROVE line[k] \in Int
      OBVIOUS
    <3>1. CASE k % 2 = 1
      <4>1. (k + 1) \div 2 \in 1 .. n
        BY <1>1, <3>1
      <4>. QED  BY <4>1, <3>1, <1>1, Halves, DigitIsInt DEF Hexbuf
    <3>2. CASE k % 2 # 1
      <4>1. k \div 2 \in 1 .. n
        BY <1>1, <3>2
      <4>. QED  BY <4>1, <3>2, <1>1, Halves, DigitIsInt DEF Hexbuf
    <3>. QED  BY <3>1, <3>2
  <2>2. line = [k \in 1 .. 2 * n |-> line[k]]
    BY DEF Hexbuf
  <2>3. 2 * n \in Nat
    BY <1>1
  <2>. HIDE DEF line
  <2>. QED  BY <2>1, <2>2, <2>3
<1>. QED  BY <1>2

\* Where the digits of byte j are.
LEMMA Places ==
  \A j \in Nat \ {0} : /\ (2 * j - 1) % 2 = 1 /\ (2 * j - 1 + 1) \div 2 = j
                       /\ (2 * j) % 2 = 0 /\ (2 * j) \div 2 = j
OBVIOUS

\* What mish2jsonl prints of an input (m_cohort_print_json), the manual mutator
\* reads back (hex2bytes), whatever the bytes and however many: a report can be
\* fed to mishegos again.
THEOREM HexRoundTrip == \A bytes \in Seq(Byte) : Hex2Bytes(Hexbuf(bytes)) = bytes
<1>. SUFFICES ASSUME NEW bytes \in Seq(Byte) PROVE Hex2Bytes(Hexbuf(bytes)) = bytes
  OBVIOUS
<1>. DEFINE n == Len(bytes)
            line == Hexbuf(bytes)
<1>1. n \in Nat /\ \A j \in 1 .. n : bytes[j] \in Byte
  OBVIOUS
<1>2. line \in Seq(Int) /\ Len(line) = 2 * n
  BY HexbufType
<1>3. \A j \in 1 .. n : line[2 * j - 1] = DigitOf(bytes[j] \div 16) /\ line[2 * j] = DigitOf(bytes[j] % 16)
  <2>. SUFFICES ASSUME NEW j \in 1 .. n
                PROVE line[2 * j - 1] = DigitOf(bytes[j] \div 16) /\ line[2 * j] = DigitOf(bytes[j] % 16)
    OBVIOUS
  <2>1. 2 * j - 1 \in 1 .. 2 * n /\ 2 * j \in 1 .. 2 * n
    BY <1>1
  <2>2. /\ (2 * j - 1) % 2 = 1 /\ (2 * j - 1 + 1) \div 2 = j
        /\ (2 * j) % 2 = 0 /\ (2 * j) \div 2 = j
    BY Places, <1>1
  <2>3. line[2 * j - 1] = DigitOf(bytes[j] \div 16)
    BY <2>1, <2>2 DEF Hexbuf
  <2>4. line[2 * j] = DigitOf(bytes[j] % 16)
    BY <2>1, <2>2 DEF Hexbuf
  <2>. QED  BY <2>3, <2>4
<1>4. \A j \in 1 .. n : (Nibble(line[2 * j - 1]) * 16 + Nibble(line[2 * j])) % 256 = bytes[j]
  <2>. SUFFICES ASSUME NEW j \in 1 .. n
                PROVE (Nibble(line[2 * j - 1]) * 16 + Nibble(line[2 * j])) % 256 = bytes[j]
    OBVIOUS
  <2>1. bytes[j] \in Byte
    BY <1>1
  <2>2. Nibble(line[2 * j - 1]) = bytes[j] \div 16 /\ Nibble(line[2 * j]) = bytes[j] % 16
    BY <2>1, <1>3, NibbleOfDigit, Halves
  <2>3. bytes[j] % 256 = bytes[j]
    BY <2>1, ByteFits
  <2>. QED  BY <2>1, <2>2, <2>3, Halves
<1>5. Len(line) \div 2 = n
  BY <1>1, <1>2
<1>6. Hex2Bytes(line) = [j \in 1 .. n |-> bytes[j]]
  <2>. HIDE DEF line
  <2>. QED  BY <1>4, <1>5 DEF Hex2Bytes
<1>. QED  BY <1>1, <1>6


(***************************************************************************)
(* Printing                                                                *)
(***************************************************************************)

\* What is printed is of the type of lines.
LEMMA ToldType ==
  ASSUME NEW o, OutputOK(o), NEW text \in Seq(Byte)
  PROVE  Told(o, text) \in PrintedOutput
<1>1. o.so \in {s \in Seq(Byte) : PlainName(s)}
  BY DEF OutputOK
<1>2. Len(o.result) \in Nat /\ o.status \in Nat /\ o.ndecoded \in Nat
  BY FourParts
<1>. QED  BY <1>1, <1>2 DEF Told, PrintedOutput

LEMMA LineOfType ==
  ASSUME NEW c, CohortOK(c)
  PROVE  LineOf(c) \in PrintedLine
<1>. DEFINE W == Len(c.outputs)
            f == [w \in 1 .. W |-> Whole(c.outputs[w])]
<1>1. W \in Nat /\ Hexbuf(c.input) \in Seq(Int)
  BY HexbufType DEF CohortOK
<1>2. \A w \in 1 .. W : f[w] \in PrintedOutput
  <2>. SUFFICES ASSUME NEW w \in 1 .. W PROVE Told(c.outputs[w], c.outputs[w].result) \in PrintedOutput
    BY DEF Whole
  <2>1. OutputOK(c.outputs[w])
    BY DEF CohortOK
  <2>2. c.outputs[w].result \in Seq(Byte)
    BY <2>1 DEF OutputOK
  <2>. QED  BY <2>1, <2>2, ToldType
<1>3. f = [w \in 1 .. W |-> f[w]]
  OBVIOUS
<1>4. LineOf(c) = [input |-> Hexbuf(c.input), outputs |-> f]
  BY DEF LineOf
<1>. HIDE DEF f, W
<1>5. f \in Seq(PrintedOutput)
  BY <1>1, <1>2, <1>3
<1>. QED  BY <1>1, <1>4, <1>5 DEF PrintedLine

LEMMA LineCutType ==
  ASSUME NEW c, CohortOK(c), NEW k \in CutsOf(c)
  PROVE  LineCut(c, k) \in PrintedLine
<1>. DEFINE W == Len(c.outputs)
            part(o) == SubSeq(o.result, 1, k)
            f == [w \in 1 .. W |-> LET o == c.outputs[w]
                                   IN  IF w = W THEN Told(o, part(o)) ELSE Whole(o)]
<1>1. W \in Nat /\ W \in 1 .. W /\ Hexbuf(c.input) \in Seq(Int)
  BY HexbufType DEF CohortOK
<1>2. ASSUME NEW w \in 1 .. W PROVE f[w] \in PrintedOutput
  <2>. DEFINE o == c.outputs[w]
  <2>1. OutputOK(o)
    BY DEF CohortOK
  <2>2. o.result \in Seq(Byte)
    BY <2>1 DEF OutputOK
  <2>3. Whole(o) \in PrintedOutput
    <3>. HIDE DEF o
    <3>. QED  BY <2>1, <2>2, ToldType DEF Whole
  <2>4. CASE w = W
    <3>1. k \in 0 .. Len(o.result)
      <4>1. k \in 1 .. Len(o.result) - 1 /\ Len(o.result) \in Nat
        BY <2>1, <2>4, FourParts DEF CutsOf
      <4>. QED  BY <4>1
    <3>. HIDE DEF o
    <3>2. SubSeq(o.result, 1, k) \in Seq(Byte)
      BY <2>2, <3>1, BeginningIs
    <3>3. Told(o, SubSeq(o.result, 1, k)) \in PrintedOutput
      BY <2>1, <3>2, ToldType
    <3>. QED  BY <2>4, <3>3 DEF o
  <2>5. CASE w # W
    BY <2>3, <2>5
  <2>. QED  BY <2>4, <2>5
<1>3. f = [w \in 1 .. W |-> f[w]]
  OBVIOUS
<1>4. LineCut(c, k) = [input |-> Hexbuf(c.input), outputs |-> f]
  BY DEF LineCut
<1>. HIDE DEF f, W
<1>5. f \in Seq(PrintedOutput)
  BY <1>1, <1>2, <1>3
<1>. QED  BY <1>1, <1>4, <1>5 DEF PrintedLine

\* Another line is printed.
LEMMA OneMore ==
  ASSUME NEW n \in Nat, printed \in Seq(PrintedLine), NEW line \in PrintedLine,
         printed' = Append(printed, line)
  PROVE  /\ printed' \in Seq(PrintedLine) /\ Len(printed') = Len(printed) + 1
         /\ printed'[Len(printed) + 1] = line
         /\ \A k \in 1 .. Len(printed) : printed'[k] = printed[k]
<1>. DEFINE s == printed
            t == printed'
<1>1. /\ t \in Seq(PrintedLine) /\ Len(t) = Len(s) + 1 /\ t[Len(s) + 1] = line
      /\ \A k \in 1 .. Len(s) : t[k] = s[k]
  BY AppendProperties
<1>. QED  BY <1>1

\* A cohort is printed, and read_next is at the next one or at the end.
LEMMA PrintReading ==
  ASSUME Arrived, NEW n, PrintedUpTo(n), Reading(n), PrintCohort
  PROVE  /\ n + 1 \in 0 .. Len(campaign) /\ PrintedUpTo(n + 1)'
         /\ Reading(n + 1)' \/ NoMore(n + 1)'
<1>. DEFINE c == campaign[n + 1]
            L == Len(stream)
            m == Len(campaign)
<1>1. /\ Fine(n) /\ AtPrint(n) /\ campaign \in Campaigns
      /\ n \in 0 .. m - 1 /\ Len(printed) = n /\ ~m_finished_parsing /\ pos <= L
  BY DEF Reading, PrintCohort, AtCohort, AtInput, AtField, AtPrint, Fields, Fine, Arrived
<1>2. m \in Nat /\ n + 1 \in 0 .. m /\ n \in Nat
  BY <1>1, StreamLies
<1>3. CohortOK(c)
  BY <1>1, HeadLies
<1>4. Line(results) = LineOf(c) /\ LineOf(c) \in PrintedLine
  BY <1>1, <1>3, LineIs, LineOfType DEF AtPrint
<1>5. /\ pc' = "nworkers" /\ printed' = Append(printed, LineOf(c))
      /\ UNCHANGED <<campaign, stream, pos, m_finished_parsing>>
  BY <1>1, <1>4 DEF PrintCohort
<1>6. /\ printed' \in Seq(PrintedLine) /\ Len(printed') = n + 1 /\ printed'[n + 1] = LineOf(c)
      /\ \A k \in 1 .. n : printed'[k] = printed[k]
  BY <1>1, <1>2, <1>4, <1>5, OneMore DEF PrintedUpTo
<1>7. PrintedUpTo(n + 1)'
  <2>1. ASSUME NEW k \in 1 .. n + 1 PROVE printed'[k] = LineOf(campaign[k])
    <3>1. CASE k = n + 1
      BY <1>6, <3>1
    <3>2. CASE k # n + 1
      <4>1. k \in 1 .. n
        BY <1>2, <3>2
      <4>. QED  BY <1>6, <4>1 DEF PrintedUpTo
    <3>. QED  BY <3>1, <3>2
  <2>2. Len(printed') >= n + 1
    BY <1>2, <1>6
  <2>. QED  BY <1>5, <1>6, <2>1, <2>2 DEF PrintedUpTo
<1>8. pos = Off(campaign, n + 1) /\ pos' = pos
  BY <1>1, <1>5 DEF AtPrint
<1>9. CASE n + 1 < m
  <2>1. n + 1 \in 0 .. m - 1
    BY <1>2, <1>9
  <2>2. Fine(n + 1)'
    BY <1>1, <1>5, <1>6, <2>1 DEF Fine
  <2>3. AtCohort(n + 1)'
    BY <1>5, <1>8 DEF AtCohort
  <2>. QED  BY <1>2, <1>7, <2>2, <2>3 DEF Reading
<1>10. CASE ~(n + 1 < m)
  <2>1. n + 1 = m
    BY <1>2, <1>10
  <2>2. Off(campaign, m) \in Nat /\ Len(Stream(campaign)) = Off(campaign, m)
    <3>1. m \in 0 .. m
      BY <1>2
    <3>. QED  BY <1>1, <3>1, StreamLies
  <2>3. L = pos
    <3>1. L \in 0 .. Len(Stream(campaign))
      BY DEF Arrived
    <3>2. pos = Off(campaign, m)
      BY <1>8, <2>1
    <3>. HIDE DEF L
    <3>. QED  BY <1>1, <2>2, <3>1, <3>2
  <2>4. EndsIn(n + 1)'
    <3>1. Off(campaign, n + 1) <= L
      BY <1>8, <2>1, <2>2, <2>3
    <3>. QED  BY <1>2, <1>5, <1>10, <3>1 DEF EndsIn
  <2>5. PrintedAll(n + 1)'
    BY <1>6 DEF PrintedAll
  <2>6. WillSee'
    BY <1>5, <2>3 DEF WillSee
  <2>. QED  BY <1>2, <1>7, <2>4, <2>5, <2>6 DEF NoMore
<1>. QED  BY <1>9, <1>10

\* At the end of the stream nothing is found.
LEMMA NothingFound ==
  ASSUME Arrived, pos = Len(stream), NEW z \in Nat, z # 0
  PROVE  Len(Found(z)) = 0 /\ Len(stream) \in Nat
<1>. DEFINE B == Stream(campaign)
            L == Len(stream)
<1>1. B \in Seq(Int) /\ L \in 0 .. Len(B) /\ stream = SubSeq(B, 1, L)
  BY StreamLies DEF Arrived
<1>2. L \in Nat /\ Len(B) \in Nat
  BY <1>1, LenProperties
<1>3. L \in 0 .. L /\ L + z > L /\ L - L = 0
  BY <1>2
<1>. HIDE DEF B
<1>4. Len(Found(z)) = L - L
  BY <1>1, <1>3, FindsLess
<1>. QED  BY <1>2, <1>3, <1>4

\* m_fread then sees that the stream is over.
LEMMA NothingRead ==
  ASSUME Arrived, pos = Len(stream), NEW z \in Nat, z # 0, MFread(z, 1)
  PROVE  m_finished_parsing' /\ campaign' = campaign /\ stream' = stream
<1>1. Len(Found(z)) = 0 /\ z * 1 = z
  BY NothingFound
<1>2. 0 \div z = 0
  OBVIOUS
<1>. QED  BY <1>1, <1>2 DEF MFread, AtEnd, Fread

\* What was printed, and where the stream ends, stays.
LEMMA StillNoMore ==
  ASSUME NEW n, NoMore(n), campaign' = campaign, stream' = stream, printed' = printed,
         m_finished_parsing' \/ WillSee'
  PROVE  NoMore(n)'
<1>1. EndsIn(n)'
  BY DEF NoMore, EndsIn
<1>2. PrintedAll(n)'
  BY DEF NoMore, PrintedAll
<1>. QED  BY <1>1, <1>2 DEF NoMore

\* Once m_fread has seen the end it is not forgotten, and nothing is printed.
LEMMA Finished ==
  ASSUME m_finished_parsing, Read
  PROVE  m_finished_parsing' /\ UNCHANGED <<campaign, stream, printed>>
<1>1. CASE Main
  BY <1>1 DEF Main
<1>2. CASE ReadNWorkers
  BY <1>2 DEF ReadNWorkers, Fread
<1>3. CASE ReadInput
  BY <1>3 DEF ReadInput, MFread, Fread
<1>4. ASSUME NEW at, NEW size, NEW then, ReadLength(at, size, then)
      PROVE  m_finished_parsing' /\ UNCHANGED <<campaign, stream, printed>>
  BY <1>4 DEF ReadLength, MFread, Fread
<1>5. CASE ReadSo
  BY <1>5 DEF ReadSo, MFread, Fread
<1>6. CASE ReadStatus
  BY <1>6 DEF ReadStatus, MFread, Fread
<1>7. CASE ReadNDecoded
  BY <1>7 DEF ReadNDecoded, MFread, Fread
<1>8. CASE ReadResult
  BY <1>8 DEF ReadResult, MFread, Fread
<1>9. CASE PrintCohort
  BY <1>9 DEF PrintCohort
<1>. QED  BY <1>1, <1>2, <1>3, <1>4, <1>5, <1>6, <1>7, <1>8, <1>9 DEF Read

\* At the end of the stream, m_fread sees it before anything is printed.
LEMMA SeesTheEnd ==
  ASSUME Arrived, NEW n, NoMore(n), ~m_finished_parsing, WillSee, Read
  PROVE  NoMore(n)' /\ UNCHANGED <<campaign, stream, printed>>
<1>1. pos = Len(stream)
  BY DEF WillSee
<1>2. CASE Main
  <2>1. /\ pc' = "nworkers" /\ UNCHANGED <<campaign, stream, pos, printed>>
    BY <1>2 DEF Main
  <2>2. WillSee'
    BY <1>1, <2>1 DEF WillSee
  <2>. QED  BY <2>1, <2>2, StillNoMore
<1>3. CASE ReadNWorkers
  <2>1. /\ pc' = "input" /\ pos' = pos + Len(Found(4)) /\ UNCHANGED <<campaign, stream, printed>>
    BY <1>3 DEF ReadNWorkers, Fread
  <2>2. Len(Found(4)) = 0 /\ Len(stream) \in Nat
    <3>1. 4 \in Nat /\ 4 # 0
      OBVIOUS
    <3>. QED  BY <1>1, <3>1, NothingFound
  <2>3. WillSee'
    BY <1>1, <2>1, <2>2 DEF WillSee
  <2>. QED  BY <2>1, <2>3, StillNoMore
<1>4. ASSUME NEW z \in Nat, z # 0, MFread(z, 1), printed' = printed
      PROVE  NoMore(n)' /\ UNCHANGED <<campaign, stream, printed>>
  <2>1. m_finished_parsing' /\ campaign' = campaign /\ stream' = stream
    BY <1>1, <1>4, NothingRead
  <2>. QED  BY <1>4, <2>1, StillNoMore
<1>5. CASE ReadInput
  <2>1. MFread(16, 1) /\ printed' = printed
    BY <1>5 DEF ReadInput, INSN_MAXLEN
  <2>. QED  BY <1>4, <2>1
<1>6. CASE ReadLength("so_len", 8, "so")
  <2>1. MFread(8, 1) /\ printed' = printed
    BY <1>6 DEF ReadLength
  <2>. QED  BY <1>4, <2>1
<1>7. CASE ReadStatus
  <2>1. MFread(4, 1) /\ printed' = printed
    BY <1>7 DEF ReadStatus
  <2>. QED  BY <1>4, <2>1
<1>8. CASE ReadNDecoded
  <2>1. MFread(2, 1) /\ printed' = printed
    BY <1>8 DEF ReadNDecoded
  <2>. QED  BY <1>4, <2>1
<1>9. CASE ReadLength("len", 2, "result")
  <2>1. MFread(2, 1) /\ printed' = printed
    BY <1>9 DEF ReadLength
  <2>. QED  BY <1>4, <2>1
<1>10. ~ReadSo /\ ~ReadResult /\ ~PrintCohort
  BY DEF WillSee, ReadSo, ReadResult, PrintCohort
<1>. QED  BY <1>2, <1>3, <1>5, <1>6, <1>7, <1>8, <1>9, <1>10 DEF Read

\* The cohort whose last text is cut is printed.
LEMMA PrintsTheCut ==
  ASSUME Arrived, NEW n, PrintedUpTo(n), NoMore(n), ~m_finished_parsing, AtCut(n), Read
  PROVE  NoMore(n)' /\ PrintedUpTo(n)' /\ UNCHANGED <<campaign, stream>>
<1>. DEFINE c == campaign[n + 1]
<1>1. PrintCohort
  BY DEF AtCut, Read, Main, ReadNWorkers, ReadInput, ReadLength, ReadSo, ReadStatus,
         ReadNDecoded, ReadResult
<1>2. campaign \in Campaigns /\ n \in 0 .. Len(campaign) /\ n < Len(campaign) /\ Len(printed) = n
  BY DEF Arrived, NoMore, EndsIn, AtCut
<1>3. n \in Nat /\ n \in 0 .. Len(campaign) - 1
  <2>1. Len(campaign) \in Nat
    BY <1>2, StreamLies
  <2>. QED  BY <1>2, <2>1
<1>4. CohortOK(c)
  BY <1>2, <1>3, HeadLies
<1>5. PICK k \in CutsOf(c) : results = GatheredCut(c, k)
  BY DEF AtCut
<1>6. Line(results) = LineCut(c, k) /\ LineCut(c, k) \in PrintedLine
  BY <1>4, <1>5, LineCutIs, LineCutType
<1>7. /\ pc' = "nworkers" /\ printed' = Append(printed, LineCut(c, k))
      /\ UNCHANGED <<campaign, stream, pos, m_finished_parsing>>
  BY <1>1, <1>6 DEF PrintCohort
<1>8. /\ printed' \in Seq(PrintedLine) /\ Len(printed') = n + 1 /\ printed'[n + 1] = LineCut(c, k)
      /\ \A j \in 1 .. n : printed'[j] = printed[j]
  BY <1>2, <1>3, <1>6, <1>7, OneMore DEF PrintedUpTo
<1>9. PrintedUpTo(n)'
  <2>1. Len(printed') >= n
    BY <1>3, <1>8
  <2>. QED  BY <1>7, <1>8, <2>1 DEF PrintedUpTo
<1>10. EndsIn(n)'
  BY <1>7 DEF NoMore, EndsIn
<1>11. PrintedAll(n)'
  BY <1>2, <1>7, <1>8 DEF PrintedAll
<1>12. WillSee'
  BY <1>7 DEF AtCut, WillSee
<1>. QED  BY <1>7, <1>9, <1>10, <1>11, <1>12 DEF NoMore

\* Behind the end of the stream nothing more is printed, but for a text that is cut.
LEMMA NoMoreStep ==
  ASSUME Arrived, NEW n, PrintedUpTo(n), NoMore(n), Read
  PROVE  NoMore(n)' /\ PrintedUpTo(n)' /\ UNCHANGED <<campaign, stream>>
<1>1. CASE m_finished_parsing
  <2>1. m_finished_parsing' /\ UNCHANGED <<campaign, stream, printed>>
    BY <1>1, Finished
  <2>2. NoMore(n)'
    BY <2>1, StillNoMore
  <2>. QED  BY <2>1, <2>2 DEF PrintedUpTo
<1>2. CASE ~m_finished_parsing /\ WillSee
  <2>1. NoMore(n)' /\ UNCHANGED <<campaign, stream, printed>>
    BY <1>2, SeesTheEnd
  <2>. QED  BY <2>1 DEF PrintedUpTo
<1>3. CASE ~m_finished_parsing /\ AtCut(n)
  BY <1>3, PrintsTheCut
<1>. QED  BY <1>1, <1>2, <1>3 DEF NoMore

\* Every step of mish2jsonl leaves read_next where it should be.
LEMMA ReadingStep ==
  ASSUME Arrived, NEW n, n \in 0 .. Len(campaign), PrintedUpTo(n), Reading(n), Read
  PROVE  \E l \in 0 .. Len(campaign) : PrintedUpTo(l)' /\ (Reading(l)' \/ NoMore(l)')
<1>1. CASE PrintCohort
  <2>1. /\ n + 1 \in 0 .. Len(campaign) /\ PrintedUpTo(n + 1)'
        /\ Reading(n + 1)' \/ NoMore(n + 1)'
    BY <1>1, PrintReading
  <2>. QED  BY <2>1
<1>2. ASSUME UNCHANGED <<campaign, printed>>, Reading(n)' \/ NoMore(n)'
      PROVE  \E l \in 0 .. Len(campaign) : PrintedUpTo(l)' /\ (Reading(l)' \/ NoMore(l)')
  <2>1. PrintedUpTo(n)'
    BY <1>2 DEF PrintedUpTo
  <2>. QED  BY <1>2, <2>1
<1>3. CASE Main
  <2>1. UNCHANGED <<campaign, printed>>
    BY <1>3 DEF Main
  <2>. QED  BY <1>2, <1>3, <2>1, MainReading
<1>4. CASE ReadNWorkers
  <2>1. UNCHANGED <<campaign, printed>>
    BY <1>4 DEF ReadNWorkers, Fread
  <2>. QED  BY <1>2, <1>4, <2>1, NWorkersReading
<1>5. CASE ReadInput
  <2>1. UNCHANGED <<campaign, printed>>
    BY <1>5 DEF ReadInput, MFread, Fread
  <2>. QED  BY <1>2, <1>5, <2>1, InputReading
<1>6. CASE ReadLength("so_len", 8, "so")
  <2>1. UNCHANGED <<campaign, printed>>
    BY <1>6 DEF ReadLength, MFread, Fread
  <2>. QED  BY <1>2, <1>6, <2>1, SoLenReading
<1>7. CASE ReadSo
  <2>1. UNCHANGED <<campaign, printed>>
    BY <1>7 DEF ReadSo, MFread, Fread
  <2>. QED  BY <1>2, <1>7, <2>1, SoReading
<1>8. CASE ReadStatus
  <2>1. UNCHANGED <<campaign, printed>>
    BY <1>8 DEF ReadStatus, MFread, Fread
  <2>. QED  BY <1>2, <1>8, <2>1, StatusReading
<1>9. CASE ReadNDecoded
  <2>1. UNCHANGED <<campaign, printed>>
    BY <1>9 DEF ReadNDecoded, MFread, Fread
  <2>. QED  BY <1>2, <1>9, <2>1, NDecodedReading
<1>10. CASE ReadLength("len", 2, "result")
  <2>1. UNCHANGED <<campaign, printed>>
    BY <1>10 DEF ReadLength, MFread, Fread
  <2>. QED  BY <1>2, <1>10, <2>1, LenReading
<1>11. CASE ReadResult
  <2>1. UNCHANGED <<campaign, printed>>
    BY <1>11 DEF ReadResult, MFread, Fread
  <2>. QED  BY <1>2, <1>11, <2>1, ResultReading
<1>. QED  BY <1>1, <1>3, <1>4, <1>5, <1>6, <1>7, <1>8, <1>9, <1>10, <1>11 DEF Read

\* The stream is only read.
LEMMA ReadKeepsStream == Read => UNCHANGED <<campaign, stream>>
<1>. SUFFICES ASSUME Read PROVE UNCHANGED <<campaign, stream>>
  OBVIOUS
<1>1. ASSUME NEW at, NEW size, NEW then, ReadLength(at, size, then)
      PROVE  UNCHANGED <<campaign, stream>>
  BY <1>1 DEF ReadLength, MFread, Fread
<1>2. Main \/ PrintCohort => UNCHANGED <<campaign, stream>>
  BY DEF Main, PrintCohort
<1>3. ReadNWorkers \/ ReadInput \/ ReadSo => UNCHANGED <<campaign, stream>>
  BY DEF ReadNWorkers, ReadInput, ReadSo, MFread, Fread
<1>4. ReadStatus \/ ReadNDecoded \/ ReadResult => UNCHANGED <<campaign, stream>>
  BY DEF ReadStatus, ReadNDecoded, ReadResult, MFread, Fread
<1>. QED  BY <1>1, <1>2, <1>3, <1>4 DEF Read

\* ReaderInv holds from the beginning, after every step of mish2jsonl, and so always.
LEMMA ReaderInit == Init => ReaderInv
<1>. SUFFICES ASSUME Init PROVE ReaderInv
  OBVIOUS
<1>. DEFINE B == Stream(campaign)
            m == Len(campaign)
<1>1. campaign \in Campaigns /\ pos = 0 /\ ~m_finished_parsing /\ pc = "main" /\ printed = <<>>
  BY DEF Init
<1>2. PICK n \in 0 .. Len(B) : stream = SubSeq(B, 1, n)
  BY DEF Init
<1>3. m \in Nat /\ B \in Seq(Int) /\ Len(B) = Off(campaign, m) /\ Off(campaign, 0) = 0
  BY <1>1, StreamLies
<1>4. Len(stream) = n
  <2>. HIDE DEF B
  <2>. QED  BY <1>2, <1>3, BeginningIs
<1>5. Arrived
  BY <1>1, <1>2, <1>4 DEF Arrived
<1>6. Len(printed) = 0 /\ printed \in Seq(PrintedLine)
  BY <1>1, EmptySeq
<1>7. PrintedUpTo(0)
  BY <1>6 DEF PrintedUpTo
<1>8. n \in Nat /\ Len(B) \in Nat
  BY <1>3, LenProperties
<1>9. CASE m = 0
  <2>1. n = 0
    BY <1>3, <1>8, <1>9
  <2>2. EndsIn(0)
    BY <1>3, <1>4, <1>9, <2>1 DEF EndsIn
  <2>3. PrintedAll(0) /\ WillSee
    BY <1>1, <1>4, <1>6, <2>1 DEF PrintedAll, WillSee
  <2>4. 0 \in 0 .. m
    BY <1>3
  <2>. QED  BY <1>5, <1>7, <2>2, <2>3, <2>4 DEF ReaderInv, NoMore
<1>10. CASE m # 0
  <2>1. 0 \in 0 .. m - 1 /\ 0 \in 0 .. m
    BY <1>3, <1>10
  <2>2. Fine(0) /\ AtCohort(0)
    BY <1>1, <1>3, <1>4, <1>6, <1>8, <2>1 DEF Fine, AtCohort
  <2>. QED  BY <1>5, <1>7, <2>1, <2>2 DEF ReaderInv, Reading
<1>. QED  BY <1>9, <1>10

LEMMA ReaderNext == ReaderInv /\ Read => ReaderInv'
<1>. SUFFICES ASSUME ReaderInv, Read PROVE ReaderInv'
  OBVIOUS
<1>1. Arrived
  BY DEF ReaderInv
<1>2. UNCHANGED <<campaign, stream>>
  BY ReadKeepsStream
<1>3. Arrived'
  BY <1>1, <1>2 DEF Arrived
<1>4. PICK n \in 0 .. Len(campaign) : PrintedUpTo(n) /\ (Reading(n) \/ NoMore(n))
  BY DEF ReaderInv
<1>5. \E l \in 0 .. Len(campaign) : PrintedUpTo(l)' /\ (Reading(l)' \/ NoMore(l)')
  <2>1. CASE Reading(n)
    BY <1>1, <1>4, <2>1, ReadingStep
  <2>2. CASE NoMore(n)
    BY <1>1, <1>4, <2>2, NoMoreStep
  <2>. QED  BY <1>4, <2>1, <2>2
<1>. QED  BY <1>2, <1>3, <1>5 DEF ReaderInv

\* Of the state, the invariant is about the reader's part.
LEMMA ReaderStays == ReaderInv /\ UNCHANGED reader => ReaderInv'
<1>. SUFFICES ASSUME ReaderInv, UNCHANGED reader PROVE ReaderInv'
  OBVIOUS
<1>1. UNCHANGED <<campaign, stream, pos, m_finished_parsing, results, string_length, pc, i, printed>>
  BY DEF reader
<1>2. Arrived'
  BY <1>1 DEF ReaderInv, Arrived
<1>3. PICK n \in 0 .. Len(campaign) : PrintedUpTo(n) /\ (Reading(n) \/ NoMore(n))
  BY DEF ReaderInv
<1>4. PrintedUpTo(n)'
  BY <1>1, <1>3 DEF PrintedUpTo
<1>5. ASSUME Reading(n) PROVE Reading(n)'
  <2>1. Fine(n)'
    BY <1>1, <1>5 DEF Reading, Fine
  <2>2. CASE AtCohort(n)
    BY <1>1, <2>1, <2>2 DEF Reading, AtCohort
  <2>3. CASE AtInput(n)
    BY <1>1, <2>1, <2>3 DEF Reading, AtInput
  <2>4. CASE AtField(n)
    BY <1>1, <2>1, <2>4 DEF Reading, AtField
  <2>5. CASE AtPrint(n)
    BY <1>1, <2>1, <2>5 DEF Reading, AtPrint
  <2>. QED  BY <1>5, <2>2, <2>3, <2>4, <2>5 DEF Reading
<1>6. ASSUME NoMore(n) PROVE NoMore(n)'
  <2>1. EndsIn(n)' /\ PrintedAll(n)'
    BY <1>1, <1>6 DEF NoMore, EndsIn, PrintedAll
  <2>2. m_finished_parsing => m_finished_parsing'
    BY <1>1
  <2>3. WillSee => WillSee'
    BY <1>1 DEF WillSee
  <2>4. AtCut(n) => AtCut(n)'
    BY <1>1 DEF AtCut
  <2>. QED  BY <1>6, <2>1, <2>2, <2>3, <2>4 DEF NoMore
<1>7. (\E l \in 0 .. Len(campaign) : PrintedUpTo(l) /\ (Reading(l) \/ NoMore(l)))'
  BY <1>1, <1>3, <1>4, <1>5, <1>6
<1>. QED  BY <1>2, <1>7 DEF ReaderInv

\* The passes leave mish2jsonl alone.
LEMMA PassesRead ==
  ASSUME [ReportNext]_vars PROVE Read \/ UNCHANGED reader
<1>1. ReaderStep => Read
  BY DEF ReaderStep
<1>2. ASSUME NEW k, PassLine(k) \/ PassFails(k) PROVE UNCHANGED reader
  BY <1>2 DEF PassLine, PassFails
<1>3. UNCHANGED vars => UNCHANGED reader
  BY DEF vars
<1>4. ReportStopped => UNCHANGED vars
  BY DEF ReportStopped
<1>. QED  BY <1>1, <1>2, <1>3, <1>4 DEF ReportNext

LEMMA ReaderAlways == ReportSpec => []ReaderInv
<1>1. ReportInit => ReaderInv
  BY ReaderInit DEF ReportInit
<1>2. ReaderInv /\ [ReportNext]_vars => ReaderInv'
  BY PassesRead, ReaderNext, ReaderStays
<1>. QED  BY <1>1, <1>2, PTL DEF ReportSpec

\* A printed line, replayed, is the cohort.
LEMMA LineReplayed ==
  ASSUME NEW c, CohortOK(c)
  PROVE  Replayed(LineOf(c)) = AsLine(c)
<1>1. Hex2Bytes(Hexbuf(c.input)) = c.input
  BY HexRoundTrip DEF CohortOK
<1>2. DOMAIN c.outputs = 1 .. Len(c.outputs)
  BY DEF CohortOK
<1>. DEFINE outs == [w \in 1 .. Len(c.outputs) |-> Whole(c.outputs[w])]
<1>3. LineOf(c) = [input |-> Hexbuf(c.input), outputs |-> outs]
  BY DEF LineOf
<1>4. Replayed(LineOf(c)) = [input |-> c.input, outputs |-> outs]
  <2>. HIDE DEF outs
  <2>. QED  BY <1>1, <1>3 DEF Replayed
<1>. QED  BY <1>2, <1>4 DEF AsLine, Whole, Told

\* A printed line of which the last text is cut is the cohort but for that.
LEMMA LineCutReplayed ==
  ASSUME NEW c, CohortOK(c), NEW k \in CutsOf(c)
  PROVE  CutShort(Replayed(LineCut(c, k)), c)
<1>. DEFINE W == Len(c.outputs)
            full == AsLine(c)
            cut == SubSeq(c.outputs[W].result, 1, k)
            outs == [w \in 1 .. W |-> IF w = W THEN Told(c.outputs[w], cut) ELSE Whole(c.outputs[w])]
<1>1. Hex2Bytes(Hexbuf(c.input)) = c.input
  BY HexRoundTrip DEF CohortOK
<1>2. DOMAIN c.outputs = 1 .. W /\ W \in 1 .. W
  BY DEF CohortOK
<1>3. LineCut(c, k) = [input |-> Hexbuf(c.input), outputs |-> outs]
  BY DEF LineCut
<1>4. Replayed(LineCut(c, k)) = [input |-> c.input, outputs |-> outs]
  <2>. HIDE DEF outs
  <2>. QED  BY <1>1, <1>3 DEF Replayed
<1>5. full.outputs = [w \in 1 .. W |-> Whole(c.outputs[w])]
  BY <1>2 DEF AsLine, Whole, Told
<1>6. full = [input |-> c.input, outputs |-> full.outputs]
  BY DEF AsLine
<1>7. full.outputs[W] = Whole(c.outputs[W]) /\ full.outputs[W].result = c.outputs[W].result
  BY <1>2, <1>5 DEF Whole, Told
<1>8. [full.outputs[W] EXCEPT !.result = cut] = Told(c.outputs[W], cut)
  <2>. HIDE DEF full, cut
  <2>. QED  BY <1>7 DEF Whole, Told
<1>9. [full.outputs EXCEPT ![W] = Told(c.outputs[W], cut)] = outs
  <2>. HIDE DEF full, cut
  <2>. QED  BY <1>2, <1>5
<1>10. [full EXCEPT !.outputs[W].result = SubSeq(@, 1, k)] = [input |-> c.input, outputs |-> outs]
  <2>1. [full EXCEPT !.outputs[W].result = SubSeq(@, 1, k)]
          = [full EXCEPT !.outputs = [full.outputs EXCEPT ![W] =
               [full.outputs[W] EXCEPT !.result = SubSeq(full.outputs[W].result, 1, k)]]]
    OBVIOUS
  <2>2. SubSeq(full.outputs[W].result, 1, k) = cut
    BY <1>7
  <2>3. [full EXCEPT !.outputs[W].result = SubSeq(@, 1, k)] = [full EXCEPT !.outputs = outs]
    <3>. HIDE DEF full, cut, outs
    <3>. QED  BY <1>8, <1>9, <2>1, <2>2
  <2>4. [full EXCEPT !.outputs = outs] = [input |-> c.input, outputs |-> outs]
    <3>. HIDE DEF full, outs
    <3>. QED  BY <1>6
  <2>. QED  BY <2>3, <2>4
<1>. QED  BY <1>4, <1>10 DEF CutShort, CutsOf

\* When mish2jsonl is done it has seen the end.
LEMMA ArrivedIsPrinted == ReaderInv => PrintsWhatArrived
<1>. SUFFICES ASSUME ReaderInv, pc = "done"
              PROVE  \E n \in Complete :
                       /\ \A m \in Complete : m <= n
                       /\ Len(printed) \in {n, n + 1}
                       /\ \A k \in 1 .. n : Replayed(printed[k]) = AsLine(campaign[k])
                       /\ Len(printed) = n + 1 => CutShort(Replayed(printed[n + 1]), campaign[n + 1])
  BY DEF PrintsWhatArrived
<1>1. PICK n \in 0 .. Len(campaign) : PrintedUpTo(n) /\ (Reading(n) \/ NoMore(n))
  BY DEF ReaderInv
<1>2. ~Reading(n)
  BY DEF Reading, AtCohort, AtInput, AtField, AtPrint, Fields
<1>3. PrintedUpTo(n) /\ EndsIn(n) /\ PrintedAll(n)
  BY <1>1, <1>2 DEF NoMore
<1>4. campaign \in Campaigns /\ Len(campaign) \in Nat /\ n \in Nat
  BY StreamLies DEF ReaderInv, Arrived
<1>5. \A m \in 0 .. Len(campaign) : Len(Stream(SubSeq(campaign, 1, m))) = Off(campaign, m)
  BY <1>4, StreamIs
<1>6. n \in Complete
  BY <1>3, <1>5 DEF EndsIn, Complete
<1>7. ASSUME NEW m \in Complete PROVE m <= n
  <2>. DEFINE L == Len(stream)
              off(l) == Off(campaign, l)
  <2>1. m \in 0 .. Len(campaign) /\ off(m) <= L
    BY <1>5 DEF Complete
  <2>2. n < Len(campaign) => L < off(n + 1)
    BY <1>3 DEF EndsIn
  <2>3. \A p, q \in 0 .. Len(campaign) : p <= q => off(p) <= off(q)
    BY <1>4, StreamLies
  <2>4. \A l \in 0 .. Len(campaign) : off(l) \in Nat
    BY <1>4, StreamLies
  <2>5. L \in Nat
    BY LenProperties, StreamLies, <1>4 DEF ReaderInv, Arrived
  <2>. HIDE DEF L, off
  <2>6. CASE n < m
    <3>1. n + 1 \in 0 .. Len(campaign) /\ n + 1 <= m /\ n < Len(campaign)
      BY <1>4, <2>1, <2>6
    <3>2. off(n + 1) <= off(m) /\ off(n + 1) \in Nat /\ off(m) \in Nat
      BY <2>1, <2>3, <2>4, <3>1
    <3>. QED  BY <2>1, <2>2, <2>5, <3>1, <3>2
  <2>. QED  BY <1>4, <2>1, <2>6
<1>8. Len(printed) \in {n, n + 1}
  BY <1>3 DEF PrintedAll
<1>9. ASSUME NEW k \in 1 .. n PROVE Replayed(printed[k]) = AsLine(campaign[k])
  <2>1. CohortOK(campaign[k])
    BY <1>4, CampaignType
  <2>. QED  BY <1>3, <2>1, LineReplayed DEF PrintedUpTo
<1>10. ASSUME Len(printed) = n + 1 PROVE CutShort(Replayed(printed[n + 1]), campaign[n + 1])
  <2>1. n < Len(campaign) /\ \E k \in CutsOf(campaign[n + 1]) : printed[n + 1] = LineCut(campaign[n + 1], k)
    BY <1>3, <1>4, <1>10 DEF PrintedAll
  <2>2. CohortOK(campaign[n + 1])
    BY <1>4, <2>1, CampaignType
  <2>. QED  BY <2>1, <2>2, LineCutReplayed
<1>. QED  BY <1>6, <1>7, <1>8, <1>9, <1>10

\* Wherever the stream ends, what mish2jsonl has printed when it is done is each
\* cohort that arrived in full, once and in order, and at most one more of which
\* the last text is cut.
THEOREM PrintsAlways == ReportSpec => []PrintsWhatArrived
BY ReaderAlways, ArrivedIsPrinted, PTL

Words == {"object", "newline", ",", "[", "]"}
Object == <<"object", "newline">>

\* Of what words the document is made.
LEMMA WordsType ==
  /\ Object \in Seq(Words) /\ <<",">> \in Seq(Words) /\ <<"[">> \in Seq(Words) /\ <<"]">> \in Seq(Words)
  /\ Len(Object) = 2 /\ Object[1] = "object" /\ Object[2] = "newline"
BY DEF Words, Object

\* An element is every third word, a line every second.
LEMMA Thirds ==
  ASSUME NEW n \in Nat
  PROVE  (3 * n + 1) % 3 = 1 /\ (3 * n + 2) % 3 = 2 /\ (3 * n) % 3 = 0
OBVIOUS

LEMMA Evens ==
  ASSUME NEW n \in Nat
  PROVE  (2 * n + 1) % 2 = 1 /\ (2 * n + 2) % 2 = 0
OBVIOUS

\* The words of a list of elements.
WordAt(k) == CASE k % 3 = 1 -> "object" [] k % 3 = 2 -> "newline" [] OTHER -> ","

LEMMA WordAtType == \A k \in Int : WordAt(k) \in Words
BY DEF WordAt, Words

\* The document of n elements, and of n lines.
LEMMA ElementsAre ==
  ASSUME NEW n \in Nat, NEW m \in Nat, m + 1 = 3 * n
  PROVE  Elements(n) = [k \in 1 .. m |-> WordAt(k)]
<1>1. 3 * n - 1 = m
  OBVIOUS
<1>. QED  BY <1>1 DEF Elements, WordAt

LEMMA ElementsType ==
  ASSUME NEW n \in Nat, NEW m \in Nat, m + 1 = 3 * n
  PROVE  /\ Elements(n) \in Seq(Words) /\ Len(Elements(n)) = m
         /\ \A k \in 1 .. m : Elements(n)[k] = WordAt(k)
<1>1. \A k \in 1 .. m : WordAt(k) \in Words
  BY WordAtType
<1>2. Elements(n) = [k \in 1 .. m |-> WordAt(k)]
  BY ElementsAre
<1>. QED  BY <1>1, <1>2

LEMMA LinesType ==
  ASSUME NEW n \in Nat
  PROVE  /\ Lines(n) \in Seq(Words) /\ Len(Lines(n)) = 2 * n
         /\ \A k \in 1 .. 2 * n : Lines(n)[k] = IF k % 2 = 1 THEN "object" ELSE "newline"
<1>1. \A k \in Int : (IF k % 2 = 1 THEN "object" ELSE "newline") \in Words
  BY DEF Words
<1>. QED  BY <1>1 DEF Lines

LEMMA Nothing == Elements(0) = <<>> /\ Lines(0) = <<>>
BY DEF Elements, Lines

\* One line more.
LEMMA LinesMore ==
  ASSUME NEW n \in Nat
  PROVE  Lines(n + 1) = Lines(n) \o Object
<1>. DEFINE l == Lines(n)
            b == l \o Object
<1>1. PICK m \in Nat : m = n + 1
  OBVIOUS
<1>. DEFINE a == Lines(m)
<1>2. /\ l \in Seq(Words) /\ Len(l) = 2 * n
      /\ \A k \in 1 .. 2 * n : l[k] = IF k % 2 = 1 THEN "object" ELSE "newline"
  BY LinesType
<1>3. /\ a \in Seq(Words) /\ Len(a) = 2 * m
      /\ \A k \in 1 .. 2 * m : a[k] = IF k % 2 = 1 THEN "object" ELSE "newline"
  BY LinesType
<1>4. Object \in Seq(Words)
  BY WordsType
<1>5. Len(Object) = 2 /\ Object[1] = "object" /\ Object[2] = "newline"
  BY WordsType
<1>. HIDE DEF a, l
<1>6. /\ b \in Seq(Words) /\ Len(b) = Len(l) + Len(Object)
      /\ \A k \in 1 .. Len(l) + Len(Object) : b[k] = IF k <= Len(l) THEN l[k] ELSE Object[k - Len(l)]
  BY <1>2, <1>4, ConcatProperties
<1>. HIDE DEF b
<1>7. 2 * m = 2 * n + 2
  BY <1>1
<1>8. /\ Len(b) = 2 * n + 2
      /\ \A k \in 1 .. 2 * n + 2 : b[k] = IF k <= 2 * n THEN l[k] ELSE Object[k - 2 * n]
  BY <1>2, <1>5, <1>6
<1>9. ASSUME NEW k \in 1 .. 2 * n + 2 PROVE a[k] = b[k]
  <2>1. k \in 1 .. 2 * n \/ k = 2 * n + 1 \/ k = 2 * n + 2
    OBVIOUS
  <2>2. CASE k \in 1 .. 2 * n
    <3>1. k <= 2 * n
      BY <2>2
    <3>. QED  BY <1>2, <1>3, <1>7, <1>8, <2>2, <3>1
  <2>3. CASE k = 2 * n + 1
    <3>1. k % 2 = 1 /\ ~(k <= 2 * n) /\ k - 2 * n = 1
      BY <2>3, Evens
    <3>. QED  BY <1>3, <1>5, <1>7, <1>8, <3>1
  <2>4. CASE k = 2 * n + 2
    <3>1. k % 2 = 0 /\ ~(k <= 2 * n) /\ k - 2 * n = 2
      BY <2>4, Evens
    <3>. QED  BY <1>3, <1>5, <1>7, <1>8, <3>1
  <2>. QED  BY <2>1, <2>2, <2>3, <2>4
<1>10. a = b
  BY <1>3, <1>6, <1>7, <1>8, <1>9, SeqEqual
<1>. QED  BY <1>1, <1>10 DEF a, b, l

\* The first element has no comma.
LEMMA OneElement == Elements(1) = Object
<1>1. 2 \in Nat /\ 1 \in Nat /\ 2 + 1 = 3 * 1
  OBVIOUS
<1>2. /\ Elements(1) \in Seq(Words) /\ Len(Elements(1)) = 2
      /\ \A k \in 1 .. 2 : Elements(1)[k] = WordAt(k)
  BY <1>1, ElementsType
<1>3. 1 % 3 = 1 /\ 2 % 3 = 2 /\ 1 \in 1 .. 2 /\ 2 \in 1 .. 2
  OBVIOUS
<1>4. WordAt(1) = "object" /\ WordAt(2) = "newline"
  BY <1>3 DEF WordAt
<1>5. \A k \in 1 .. 2 : k = 1 \/ k = 2
  OBVIOUS
<1>6. \A k \in 1 .. 2 : Elements(1)[k] = Object[k]
  BY <1>2, <1>3, <1>4, <1>5, WordsType
<1>. QED  BY <1>2, <1>6, WordsType, SeqEqual

\* One element more, with a comma in front unless it is the first.
LEMMA ElementsMore ==
  ASSUME NEW n \in Nat, n # 0
  PROVE  Elements(n + 1) = (Elements(n) \o <<",">>) \o Object
<1>1. PICK m \in Nat : m = n + 1
  OBVIOUS
<1>2. PICK x \in Nat : x + 1 = 3 * n
  <2>1. 3 * n - 1 \in Nat /\ (3 * n - 1) + 1 = 3 * n
    OBVIOUS
  <2>. QED  BY <2>1
<1>3. PICK y \in Nat : y + 1 = 3 * m
  <2>1. 3 * m - 1 \in Nat /\ (3 * m - 1) + 1 = 3 * m
    BY <1>1
  <2>. QED  BY <2>1
<1>4. y = x + 3
  BY <1>1, <1>2, <1>3
<1>. DEFINE a == Elements(m)
            e == Elements(n)
            s == <<",">>
            c == e \o s
            b == c \o Object
<1>5. e \in Seq(Words) /\ Len(e) = x /\ \A k \in 1 .. x : e[k] = WordAt(k)
  BY <1>2, ElementsType
<1>6. a \in Seq(Words) /\ Len(a) = y /\ \A k \in 1 .. y : a[k] = WordAt(k)
  BY <1>3, ElementsType
<1>7. s \in Seq(Words) /\ Len(s) = 1 /\ s[1] = ","
  BY WordsType
<1>8. Object \in Seq(Words) /\ Len(Object) = 2 /\ Object[1] = "object" /\ Object[2] = "newline"
  BY WordsType
<1>. HIDE DEF a, e, s
<1>9. /\ c \in Seq(Words) /\ Len(c) = Len(e) + Len(s)
      /\ \A k \in 1 .. Len(e) + Len(s) : c[k] = IF k <= Len(e) THEN e[k] ELSE s[k - Len(e)]
  <2>1. e \in Seq(Words) /\ s \in Seq(Words)
    BY <1>5, <1>7
  <2>. QED  BY <2>1, ConcatProperties
<1>. HIDE DEF c
<1>10. /\ b \in Seq(Words) /\ Len(b) = Len(c) + Len(Object)
       /\ \A k \in 1 .. Len(c) + Len(Object) : b[k] = IF k <= Len(c) THEN c[k] ELSE Object[k - Len(c)]
  <2>1. c \in Seq(Words) /\ Object \in Seq(Words)
    BY <1>8, <1>9
  <2>. QED  BY <2>1, ConcatProperties
<1>. HIDE DEF b
<1>11. Len(c) = x + 1 /\ \A k \in 1 .. x + 1 : c[k] = IF k <= x THEN e[k] ELSE s[k - x]
  BY <1>5, <1>7, <1>9
<1>12. Len(b) = x + 3 /\ \A k \in 1 .. x + 3 : b[k] = IF k <= x + 1 THEN c[k] ELSE Object[k - (x + 1)]
  BY <1>8, <1>10, <1>11
<1>13. ASSUME NEW k \in 1 .. x + 3 PROVE a[k] = b[k]
  <2>1. k \in 1 .. x \/ k = x + 1 \/ k = x + 2 \/ k = x + 3
    OBVIOUS
  <2>2. a[k] = WordAt(k)
    BY <1>4, <1>6
  <2>3. CASE k \in 1 .. x
    <3>1. k \in 1 .. x + 1 /\ k <= x /\ k <= x + 1
      BY <2>3
    <3>. QED  BY <1>5, <1>11, <1>12, <2>2, <2>3, <3>1
  <2>4. CASE k = x + 1
    <3>1. k % 3 = 0 /\ k \in 1 .. x + 1 /\ k <= x + 1 /\ ~(k <= x) /\ k - x = 1
      BY <1>2, <2>4, Thirds
    <3>2. WordAt(k) = ","
      BY <3>1 DEF WordAt
    <3>3. b[k] = ","
      BY <1>7, <1>11, <1>12, <3>1
    <3>. QED  BY <2>2, <3>2, <3>3
  <2>5. CASE k = x + 2
    <3>1. k % 3 = 1 /\ ~(k <= x + 1) /\ k - (x + 1) = 1
      BY <1>2, <2>5, Thirds
    <3>2. WordAt(k) = "object"
      BY <3>1 DEF WordAt
    <3>3. b[k] = "object"
      BY <1>8, <1>12, <3>1
    <3>. QED  BY <2>2, <3>2, <3>3
  <2>6. CASE k = x + 3
    <3>1. k % 3 = 2 /\ ~(k <= x + 1) /\ k - (x + 1) = 2
      BY <1>2, <2>6, Thirds
    <3>2. WordAt(k) = "newline"
      BY <3>1 DEF WordAt
    <3>3. b[k] = "newline"
      BY <1>8, <1>12, <3>1
    <3>. QED  BY <2>2, <3>2, <3>3
  <2>. QED  BY <2>1, <2>3, <2>4, <2>5, <2>6
<1>14. a = b
  BY <1>4, <1>6, <1>10, <1>12, <1>13, SeqEqual
<1>. QED  BY <1>1, <1>14 DEF a, b, c, e, s

\* Of the actions only three touch the document.
LEMMA ReadsOnly ==
  ASSUME Read, ~Main, ~PrintCohort
  PROVE  /\ pc \notin {"main", "done"} /\ pc' \notin {"main", "done"}
         /\ UNCHANGED <<document, printed, mode>>
<1>1. CASE ReadNWorkers
  BY <1>1 DEF ReadNWorkers
<1>2. CASE ReadInput
  BY <1>2 DEF ReadInput, NextWorker
<1>3. CASE ReadLength("so_len", 8, "so")
  BY <1>3 DEF ReadLength
<1>4. CASE ReadSo
  BY <1>4 DEF ReadSo
<1>5. CASE ReadStatus
  BY <1>5 DEF ReadStatus
<1>6. CASE ReadNDecoded
  BY <1>6 DEF ReadNDecoded
<1>7. CASE ReadLength("len", 2, "result")
  BY <1>7 DEF ReadLength
<1>8. CASE ReadResult
  BY <1>8 DEF ReadResult, NextWorker
<1>. QED  BY <1>1, <1>2, <1>3, <1>4, <1>5, <1>6, <1>7, <1>8 DEF Read

\* What PrintCohort adds to the document is the next element or line.
LEMMA PrintsElement ==
  ASSUME NEW n \in Nat, NEW doc,
         doc = IF mode = "JSON" THEN <<"[">> \o Elements(n) ELSE Lines(n),
         printed # <<>> <=> n # 0
  PROVE  doc \o Comma \o Object =
           IF mode = "JSON" THEN <<"[">> \o Elements(n + 1) ELSE Lines(n + 1)
<1>. DEFINE open == <<"[">>
            comma == <<",">>
            e == Elements(n)
<1>1. open \in Seq(Words) /\ comma \in Seq(Words) /\ Object \in Seq(Words) /\ Lines(n) \in Seq(Words)
  BY WordsType, LinesType
<1>2. CASE mode = "JSON" /\ n = 0
  <2>1. doc = open \o <<>> /\ Comma = <<>>
    BY <1>2, Nothing DEF Comma
  <2>2. open \o <<>> = open
    BY <1>1, ConcatEmptySeq
  <2>3. Elements(n + 1) = Object
    <3>1. n + 1 = 1
      BY <1>2
    <3>. QED  BY <3>1, OneElement
  <2>. HIDE DEF open
  <2>4. (doc \o Comma) \o Object = open \o Object
    BY <2>1, <2>2
  <2>. QED  BY <1>2, <2>3, <2>4 DEF open
<1>3. CASE mode = "JSON" /\ n # 0
  <2>1. doc = open \o e /\ Comma = comma
    BY <1>3 DEF Comma
  <2>2. e \in Seq(Words)
    <3>1. PICK m \in Nat : m + 1 = 3 * n
      <4>1. 3 * n - 1 \in Nat /\ (3 * n - 1) + 1 = 3 * n
        BY <1>3
      <4>. QED  BY <4>1
    <3>. QED  BY <3>1, ElementsType
  <2>3. Elements(n + 1) = (e \o comma) \o Object
    BY <1>3, ElementsMore
  <2>. HIDE DEF open, comma, e
  <2>4. open \o ((e \o comma) \o Object) = ((open \o e) \o comma) \o Object
    <3>1. open \in Seq(Words) /\ e \in Seq(Words) /\ comma \in Seq(Words) /\ Object \in Seq(Words)
      BY <1>1, <2>2
    <3>2. open \o (e \o comma) = (open \o e) \o comma /\ e \o comma \in Seq(Words)
      BY <3>1, ConcatAssociative, ConcatProperties
    <3>3. open \o ((e \o comma) \o Object) = (open \o (e \o comma)) \o Object
      BY <3>1, <3>2, ConcatAssociative, SMTT(30)
    <3>. QED  BY <3>2, <3>3
  <2>. QED  BY <1>3, <2>1, <2>3, <2>4 DEF open
<1>4. CASE mode # "JSON"
  <2>1. doc = Lines(n) /\ Comma = <<>>
    BY <1>4 DEF Comma
  <2>2. Lines(n) \o <<>> = Lines(n)
    BY <1>1, ConcatEmptySeq
  <2>. QED  BY <1>4, <2>1, <2>2, LinesMore
<1>. QED  BY <1>2, <1>3, <1>4

\* DocumentInv, with ReaderInv, holds from the beginning, after every step, and so always.
LEMMA DocumentInit == Init => DocumentInv
BY EmptySeq DEF Init, DocumentInv

LEMMA DocumentNext == ReaderInv /\ DocumentInv /\ Read => DocumentInv'
<1>. SUFFICES ASSUME ReaderInv, DocumentInv, Read PROVE DocumentInv'
  OBVIOUS
<1>. DEFINE n == Len(printed)
            body == IF mode = "JSON" THEN <<"[">> \o Elements(n) ELSE Lines(n)
<1>1. n \in Nat /\ mode \in {"JSON", "JSONL"} /\ printed \in Seq(PrintedLine)
  BY DEF ReaderInv, PrintedUpTo, DocumentInv
<1>2. printed # <<>> <=> n # 0
  BY <1>1, EmptySeq
<1>3. CASE Main
  <2>1. /\ printed = <<>> /\ pc' = "nworkers" /\ printed' = printed /\ mode' = mode
        /\ document' = IF mode = "JSON" THEN <<"[">> ELSE <<>>
    BY <1>3 DEF Main, DocumentInv
  <2>2. Len(printed') = 0
    BY <2>1, EmptySeq
  <2>3. <<"[">> \o <<>> = <<"[">>
    BY WordsType, ConcatEmptySeq
  <2>4. document' = IF mode' = "JSON" THEN <<"[">> \o Elements(Len(printed')) ELSE Lines(Len(printed'))
    BY <2>1, <2>2, <2>3, Nothing
  <2>. QED  BY <1>1, <2>1, <2>2, <2>4 DEF DocumentInv
<1>4. CASE PrintCohort
  <2>1. pc = "print" /\ mode' = mode
    BY <1>4 DEF PrintCohort
  <2>2. document = body
    BY <2>1 DEF DocumentInv
  <2>3. CASE m_finished_parsing
    <3>1. /\ pc' = "done" /\ printed' = printed
          /\ document' = document \o (IF mode = "JSON" THEN <<"]">> ELSE <<>>)
      BY <1>4, <2>3 DEF PrintCohort
    <3>2. Lines(n) \o <<>> = Lines(n)
      BY <1>1, LinesType, ConcatEmptySeq
    <3>3. document' = IF mode = "JSON" THEN <<"[">> \o Elements(n) \o <<"]">> ELSE Lines(n)
      BY <2>2, <3>1, <3>2
    <3>. QED  BY <1>1, <2>1, <3>1, <3>3 DEF DocumentInv
  <2>4. CASE ~m_finished_parsing
    <3>1. /\ pc' = "nworkers" /\ printed' = Append(printed, Line(results))
          /\ document' = document \o Comma \o Object
      BY <1>4, <2>4 DEF PrintCohort, Object
    <3>2. printed' \in Seq(PrintedLine) /\ Len(printed') = n + 1
      <4>1. printed' \in Seq(PrintedLine)
        BY ReaderNext DEF ReaderInv, PrintedUpTo
      <4>. QED  BY <1>1, <3>1, <4>1
    <3>3. document' = IF mode = "JSON" THEN <<"[">> \o Elements(n + 1) ELSE Lines(n + 1)
      BY <1>1, <1>2, <2>2, <3>1, PrintsElement
    <3>. QED  BY <1>1, <2>1, <3>1, <3>2, <3>3 DEF DocumentInv
  <2>. QED  BY <2>3, <2>4
<1>5. CASE ~Main /\ ~PrintCohort
  BY <1>5, ReadsOnly DEF DocumentInv
<1>. QED  BY <1>3, <1>4, <1>5

LEMMA DocumentAlways == ReportSpec => [](ReaderInv /\ DocumentInv)
<1>1. ReportInit => ReaderInv /\ DocumentInv
  BY ReaderInit, DocumentInit DEF ReportInit
<1>2. (ReaderInv /\ DocumentInv) /\ [ReportNext]_vars => (ReaderInv /\ DocumentInv)'
  <2>1. ReaderInv /\ DocumentInv /\ Read => (ReaderInv /\ DocumentInv)'
    BY ReaderNext, DocumentNext
  <2>2. DocumentInv /\ UNCHANGED reader => DocumentInv'
    BY DEF DocumentInv, reader
  <2>. QED  BY <2>1, <2>2, PassesRead, ReaderStays
<1>. QED  BY <1>1, <1>2, PTL DEF ReportSpec

\* When mish2jsonl is done its document is well-formed.
LEMMA DocumentIsWellFormed == ReaderInv /\ DocumentInv => WellFormed
<1>. SUFFICES ASSUME ReaderInv, DocumentInv, pc = "done" PROVE WellFormed
  BY DEF WellFormed
<1>1. printed \in Seq(PrintedLine)
  BY DEF ReaderInv, PrintedUpTo
<1>2. ASSUME NEW k \in 1 .. Len(printed), NEW w \in DOMAIN printed[k].outputs
      PROVE  /\ IsJsonText(printed[k].outputs[w].so)
             /\ IsJsonText(Escape(printed[k].outputs[w].result))
  <2>1. printed[k] \in PrintedLine
    BY <1>1, ElementOfSeq
  <2>2. printed[k].outputs \in Seq(PrintedOutput)
    BY <2>1 DEF PrintedLine
  <2>3. w \in 1 .. Len(printed[k].outputs)
    BY <2>2, LenProperties
  <2>4. printed[k].outputs[w] \in PrintedOutput
    BY <2>2, <2>3, ElementOfSeq
  <2>5. /\ printed[k].outputs[w].so \in Seq(Byte) /\ PlainName(printed[k].outputs[w].so)
        /\ printed[k].outputs[w].result \in Seq(Byte)
    BY <2>4 DEF PrintedOutput
  <2>. QED  BY <2>5, PlainIsJson, EscapeRoundTrip
<1>3. document = IF mode = "JSON" THEN <<"[">> \o Elements(Len(printed)) \o <<"]">>
                 ELSE Lines(Len(printed))
  BY DEF DocumentInv
<1>. QED  BY <1>2, <1>3 DEF WellFormed

\* When mish2jsonl is done its document is a JSON array, or a list of lines, of
\* the objects it printed, and every text in them is a JSON string.
THEOREM WellFormedAlways == ReportSpec => []WellFormed
BY DocumentAlways, DocumentIsWellFormed, PTL
=============================================================================
