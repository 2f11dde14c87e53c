-------------------------------- MODULE Rng --------------------------------
(***************************************************************************)
(* The random numbers of the mutators: xoroshiro256_next                   *)
(* (src/mishegos/mutator.c).  A word of 64 bits is the set of its one      *)
(* bits, so that xor, shift and rotation are sets of positions; the two    *)
(* multiplications are sums of shifted words, modulo 2^64.                 *)
(***************************************************************************)
EXTENDS Integers

Bits  == 0 .. 63
Words == SUBSET Bits
Zero  == {}

\* rng_state
States == [0 .. 3 -> Words]

Xor(a, b) == (a \ b) \cup (b \ a)
Shl(a, k) == {b \in Bits : b - k \in a}
Rotl(a, k) == {b \in Bits : (b + 64 - k) % 64 \in a}

\* Sum of two words: a bit is set if it and the carry into it are odd.
Sum(a, b) ==
  LET carry[n \in 0 .. 64] ==
        IF n = 0 THEN FALSE
        ELSE \/ n - 1 \in a /\ n - 1 \in b
             \/ (n - 1 \in a \/ n - 1 \in b) /\ carry[n - 1]
  IN  {n \in Bits : (n \in Xor(a, b)) # carry[n]}

\* a * 5 and a * 9
Times5(a) == Sum(a, Shl(a, 2))
Times9(a) == Sum(a, Shl(a, 3))

\* What xoroshiro256_next returns in state s.
Random(s) == Times9(Rotl(Times5(s[1]), 7))

\* What it leaves in rng_state.
NextState(s) ==
  LET t  == Shl(s[1], 17)
      s2 == Xor(s[2], s[0])
      s3 == Xor(s[3], s[1])
      s1 == Xor(s[1], s2)
      s0 == Xor(s[0], s3)
  IN  [k \in 0 .. 3 |-> CASE k = 0 -> s0 [] k = 1 -> s1 [] k = 2 -> Xor(s2, t) [] k = 3 -> Rotl(s3, 45)]

Stuck == [k \in 0 .. 3 |-> Zero]
=============================================================================
