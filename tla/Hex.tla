-------------------------------- MODULE Hex --------------------------------
(***************************************************************************)
(* Bytes in hex, as mish2jsonl prints an input                             *)
(* (src/mish2jsonl/mish2jsonl.c) and as the manual mutator reads one       *)
(* (src/mishegos/mutator.c).  A character is its code.                     *)
(***************************************************************************)
EXTENDS Integers, Sequences

Byte == 0 .. 255

\* "0123456789abcdef"[n]
DigitOf(n) == IF n < 10 THEN 48 + n ELSE 87 + n

\* m_cohort_print_json: hexbuf
Hexbuf(bytes) ==
  [k \in 1 .. 2 * Len(bytes) |->
    DigitOf(IF k % 2 = 1 THEN bytes[(k + 1) \div 2] \div 16 ELSE bytes[k \div 2] % 16)]

Nibble(c) == ((c % 32) + 9) % 25

\* hex2bytes; a digit left over is dropped, 8 bits are stored.
Hex2Bytes(line) ==
  [j \in 1 .. Len(line) \div 2 |-> (Nibble(line[2 * j - 1]) * 16 + Nibble(line[2 * j])) % 256]
=============================================================================
