----------------------------- MODULE MCDecoders -----------------------------
(***************************************************************************)
(* Instance of GhidraWorker, and so of Decoders and Sleigh, for TLC.       *)
(***************************************************************************)
EXTENDS GhidraWorker

\* Lines of one digit and of one to three bytes.
TwoShort == [1 .. 2 -> {1, 2, 4, 6}]

\* Blank, odd, longest and overlong lines.
ManyLines == [1 .. 3 -> {0, 1, 2, 30, 31}] \cup TwoShort

\* Two steps of the generator, computed with 64-bit integers.
R == INSTANCE Rng
Word(h) == {b \in R!Bits : (h[4 - (b \div 16)] \div 2 ^ (b % 16)) % 2 = 1}
Seed == [k \in 0 .. 3 |->
  CASE k = 0 -> Word(<<\h0123, \h4567, \h89AB, \hCDEF>>)
    [] k = 1 -> Word(<<\hFEDC, \hBA98, \h7654, \h3210>>)
    [] k = 2 -> Word(<<\hDEAD, \hBEEF, \hCAFE, \hBABE>>)
    [] k = 3 -> Word(<<\h8000, \h0000, \h0000, \h0001>>)]

ASSUME RngAgrees ==
  /\ R!Random(Seed) = Word(<<\h6666, \h6666, \h6666, \h6C65>>)
  /\ R!Random(R!NextState(Seed)) = Word(<<\hBAB7, \hECA8, \h9C96, \h396B>>)

(***************************************************************************)
(* A processor with a prefix that changes the size of an immediate, an     *)
(* operand that follows another of any length, a subtable of a subtable,   *)
(* and bytes that are no instruction.                                      *)
(***************************************************************************)

SmallMatches == [key \in {"instruction", "rm", "sib"} \X {0, 1, 2, 3} \X {"none", "long", "short"} |->
  LET byte == key[2]
      context == key[3]
  IN  CASE key[1] = "instruction" /\ byte = 0 -> "mov"
        [] key[1] = "instruction" /\ byte = 1 -> "prefix"
        [] key[1] = "instruction" /\ byte = 2 ->
             (IF context = "long" THEN "imm2" ELSE IF context = "short" THEN "imm1" ELSE NoMatch)
        [] key[1] = "rm" /\ byte = 0 -> "reg"
        [] key[1] = "rm" /\ byte = 1 -> "mem"
        [] key[1] = "rm" /\ byte = 2 -> "indexed"
        [] key[1] = "sib" /\ byte < 3 -> "index"
        [] OTHER -> NoMatch]

SmallConstructors == {"mov", "prefix", "imm1", "imm2", "reg", "mem", "indexed", "index"}

SmallSetsContext == [ct \in SmallConstructors |-> [context \in {"none", "long", "short"} |->
  IF ct = "prefix" /\ context # "none" THEN "short" ELSE context]]

Sub(table, base, rel) == [table |-> table, base |-> base, rel |-> rel, len |-> 0]
Field(base, rel, len) == [table |-> Leaf, base |-> base, rel |-> rel, len |-> len]

SmallOperands == [ct \in SmallConstructors |->
  CASE ct = "mov"     -> <<Sub("rm", 0, 1), Field(1, 0, 1)>>
    [] ct = "prefix"  -> <<Sub("instruction", 0, 1)>>
    [] ct = "imm1"    -> <<Field(0, 1, 1)>>
    [] ct = "imm2"    -> <<Field(0, 1, 2)>>
    [] ct = "mem"     -> <<Field(0, 1, 1)>>
    [] ct = "indexed" -> <<Sub("sib", 0, 1), Field(1, 0, 1)>>
    [] OTHER          -> <<>>]

SmallMinLength == [ct \in SmallConstructors |-> 1]

\* Calls is large enough.
ASSUME AllKnown == \A bytes \in Memory : Instruction(bytes).verdict # "unknown"
=============================================================================
