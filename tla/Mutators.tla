------------------------------ MODULE Mutators ------------------------------
(***************************************************************************)
(* The mutators (src/mishegos/mutator.c) and the loop of main that fills   *)
(* input slots with them, over and over the same slots.                    *)
(*                                                                         *)
(* Random bytes are not told apart: a byte of a slot is its position in    *)
(* the candidate last copied there, or Left from earlier calls.  A         *)
(* candidate is its length, made of the lengths of its parts, a line of    *)
(* the manual mutator is its length.                                       *)
(***************************************************************************)
EXTENDS Integers, Sequences

CONSTANTS
  Names,     \* mutators to choose from (-m)
  NSlots,    \* input slots in use
  Stdin      \* what manual may find on stdin: sequences of line lengths

INSN_MAXLEN == 15  \* MISHEGOS_INSN_MAXLEN
CAND_MAXLEN == 28  \* room of insn_cand.insn

ASSUME MutatorsAssumption ==
  /\ Names \subseteq {"sliding", "structured", "havoc", "dummy", "manual"}
  /\ NSlots \in Nat \ {0}
  /\ Stdin \subseteq Seq(Nat)

Slots == 0 .. NSlots - 1
Bytes == 0 .. INSN_MAXLEN - 1

VARIABLES
  mutator, insn_cand,
  lines,     \* stdin, and
  lineno,    \* the lines read of it
  slots,     \* input_slot: len and raw_insn
  next,      \* the slot main fills next
  exhausted, \* the mutator returned false
  written,   \* history: bytes the last call wrote to raw_insn
  handed     \* history: what main counted: windows of the current sliding
             \* candidate, or the lengths of all of manual's candidates

vars == <<mutator, insn_cand, lines, lineno, slots, next, exhausted, written, handed>>

Left == -1

TypeOK ==
  /\ mutator \in Names
  /\ insn_cand \in [off : Nat, len : Nat]
  /\ lines \in Seq(Nat) /\ lineno \in 0 .. Len(lines)
  /\ slots \in [Slots -> [len : Nat, raw_insn : [Bytes -> Nat \cup {Left}]]]
  /\ next \in Slots /\ exhausted \in BOOLEAN
  /\ written \in Nat /\ handed \in Seq(Nat)

Init ==
  /\ mutator \in Names
  /\ insn_cand = [off |-> 0, len |-> 0]
  /\ IF mutator = "manual" THEN lines \in Stdin ELSE lines = <<>>
  /\ lineno = 0
  /\ slots = [s \in Slots |-> [len |-> 0, raw_insn |-> [k \in Bytes |-> Left]]]
  /\ next = 0 /\ exhausted = FALSE /\ written = 0 /\ handed = <<>>

\* The next call, for slot next.
Call(name) ==
  /\ mutator = name /\ ~exhausted
  /\ UNCHANGED mutator

\* Slot next gets length len and n bytes of a candidate, from position off on.
Fill(len, n, off) ==
  /\ slots' = [slots EXCEPT ![next] =
                 [len |-> len,
                  raw_insn |-> [k \in Bytes |-> IF k < n THEN off + k ELSE Left]]]
  /\ written' = n

\* The mutator returned true: main goes on with the next slot.
NextSlot ==
  /\ next' = (next + 1) % NSlots
  /\ UNCHANGED exhausted

\* The mutator returned false: main does not count the slot and stops.
Exhaust == exhausted' = TRUE /\ UNCHANGED next

-----------------------------------------------------------------------------

OpcodeLen == 1 .. 5

\* Displacement and immediate: none, 1, 2, 4 or 8 bytes.
FieldLen == {0, 1, 2, 4, 8}

\* Legacy prefixes, REX, opcode, ModR/M and SIB, displacement, immediate.
SlidingLens == {4 + rex + op + 2 + disp + imm :
                  rex \in 0 .. 1, op \in OpcodeLen, disp \in FieldLen, imm \in FieldLen}

\* Mutant: the last window is left out.
NextOff_Short(off, len) == (off + 1) % (len - INSN_MAXLEN)

\* The offset after the window at off; 0 once it was the last one.
NextOff(off, len) == (off + 1) % (len - INSN_MAXLEN + 1)

\* A window of the candidate, which is built anew when the offset is 0.
SlidingWindow(cand, before) ==
  IF cand.len <= INSN_MAXLEN
  THEN /\ Fill(cand.len, cand.len, 0)
       /\ insn_cand' = [cand EXCEPT !.off = 0]
       /\ handed' = <<0>>
  ELSE /\ Fill(INSN_MAXLEN, INSN_MAXLEN, cand.off)
       /\ insn_cand' = [cand EXCEPT !.off = NextOff(cand.off, cand.len)]
       /\ handed' = Append(before, cand.off)

Sliding ==
  /\ Call("sliding")
  /\ IF insn_cand.off = 0
     THEN \E len \in SlidingLens :
            SlidingWindow([off |-> 0, len |-> len], <<>>)
     ELSE SlidingWindow(insn_cand, handed)
  /\ NextSlot /\ UNCHANGED <<lines, lineno>>

\* Mutant: the tail is not cut.
TailSize_Uncut(len, tail_size) == tail_size

\* Random bytes after the structured part, as far as they fit.
TailSize(len, tail_size) ==
  IF len + tail_size > INSN_MAXLEN THEN INSN_MAXLEN - len ELSE tail_size

\* Up to 4 prefixes, a REX prefix, the opcode, a ModR/M and an SIB byte, a tail.
StructuredLens ==
  LET fixed == {prefix_count + rex + op + modrm + sib :
                  prefix_count \in 0 .. 4, rex \in 0 .. 1, op \in OpcodeLen,
                  modrm \in 0 .. 1, sib \in 0 .. 1}
  IN  {len + TailSize(len, tail_size) : len \in fixed, tail_size \in 0 .. 5}

Structured ==
  /\ Call("structured")
  /\ \E n \in StructuredLens : Fill(n, n, 0)
  /\ NextSlot /\ UNCHANGED <<insn_cand, lines, lineno, handed>>

\* Mutant: the second half of the slot is not filled.
HavocBytes_Lower == 8

\* Two random numbers, of which 8 and 7 bytes are used.
HavocBytes == 8 + 7

\* All of raw_insn is random, whatever the length.
Havoc ==
  /\ Call("havoc")
  /\ \E len \in 1 .. INSN_MAXLEN : Fill(len, HavocBytes, 0)
  /\ NextSlot /\ UNCHANGED <<insn_cand, lines, lineno, handed>>

\* A NOP, and that was the last candidate: main will not count it.
Dummy ==
  /\ Call("dummy")
  /\ Fill(1, 1, 0)
  /\ Exhaust /\ UNCHANGED <<insn_cand, lines, lineno, handed>>

\* Mutant: a line of 15 bytes is refused.
Malformed_Longest(linelen) == linelen = 0 \/ linelen >= 2 * INSN_MAXLEN

Malformed(linelen) == linelen = 0 \/ linelen > 2 * INSN_MAXLEN

\* Two hex digits a byte; a digit left over is dropped.
Manual ==
  /\ Call("manual")
  /\ IF lineno = Len(lines) \/ Malformed(lines[lineno + 1])
     THEN Exhaust /\ UNCHANGED <<slots, written, handed>>
     ELSE LET n == lines[lineno + 1] \div 2
          IN  Fill(n, n, 0) /\ NextSlot /\ handed' = Append(handed, n)
  /\ lineno' = IF lineno = Len(lines) THEN lineno ELSE lineno + 1
  /\ UNCHANGED <<insn_cand, lines>>

\* Main stops asking.
Stopped == exhausted /\ UNCHANGED vars

Next == Sliding \/ Structured \/ Havoc \/ Dummy \/ Manual \/ Stopped

Spec == Init /\ [][Next]_vars

-----------------------------------------------------------------------------

\* No call writes past raw_insn or past the room for a sliding candidate, or
\* copies a window that does not end inside the candidate.
WithinBuffers ==
  /\ written <= INSN_MAXLEN
  /\ insn_cand.len <= CAND_MAXLEN
  /\ insn_cand.off # 0 => insn_cand.off + INSN_MAXLEN <= insn_cand.len
  /\ \A s \in Slots : slots[s].len <= INSN_MAXLEN

\* The first len bytes of a slot, which is what a worker decodes, are consecutive
\* bytes of one candidate: none is left from what the slot held before.
OneCandidate ==
  \A s \in Slots : \A k \in 0 .. slots[s].len - 1 :
    slots[s].raw_insn[k] # Left /\ slots[s].raw_insn[k] = slots[s].raw_insn[0] + k

\* "An offset of zero into our sliding candidate indicates that we've slid all
\* the way through" (mutator.c:301): when the next call builds a new candidate, each
\* window of this one was handed out once, in order.
SlidesThrough ==
  insn_cand.off = 0 /\ insn_cand.len # 0 =>
    handed = [k \in 1 .. (IF insn_cand.len <= INSN_MAXLEN THEN 1
                          ELSE insn_cand.len - INSN_MAXLEN + 1) |-> k - 1]

\* "Returns false if the configured mutation mode has been exhausted" (mutator.h:8).
\* When it does, the campaign is made of the lines up to the first that is blank
\* or longer than an instruction, each once and in order, or, for dummy, of
\* nothing: the slot filled with the last answer is not counted.
CampaignDrawn ==
  exhausted =>
    /\ mutator \in {"manual", "dummy"}
    /\ \E n \in 0 .. Len(lines) :
         /\ handed = [k \in 1 .. n |-> lines[k] \div 2]
         /\ \A k \in 1 .. n : lines[k] \in 1 .. 30
         /\ n < Len(lines) => lines[n + 1] \notin 1 .. 30
=============================================================================
