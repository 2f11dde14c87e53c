--------------------------- MODULE DecodersProofs ---------------------------
(***************************************************************************)
(* Proofs about what goes into a worker and what comes out of it: about    *)
(* Mutators, with the random numbers they draw (Rng): what any mutator     *)
(* fills a slot with; about Decoders: what any adapter leaves of an output *)
(* slot, for any texts, any candidates and however often the slots were    *)
(* used; and about GhidraWorker, for every processor specification, every  *)
(* input and every set of adapters.                                        *)
(***************************************************************************)
EXTENDS GhidraWorker, Rng, SequenceTheorems, WellFoundedInduction, TLAPS

(***************************************************************************)
(* Mutators: lengths                                                       *)
(***************************************************************************)

\* The parts of a sliding candidate fit its 28 bytes, those of a structured one,
\* with the tail cut, an instruction.
LEMMA SlidingFits == \A len \in SlidingLens : len \in Nat /\ 7 <= len /\ len <= CAND_MAXLEN
<1>. SUFFICES ASSUME NEW rex \in 0 .. 1, NEW op \in 1 .. 5, NEW disp \in FieldLen, NEW imm \in FieldLen
              PROVE  LET len == 4 + rex + op + 2 + disp + imm
                     IN  len \in Nat /\ 7 <= len /\ len <= CAND_MAXLEN
  BY DEF SlidingLens, OpcodeLen
<1>1. disp \in 0 .. 8 /\ imm \in 0 .. 8
  BY DEF FieldLen
<1>. QED  BY <1>1 DEF CAND_MAXLEN

LEMMA StructuredFits == \A n \in StructuredLens : n \in Nat /\ n <= INSN_MAXLEN
<1>. DEFINE fixed == {prefix_count + rex + op + modrm + sib :
                        prefix_count \in 0 .. 4, rex \in 0 .. 1, op \in OpcodeLen,
                        modrm \in 0 .. 1, sib \in 0 .. 1}
<1>1. fixed \subseteq 0 .. INSN_MAXLEN
  BY DEF OpcodeLen, INSN_MAXLEN
<1>2. StructuredLens = {len + TailSize(len, tail_size) : len \in fixed, tail_size \in 0 .. 5}
  BY DEF StructuredLens
<1>. HIDE DEF fixed
<1>3. \A len \in fixed, tail_size \in 0 .. 5 :
        len + TailSize(len, tail_size) \in Nat /\ len + TailSize(len, tail_size) <= INSN_MAXLEN
  <2>. SUFFICES ASSUME NEW len \in fixed, NEW tail_size \in 0 .. 5
                PROVE  /\ len + TailSize(len, tail_size) \in Nat
                       /\ len + TailSize(len, tail_size) <= INSN_MAXLEN
    OBVIOUS
  <2>1. len \in 0 .. 15
    BY <1>1 DEF INSN_MAXLEN
  <2>2. CASE len + tail_size > 15
    BY <2>1, <2>2 DEF TailSize, INSN_MAXLEN
  <2>3. CASE ~(len + tail_size > 15)
    BY <2>1, <2>3 DEF TailSize, INSN_MAXLEN
  <2>. QED  BY <2>2, <2>3
<1>. QED  BY <1>2, <1>3

\* The next window of a candidate longer than an instruction.
LEMMA NextWindow ==
  ASSUME NEW len \in Nat, len > INSN_MAXLEN, NEW off \in 0 .. len - INSN_MAXLEN
  PROVE  IF off = len - INSN_MAXLEN THEN NextOff(off, len) = 0 ELSE NextOff(off, len) = off + 1
<1>. DEFINE m == len - INSN_MAXLEN + 1
<1>1. m \in Nat /\ m > 1 /\ off + 1 \in 1 .. m
  BY DEF INSN_MAXLEN
<1>2. NextOff(off, len) = (off + 1) % m
  BY DEF NextOff
<1>3. m % m = 0
  BY <1>1
<1>4. off + 1 < m => (off + 1) % m = off + 1
  BY <1>1
<1>. HIDE DEF m
<1>5. off = len - INSN_MAXLEN <=> off + 1 = m
  BY DEF INSN_MAXLEN, m
<1>. QED  BY <1>1, <1>2, <1>3, <1>4, <1>5

-----------------------------------------------------------------------------
(***************************************************************************)
(* Mutators: the invariant                                                 *)
(***************************************************************************)

Slot == [len : 0 .. INSN_MAXLEN, raw_insn : [Bytes -> Nat \cup {Left}]]

Types ==
  /\ insn_cand \in [off : Nat, len : 0 .. CAND_MAXLEN]
  /\ lines \in Seq(Nat) /\ lineno \in 0 .. Len(lines)
  /\ slots \in [Slots -> Slot]
  /\ next \in Slots
  /\ exhausted \in BOOLEAN
  /\ written \in 0 .. INSN_MAXLEN
  /\ handed \in Seq(Nat)

\* The windows handed out are those below the offset; there are more at it and above.
Sliding0 ==
  mutator = "sliding" =>
    /\ insn_cand.off # 0 =>
         /\ insn_cand.len > INSN_MAXLEN
         /\ insn_cand.off <= insn_cand.len - INSN_MAXLEN
         /\ handed = [k \in 1 .. insn_cand.off |-> k - 1]
    /\ SlidesThrough

NoCandidate == mutator # "sliding" => insn_cand.off = 0 /\ insn_cand.len = 0

\* The lines read were all handed out, but for the one that ended the input.
Drawn ==
  /\ mutator \in {"manual", "dummy"} =>
       /\ Len(handed) <= Len(lines)
       /\ handed = [k \in 1 .. Len(handed) |-> lines[k] \div 2]
       /\ \A k \in 1 .. Len(handed) : lines[k] \in 1 .. 30
  /\ mutator = "manual" /\ ~exhausted => lineno = Len(handed)
  /\ mutator = "dummy" => lines = <<>> /\ handed = <<>>
  /\ exhausted =>
       /\ mutator \in {"manual", "dummy"}
       /\ Len(handed) < Len(lines) => lines[Len(handed) + 1] \notin 1 .. 30

MutInv == Types /\ OneCandidate /\ Sliding0 /\ NoCandidate /\ Drawn

-----------------------------------------------------------------------------

\* A slot filled with at least as many bytes of a candidate as its length says.
LEMMA FilledSlot ==
  ASSUME MutInv, NEW len \in 0 .. INSN_MAXLEN, NEW n \in 0 .. INSN_MAXLEN, len <= n,
         NEW off \in Nat, Fill(len, n, off)
  PROVE  slots' \in [Slots -> Slot] /\ OneCandidate' /\ written' \in 0 .. INSN_MAXLEN
<1>. DEFINE raw == [k \in Bytes |-> IF k < n THEN off + k ELSE Left]
<1>1. raw \in [Bytes -> Nat \cup {Left}]
  BY DEF Bytes, INSN_MAXLEN
<1>2. slots' = [slots EXCEPT ![next] = [len |-> len, raw_insn |-> raw]]
  BY DEF Fill
<1>3. \A k \in 0 .. len - 1 : raw[k] = off + k /\ raw[k] # Left /\ raw[0] = off
  BY DEF Bytes, INSN_MAXLEN, Left
<1>. HIDE DEF raw
<1>4. slots' \in [Slots -> Slot]
  BY <1>1, <1>2 DEF MutInv, Types, Slot
<1>5. OneCandidate'
  <2>. SUFFICES ASSUME NEW s \in Slots, NEW k \in 0 .. slots'[s].len - 1
                PROVE  slots'[s].raw_insn[k] # Left
                       /\ slots'[s].raw_insn[k] = slots'[s].raw_insn[0] + k
    BY DEF OneCandidate
  <2>1. CASE s = next
    <3>1. slots'[s] = [len |-> len, raw_insn |-> raw]
      BY <1>2, <2>1 DEF MutInv, Types
    <3>. QED  BY <3>1, <1>3
  <2>2. CASE s # next
    <3>1. slots'[s] = slots[s]
      BY <1>2, <2>2 DEF MutInv, Types
    <3>. QED  BY <3>1 DEF MutInv, OneCandidate
  <2>. QED  BY <2>1, <2>2
<1>6. written' \in 0 .. INSN_MAXLEN
  BY DEF Fill
<1>. QED  BY <1>4, <1>5, <1>6

LEMMA NextSlotTyped == MutInv /\ NextSlot => next' \in Slots /\ exhausted' = exhausted
BY MutatorsAssumption DEF MutInv, Types, NextSlot, Slots

\* One window of candidate cand, the earlier ones of which are before.
LEMMA WindowStep ==
  ASSUME MutInv, mutator = "sliding", mutator' = mutator, NextSlot, UNCHANGED <<lines, lineno>>,
         ~exhausted,
         NEW cand, NEW before,
         cand \in [off : Nat, len : 0 .. CAND_MAXLEN], cand.len >= 7,
         cand.off <= IF cand.len <= INSN_MAXLEN THEN 0 ELSE cand.len - INSN_MAXLEN,
         before = [k \in 1 .. cand.off |-> k - 1],
         SlidingWindow(cand, before)
  PROVE  MutInv'
<1>1. next' \in Slots /\ exhausted' = exhausted /\ lines' = lines /\ lineno' = lineno
  BY NextSlotTyped
<1>2. CASE cand.len <= INSN_MAXLEN
  <2>1. /\ Fill(cand.len, cand.len, 0)
        /\ insn_cand' = [cand EXCEPT !.off = 0]
        /\ handed' = <<0>>
    BY <1>2 DEF SlidingWindow
  <2>2. slots' \in [Slots -> Slot] /\ OneCandidate' /\ written' \in 0 .. INSN_MAXLEN
    BY <1>2, <2>1, FilledSlot
  <2>3. insn_cand' \in [off : Nat, len : 0 .. CAND_MAXLEN]
        /\ insn_cand'.off = 0 /\ insn_cand'.len = cand.len
    BY <2>1
  <2>4. handed' = [k \in 1 .. 1 |-> k - 1] /\ handed' \in Seq(Nat)
    BY <2>1
  <2>5. Types'
    BY <1>1, <2>2, <2>3, <2>4 DEF MutInv, Types
  <2>6. SlidesThrough'
    BY <1>2, <2>3, <2>4 DEF SlidesThrough
  <2>7. Sliding0' /\ NoCandidate' /\ Drawn'
    BY <2>3, <2>6, <1>1 DEF Sliding0, NoCandidate, Drawn
  <2>. QED  BY <2>2, <2>5, <2>7 DEF MutInv
<1>3. CASE ~(cand.len <= INSN_MAXLEN)
  <2>. DEFINE off == cand.off
              last == cand.len - INSN_MAXLEN
  <2>0. cand.len \in Nat /\ off \in 0 .. last /\ last \in Nat \ {0} /\ cand.len > INSN_MAXLEN
        /\ last + 1 = cand.len - INSN_MAXLEN + 1
    BY <1>3 DEF INSN_MAXLEN
  <2>1. /\ Fill(INSN_MAXLEN, INSN_MAXLEN, off)
        /\ insn_cand' = [cand EXCEPT !.off = NextOff(off, cand.len)]
        /\ handed' = Append(before, off)
    BY <1>3 DEF SlidingWindow
  <2>2. slots' \in [Slots -> Slot] /\ OneCandidate' /\ written' \in 0 .. INSN_MAXLEN
    BY <2>0, <2>1, FilledSlot DEF INSN_MAXLEN
  <2>3. IF off = last THEN NextOff(off, cand.len) = 0 ELSE NextOff(off, cand.len) = off + 1
    BY <2>0, NextWindow
  <2>4. /\ insn_cand' \in [off : Nat, len : 0 .. CAND_MAXLEN]
        /\ insn_cand'.off = (IF off = last THEN 0 ELSE off + 1) /\ insn_cand'.len = cand.len
    BY <2>0, <2>1, <2>3
  <2>5. handed' = [k \in 1 .. off + 1 |-> k - 1] /\ handed' \in Seq(Nat)
    <3>1. before \in Seq(Nat) /\ Len(before) = off
      BY <2>0
    <3>2. handed' = [k \in 1 .. off + 1 |-> IF k = off + 1 THEN off ELSE before[k]]
      BY <2>1, <3>1, <2>0
    <3>3. \A k \in 1 .. off + 1 : (IF k = off + 1 THEN off ELSE before[k]) = k - 1
      BY <2>0
    <3>4. handed' \in Seq(Nat)
      BY <2>1, <3>1, <2>0
    <3>. QED  BY <3>2, <3>3, <3>4
  <2>6. Types'
    BY <1>1, <2>2, <2>4, <2>5 DEF MutInv, Types
  <2>7. SlidesThrough'
    <3>. SUFFICES ASSUME off = last PROVE SlidesThrough'
      BY <2>4, <2>0 DEF SlidesThrough
    <3>1. handed' = [k \in 1 .. cand.len - INSN_MAXLEN + 1 |-> k - 1]
      BY <2>5, <2>0
    <3>. QED  BY <1>3, <3>1, <2>4 DEF SlidesThrough
  <2>8. Sliding0'
    BY <2>4, <2>5, <2>7, <2>0 DEF Sliding0
  <2>9. NoCandidate' /\ Drawn'
    BY <1>1 DEF NoCandidate, Drawn
  <2>. QED  BY <2>2, <2>6, <2>8, <2>9 DEF MutInv
<1>. QED  BY <1>2, <1>3

LEMMA SlidingStep == MutInv /\ Sliding => MutInv'
<1>. SUFFICES ASSUME MutInv, Sliding PROVE MutInv'
  OBVIOUS
<1>1. mutator = "sliding" /\ mutator' = mutator /\ ~exhausted /\ NextSlot /\ UNCHANGED <<lines, lineno>>
  BY DEF Sliding, Call
<1>2. CASE insn_cand.off = 0
  <2>1. PICK len \in SlidingLens : SlidingWindow([off |-> 0, len |-> len], <<>>)
    BY <1>2 DEF Sliding
  <2>. DEFINE cand == [off |-> 0, len |-> len]
  <2>2. cand \in [off : Nat, len : 0 .. CAND_MAXLEN] /\ cand.len >= 7 /\ cand.off = 0
    BY SlidingFits DEF CAND_MAXLEN
  <2>3. <<>> = [k \in 1 .. 0 |-> k - 1]
    OBVIOUS
  <2>4. cand.off <= IF cand.len <= INSN_MAXLEN THEN 0 ELSE cand.len - INSN_MAXLEN
    BY <2>2, SlidingFits DEF INSN_MAXLEN
  <2>. HIDE DEF cand
  <2>5. SlidingWindow(cand, <<>>)
    BY <2>1 DEF cand
  <2>. QED  BY <1>1, <2>2, <2>3, <2>4, <2>5, WindowStep
<1>3. CASE insn_cand.off # 0
  <2>1. SlidingWindow(insn_cand, handed)
    BY <1>3 DEF Sliding
  <2>2. /\ insn_cand.len > INSN_MAXLEN
        /\ insn_cand.off <= insn_cand.len - INSN_MAXLEN
        /\ handed = [k \in 1 .. insn_cand.off |-> k - 1]
    BY <1>1, <1>3 DEF MutInv, Sliding0
  <2>3. insn_cand \in [off : Nat, len : 0 .. CAND_MAXLEN] /\ insn_cand.len >= 7
        /\ ~(insn_cand.len <= INSN_MAXLEN)
    BY <2>2 DEF MutInv, Types, INSN_MAXLEN
  <2>. QED  BY <1>1, <2>1, <2>2, <2>3, WindowStep
<1>. QED  BY <1>2, <1>3

\* Structured and havoc only fill the slot.
LEMMA RandomStep == MutInv /\ (Structured \/ Havoc) => MutInv'
<1>. SUFFICES ASSUME MutInv, Structured \/ Havoc PROVE MutInv'
  OBVIOUS
<1>1. /\ mutator \in {"structured", "havoc"} /\ mutator' = mutator /\ ~exhausted
      /\ NextSlot /\ UNCHANGED <<insn_cand, lines, lineno, handed>>
  BY DEF Structured, Havoc, Call
<1>2. slots' \in [Slots -> Slot] /\ OneCandidate' /\ written' \in 0 .. INSN_MAXLEN
  <2>1. CASE Structured
    <3>1. PICK n \in StructuredLens : Fill(n, n, 0)
      BY <2>1 DEF Structured
    <3>2. n \in 0 .. INSN_MAXLEN
      BY StructuredFits DEF INSN_MAXLEN
    <3>. QED  BY <3>1, <3>2, FilledSlot DEF INSN_MAXLEN
  <2>2. CASE Havoc
    <3>1. PICK len \in 1 .. INSN_MAXLEN : Fill(len, HavocBytes, 0)
      BY <2>2 DEF Havoc
    <3>2. HavocBytes = 15 /\ INSN_MAXLEN = 15
      BY DEF HavocBytes, INSN_MAXLEN
    <3>. QED  BY <3>1, <3>2, FilledSlot
  <2>. QED  BY <2>1, <2>2
<1>3. Types'
  BY <1>1, <1>2, NextSlotTyped DEF MutInv, Types
<1>4. Sliding0' /\ NoCandidate' /\ Drawn'
  BY <1>1, NextSlotTyped DEF MutInv, Sliding0, NoCandidate, Drawn
<1>. QED  BY <1>2, <1>3, <1>4 DEF MutInv

LEMMA DummyStep == MutInv /\ Dummy => MutInv'
<1>. SUFFICES ASSUME MutInv, Dummy PROVE MutInv'
  OBVIOUS
<1>1. /\ mutator = "dummy" /\ mutator' = mutator /\ exhausted' = TRUE /\ next' = next
      /\ UNCHANGED <<insn_cand, lines, lineno, handed>>
  BY DEF Dummy, Call, Exhaust
<1>2. slots' \in [Slots -> Slot] /\ OneCandidate' /\ written' \in 0 .. INSN_MAXLEN
  <2>1. Fill(1, 1, 0)
    BY DEF Dummy
  <2>. QED  BY <2>1, FilledSlot DEF INSN_MAXLEN
<1>3. Types'
  BY <1>1, <1>2 DEF MutInv, Types
<1>4. Len(lines) = 0
  BY <1>1 DEF MutInv, Drawn
<1>5. Sliding0' /\ NoCandidate' /\ Drawn'
  BY <1>1, <1>4 DEF MutInv, Sliding0, NoCandidate, Drawn
<1>. QED  BY <1>2, <1>3, <1>5 DEF MutInv

LEMMA ManualStep == MutInv /\ Manual => MutInv'
<1>. SUFFICES ASSUME MutInv, Manual PROVE MutInv'
  OBVIOUS
<1>1. /\ mutator = "manual" /\ mutator' = mutator /\ ~exhausted
      /\ UNCHANGED <<insn_cand, lines>>
      /\ lineno' = IF lineno = Len(lines) THEN lineno ELSE lineno + 1
  BY DEF Manual, Call
<1>2. /\ lines \in Seq(Nat) /\ lineno \in 0 .. Len(lines) /\ handed \in Seq(Nat)
      /\ lineno = Len(handed) /\ Len(handed) \in Nat /\ Len(lines) \in Nat
  <2>1. lines \in Seq(Nat) /\ lineno \in 0 .. Len(lines) /\ handed \in Seq(Nat)
    BY DEF MutInv, Types
  <2>2. lineno = Len(handed)
    BY <1>1 DEF MutInv, Drawn
  <2>. QED  BY <2>1, <2>2
<1>0. INSN_MAXLEN = 15
  BY DEF INSN_MAXLEN
<1>3. lineno' \in 0 .. Len(lines)
  BY <1>1, <1>2
<1>4. CASE lineno = Len(lines) \/ Malformed(lines[lineno + 1])
  <2>1. exhausted' = TRUE /\ UNCHANGED <<next, slots, written, handed>>
    BY <1>4 DEF Manual, Exhaust
  <2>2. Len(handed) < Len(lines) => lines[Len(handed) + 1] \notin 1 .. 30
    <3>. SUFFICES ASSUME Len(handed) < Len(lines)
                  PROVE  lines[Len(handed) + 1] \notin 1 .. 30
      OBVIOUS
    <3>1. Malformed(lines[Len(handed) + 1])
      BY <1>2, <1>4
    <3>2. lines[Len(handed) + 1] \in Nat
      BY <1>2
    <3>3. \A l \in Nat : l = 0 \/ l > 30 => l \notin 1 .. 30
      OBVIOUS
    <3>4. lines[Len(handed) + 1] = 0 \/ lines[Len(handed) + 1] > 30
      BY <1>0, <3>1 DEF Malformed
    <3>. QED  BY <3>2, <3>3, <3>4
  <2>3. Types'
    BY <1>1, <1>3, <2>1 DEF MutInv, Types
  <2>4. OneCandidate'
    BY <2>1 DEF MutInv, OneCandidate
  <2>5. Sliding0' /\ NoCandidate' /\ Drawn'
    BY <1>1, <2>1, <2>2 DEF MutInv, Sliding0, NoCandidate, Drawn
  <2>. QED  BY <2>3, <2>4, <2>5 DEF MutInv
<1>5. CASE ~(lineno = Len(lines) \/ Malformed(lines[lineno + 1]))
  <2>. DEFINE len == lines[lineno + 1]
              n == len \div 2
  <2>1. Fill(n, n, 0) /\ NextSlot /\ handed' = Append(handed, n)
    BY <1>5 DEF Manual
  <2>2. lineno + 1 \in 1 .. Len(lines) /\ lineno' = lineno + 1
    BY <1>1, <1>2, <1>5
  <2>3. len \in Nat
    BY <1>2, <2>2
  <2>4. len \in 1 .. 30
    <3>1. ~Malformed(len)
      BY <1>5
    <3>. HIDE DEF len
    <3>. QED  BY <1>0, <2>3, <3>1 DEF Malformed
  <2>5. n \in 0 .. INSN_MAXLEN
    <3>. HIDE DEF len
    <3>. QED  BY <2>4 DEF INSN_MAXLEN
  <2>6. slots' \in [Slots -> Slot] /\ OneCandidate' /\ written' \in 0 .. INSN_MAXLEN
    <3>1. n <= n
      BY <2>5 DEF INSN_MAXLEN
    <3>. HIDE DEF n
    <3>. QED  BY <2>1, <2>5, <3>1, FilledSlot
  <2>7. n \in Nat
    BY <2>5 DEF INSN_MAXLEN
  <2>8. handed' \in Seq(Nat) /\ Len(handed') = Len(handed) + 1
    <3>. HIDE DEF n
    <3>. QED  BY <1>2, <2>1, <2>7
  <2>9. Types'
    BY <1>1, <1>3, <2>6, <2>8, <2>1, NextSlotTyped DEF MutInv, Types
  <2>10. handed' = [k \in 1 .. Len(handed') |-> lines[k] \div 2]
    <3>1. handed = [k \in 1 .. Len(handed) |-> lines[k] \div 2]
      BY <1>1 DEF MutInv, Drawn
    <3>2. \A k \in 1 .. Len(handed) + 1 :
            Append(handed, n)[k] = IF k <= Len(handed) THEN handed[k] ELSE n
      BY <1>2, <2>7
    <3>3. \A k \in 1 .. Len(handed) : handed[k] = lines[k] \div 2
      BY <3>1, Zenon
    <3>4. \A k \in 1 .. Len(handed) + 1 : handed'[k] = lines[k] \div 2
      <4>. SUFFICES ASSUME NEW k \in 1 .. Len(handed) + 1 PROVE handed'[k] = lines[k] \div 2
        OBVIOUS
      <4>1. CASE k <= Len(handed)
        <5>1. k \in 1 .. Len(handed)
          BY <4>1, <1>2
        <5>2. handed'[k] = handed[k]
          BY <2>1, <3>2, <4>1
        <5>. QED  BY <5>1, <5>2, <3>3
      <4>2. CASE ~(k <= Len(handed))
        <5>1. k = lineno + 1
          BY <4>2, <1>2
        <5>2. handed'[k] = n
          BY <2>1, <3>2, <4>2
        <5>. QED  BY <5>1, <5>2
      <4>. QED  BY <4>1, <4>2
    <3>5. handed' = [k \in 1 .. Len(handed') |-> handed'[k]]
      BY <2>8
    <3>. QED  BY <3>4, <3>5, <2>8
  <2>11. \A k \in 1 .. Len(handed') : lines[k] \in 1 .. 30
    <3>. SUFFICES ASSUME NEW k \in 1 .. Len(handed) + 1 PROVE lines[k] \in 1 .. 30
      BY <2>8
    <3>1. k \in 1 .. Len(handed) \/ k = lineno + 1
      BY <1>2
    <3>. QED  BY <3>1, <2>4, <1>1 DEF MutInv, Drawn
  <2>12. Drawn'
    BY <1>1, <1>2, <2>2, <2>8, <2>10, <2>11, <2>1, NextSlotTyped DEF Drawn
  <2>13. Sliding0' /\ NoCandidate'
    BY <1>1 DEF MutInv, Sliding0, NoCandidate
  <2>. QED  BY <2>6, <2>9, <2>12, <2>13 DEF MutInv
<1>. QED  BY <1>4, <1>5

-----------------------------------------------------------------------------

LEMMA InitMut == Init => MutInv
<1>. SUFFICES ASSUME Init PROVE MutInv
  OBVIOUS
<1>1. lines \in Seq(Nat) /\ Len(lines) \in Nat
  <2>1. lines = <<>> \/ lines \in Stdin
    BY DEF Init
  <2>2. <<>> \in Seq(Nat)
    OBVIOUS
  <2>3. lines \in Seq(Nat)
    BY <2>1, <2>2, MutatorsAssumption
  <2>. QED  BY <2>3
<1>2. slots \in [Slots -> Slot] /\ \A s \in Slots : slots[s].len = 0
  BY DEF Init, Slot, INSN_MAXLEN
<1>3. next \in Slots
  BY MutatorsAssumption DEF Init, Slots
<1>4. Types
  <2>1. insn_cand \in [off : Nat, len : 0 .. CAND_MAXLEN]
    BY DEF Init, CAND_MAXLEN
  <2>2. lineno \in 0 .. Len(lines) /\ handed \in Seq(Nat)
    BY <1>1 DEF Init
  <2>3. exhausted \in BOOLEAN
    BY DEF Init
  <2>4. written \in 0 .. INSN_MAXLEN
    BY DEF Init, INSN_MAXLEN
  <2>. QED  BY <1>1, <1>2, <1>3, <2>1, <2>2, <2>3, <2>4 DEF Types
<1>5. OneCandidate
  BY <1>2 DEF OneCandidate
<1>6. handed = [k \in 1 .. Len(handed) |-> lines[k] \div 2]
  BY DEF Init
<1>7. Drawn
  BY <1>1, <1>6 DEF Init, Drawn
<1>8. Sliding0 /\ NoCandidate
  BY DEF Init, Sliding0, NoCandidate, SlidesThrough
<1>. QED  BY <1>4, <1>5, <1>7, <1>8 DEF MutInv

LEMMA NextMut == MutInv /\ [Next]_vars => MutInv'
<1>. SUFFICES ASSUME MutInv, [Next]_vars PROVE MutInv'
  OBVIOUS
<1>1. CASE Stopped \/ UNCHANGED vars
  <2>1. UNCHANGED vars
    BY <1>1 DEF Stopped
  <2>2. Types'
    BY <2>1 DEF vars, MutInv, Types
  <2>3. OneCandidate' /\ NoCandidate' /\ Drawn'
    BY <2>1 DEF vars, MutInv, OneCandidate, NoCandidate, Drawn
  <2>4. Sliding0'
    BY <2>1 DEF vars, MutInv, Sliding0, SlidesThrough
  <2>. QED  BY <2>2, <2>3, <2>4 DEF MutInv
<1>. QED
  BY <1>1, SlidingStep, RandomStep, DummyStep, ManualStep DEF Next

\* The invariant of the mutators: windows slid so far, lines read so far.
THEOREM MutatorsInvariant == Spec => []MutInv
<1>. QED  BY InitMut, NextMut, PTL DEF Spec

\* The mutator is chosen once, and slots, lines and counters keep their ranges.
LEMMA MutTyped == MutInv /\ mutator \in Names => TypeOK
<1>. SUFFICES ASSUME MutInv, mutator \in Names PROVE TypeOK
  OBVIOUS
<1>1. insn_cand \in [off : Nat, len : Nat]
  <2>1. insn_cand \in [off : Nat, len : 0 .. CAND_MAXLEN] /\ \A n \in 0 .. CAND_MAXLEN : n \in Nat
    BY DEF MutInv, Types, CAND_MAXLEN
  <2>. QED  BY <2>1
<1>2. slots \in [Slots -> [len : Nat, raw_insn : [Bytes -> Nat \cup {Left}]]]
  <2>1. \A x \in Slot : x \in [len : Nat, raw_insn : [Bytes -> Nat \cup {Left}]]
    BY DEF Slot, INSN_MAXLEN
  <2>. QED  BY <2>1 DEF MutInv, Types
<1>3. written \in Nat
  BY DEF MutInv, Types, INSN_MAXLEN
<1>. QED  BY <1>1, <1>2, <1>3 DEF MutInv, Types, TypeOK

LEMMA SameMutator == [Next]_vars => mutator' = mutator
BY DEF Next, Sliding, Structured, Havoc, Dummy, Manual, Stopped, Call, vars

\* No call writes past a slot or copies a window that leaves the candidate
\* (mutator.c:312, 322, 387), for any mutator and however slots are reused.
THEOREM BuffersHold == Spec => []WithinBuffers
<1>1. MutInv => WithinBuffers
  <2>. SUFFICES ASSUME MutInv PROVE WithinBuffers
    OBVIOUS
  <2>0. INSN_MAXLEN = 15 /\ CAND_MAXLEN = 28
    BY DEF INSN_MAXLEN, CAND_MAXLEN
  <2>4. /\ insn_cand \in [off : Nat, len : 0 .. CAND_MAXLEN]
        /\ slots \in [Slots -> Slot]
        /\ written \in 0 .. INSN_MAXLEN
    BY DEF MutInv, Types
  <2>5. insn_cand.off \in Nat /\ insn_cand.len \in 0 .. 28
    BY <2>0, <2>4
  <2>1. insn_cand.off # 0 => insn_cand.off + INSN_MAXLEN <= insn_cand.len
    <3>. SUFFICES ASSUME insn_cand.off # 0 PROVE insn_cand.off + 15 <= insn_cand.len
      BY <2>0
    <3>1. insn_cand.off <= insn_cand.len - INSN_MAXLEN
      BY DEF MutInv, Sliding0, NoCandidate
    <3>. QED  BY <2>0, <2>5, <3>1
  <2>2. insn_cand.len <= CAND_MAXLEN /\ written <= INSN_MAXLEN
    BY <2>0, <2>4, <2>5
  <2>3. \A s \in Slots : slots[s].len <= INSN_MAXLEN
    <3>. SUFFICES ASSUME NEW s \in Slots PROVE slots[s].len <= INSN_MAXLEN
      OBVIOUS
    <3>1. slots[s] \in Slot
      BY <2>4
    <3>2. slots[s].len \in 0 .. INSN_MAXLEN
      BY <3>1 DEF Slot
    <3>. QED  BY <2>0, <3>2
  <2>. QED  BY <2>1, <2>2, <2>3 DEF WithinBuffers
<1>. QED  BY <1>1, MutatorsInvariant, PTL

\* What a worker decodes are consecutive bytes of one candidate.
THEOREM SlotsHoldOneCandidate == Spec => []OneCandidate
<1>1. MutInv => OneCandidate
  BY DEF MutInv
<1>. QED  BY <1>1, MutatorsInvariant, PTL

\* Every window of a sliding candidate is handed out, once and in order
\* (mutator.c:298-324).
THEOREM EveryWindow == Spec => []SlidesThrough
<1>1. MutInv => SlidesThrough
  BY DEF MutInv, Sliding0, NoCandidate, SlidesThrough
<1>. QED  BY <1>1, MutatorsInvariant, PTL

\* A campaign that ends has drawn the lines before the first malformed one.
THEOREM CampaignEnds == Spec => []CampaignDrawn
<1>1. MutInv => CampaignDrawn
  <2>. SUFFICES ASSUME MutInv, exhausted PROVE CampaignDrawn
    BY DEF CampaignDrawn
  <2>1. Len(handed) \in Nat /\ Len(lines) \in Nat
    BY DEF MutInv, Types
  <2>2. /\ mutator \in {"manual", "dummy"}
        /\ Len(handed) \in 0 .. Len(lines)
        /\ handed = [k \in 1 .. Len(handed) |-> lines[k] \div 2]
        /\ \A k \in 1 .. Len(handed) : lines[k] \in 1 .. 30
        /\ Len(handed) < Len(lines) => lines[Len(handed) + 1] \notin 1 .. 30
    BY <2>1 DEF MutInv, Drawn
  <2>. QED  BY <2>2 DEF CampaignDrawn
<1>. QED  BY <1>1, MutatorsInvariant, PTL

(***************************************************************************)
(* Rng                                                                     *)
(***************************************************************************)
\* A word that is its own shift by 17 bits is zero: bit by bit from below.
LEMMA OwnShift == \A a \in Words : a = Shl(a, 17) => a = Zero
<1>. SUFFICES ASSUME NEW a \in Words, a = Shl(a, 17), NEW b \in a PROVE FALSE
  BY DEF Zero
<1>1. \A c \in a : c \in Bits /\ c - 17 \in a
  BY DEF Shl, Words
<1>2. b - 17 \in a
  BY <1>1
<1>3. b - 17 - 17 \in a
  BY <1>1, <1>2
<1>4. b - 17 - 17 - 17 \in a
  BY <1>1, <1>3
<1>5. b - 17 - 17 - 17 - 17 \in Bits
  BY <1>1, <1>4
<1>. QED  BY <1>1, <1>5 DEF Bits

\* Two words whose xor is zero are the same; rotation loses no bit.
LEMMA XorZero == \A a, b \in Words : Xor(a, b) \in Words /\ (Xor(a, b) = Zero => a = b)
BY DEF Xor, Zero, Words

LEMMA RotlZero == \A a \in Words : Rotl(a, 45) = Zero => a = Zero
<1>. SUFFICES ASSUME NEW a \in Words, NEW c \in a PROVE Rotl(a, 45) # Zero
  BY DEF Zero
<1>. DEFINE b == (c + 45) % 64
<1>1. c \in 0 .. 63
  BY DEF Words, Bits
<1>2. b \in 0 .. 63 /\ (b + 64 - 45) % 64 = c
  BY <1>1
<1>. QED  BY <1>2 DEF Rotl, Bits, Zero

\* The generator never gets stuck: from a state that is not zero it never comes to
\* zero, so the mutators do not end in repeating one candidate unless getrandom
\* left the state of zeros it found (its result is not looked at, line 441).
THEOREM NeverStuck == \A s \in States : s # Stuck => NextState(s) \in States /\ NextState(s) # Stuck
<1>. SUFFICES ASSUME NEW s \in States
              PROVE  NextState(s) \in States /\ (NextState(s) = Stuck => s = Stuck)
  OBVIOUS
<1>. DEFINE t  == Shl(s[1], 17)
            s2 == Xor(s[2], s[0])
            s3 == Xor(s[3], s[1])
            s1 == Xor(s[1], s2)
            s0 == Xor(s[0], s3)
            n  == NextState(s)
<1>1. s[0] \in Words /\ s[1] \in Words /\ s[2] \in Words /\ s[3] \in Words
  BY DEF States
<1>2. t \in Words
  BY DEF Shl, Words
<1>3. s2 \in Words /\ s3 \in Words
  BY <1>1, XorZero
<1>4. s1 \in Words /\ s0 \in Words
  BY <1>1, <1>3, XorZero
<1>5. n[0] = s0 /\ n[1] = s1 /\ n[2] = Xor(s2, t) /\ n[3] = Rotl(s3, 45)
  BY DEF NextState
<1>6. n \in States
  <2>1. Xor(s2, t) \in Words
    BY <1>2, <1>3, XorZero
  <2>2. Rotl(s3, 45) \in Words
    BY DEF Rotl, Words
  <2>. QED  BY <1>4, <2>1, <2>2 DEF NextState, States
<1>7. ASSUME n = Stuck PROVE s = Stuck
  <2>. HIDE DEF n, t, s0, s1, s2, s3
  <2>1. n[0] = Zero /\ n[1] = Zero /\ n[2] = Zero /\ n[3] = Zero
    BY <1>7 DEF Stuck
  <2>2. s3 = Zero
    BY <2>1, <1>5, <1>3, RotlZero
  <2>3. s[3] = s[1]
    BY <2>2, <1>1, XorZero DEF s3
  <2>4. s[0] = Zero
    BY <2>1, <2>2, <1>5, <1>1, XorZero DEF s0, Xor, Zero
  <2>5. s2 = t
    BY <2>1, <1>5, <1>2, <1>3, XorZero
  <2>6. s[1] = s2
    BY <2>1, <1>5, <1>1, <1>3, XorZero DEF s1
  <2>7. s[1] = Zero
    BY <2>5, <2>6, <1>1, OwnShift DEF t
  <2>8. s[2] = Zero
    BY <2>4, <2>6, <2>7, <1>1, XorZero DEF s2, Xor, Zero
  <2>. QED  BY <1>1, <2>3, <2>4, <2>7, <2>8 DEF States, Stuck
<1>. QED  BY <1>6, <1>7

\* And a state of zeros gives zeros for ever.
THEOREM StuckForGood == NextState(Stuck) = Stuck
<1>1. Shl(Zero, 17) = Zero /\ Xor(Zero, Zero) = Zero /\ Rotl(Zero, 45) = Zero
  BY DEF Shl, Xor, Rotl, Zero
<1>2. Stuck[0] = Zero /\ Stuck[1] = Zero /\ Stuck[2] = Zero /\ Stuck[3] = Zero
  BY DEF Stuck
<1>. QED  BY <1>1, <1>2 DEF NextState, Stuck

-----------------------------------------------------------------------------

Flag == BOOLEAN
Size == NDecoded
Room == 0 .. DEC_MAXLEN

Lengths == Nat

OutputSlot ==
  [status : Statuses, ndecoded : Size, len : Lengths, said : Flag, sized : Flag, fresh : Room]

\* A slot as worker() hands it to an adapter.
Blank(o) == o \in OutputSlot /\ o.len = 0 /\ o.ndecoded = 0

\* The length of a text that the adapter's own buffer had no room for.
Overrun(len, name) == name = "bfd" /\ len - 1 \in TextLens

\* The text and the size of a slot are this call's.
NewFields(r, name) ==
  /\ r.len <= DEC_MAXLEN => r.len <= r.fresh
  /\ r.len > DEC_MAXLEN => Overrun(r.len, name)
  /\ r.ndecoded # 0 => r.sized

\* An answer of this call alone.
NewAnswer(r, name) ==
  /\ r \in OutputSlot
  /\ r.status # "S_NONE" /\ r.said
  /\ NewFields(r, name)
  /\ r.status = "S_PARTIAL" => r.len = 0 /\ r.ndecoded = 0
  /\ r.status = "S_FAILURE" /\ name \notin {"bfd", "iced"} => r.len = 0 /\ r.ndecoded = 0

-----------------------------------------------------------------------------
(***************************************************************************)
(* Decoders: ways to answer                                                *)
(***************************************************************************)

LEMMA DecMax == DEC_MAXLEN = 248 /\ INSN_MAXLEN = 15
BY DEF DEC_MAXLEN, INSN_MAXLEN

LEMMA Sets == TRUE \in Flag /\ FALSE \in Flag /\ 0 \in Size /\ 0 \in Room /\ 0 \in Lengths
BY DecMax DEF Flag, Size, NDecoded, Room, Lengths

LEMMA RoomNumbers == \A n \in Room : n \in Lengths /\ n <= n /\ 0 <= n /\ n <= 248
BY DecMax DEF Room, Lengths

\* How much of a text is there.
Kept(len) == IF len < DEC_MAXLEN THEN len ELSE DEC_MAXLEN

LEMMA KeptFits ==
  \A len \in Lengths : Kept(len) \in Room /\ (len <= DEC_MAXLEN => len <= Kept(len))
BY DecMax DEF Kept, Room, Lengths

\* A slot without a text or a size has none of an earlier call.
LEMMA NoFields ==
  ASSUME NEW r \in OutputSlot, r.len = 0, r.ndecoded = 0 \/ r.sized, NEW name
  PROVE  NewFields(r, name)
<1>1. r.fresh \in Room
  BY DEF OutputSlot
<1>2. 0 <= r.fresh /\ ~(0 > DEC_MAXLEN)
  BY <1>1, RoomNumbers, DecMax
<1>. QED  BY <1>2, Zenon DEF NewFields

\* The fields that are not said stay as they were.
LEMMA SaidFields ==
  ASSUME NEW o \in OutputSlot, NEW status \in Statuses
  PROVE  /\ Said(o, status) \in OutputSlot
         /\ Said(o, status).status = status /\ Said(o, status).said
         /\ Said(o, status).len = o.len /\ Said(o, status).ndecoded = o.ndecoded
         /\ Said(o, status).fresh = o.fresh /\ Said(o, status).sized = o.sized
<1>1. Said(o, status) = [o EXCEPT !.status = status, !.said = TRUE]
  BY DEF Said
<1>2. TRUE \in Flag
  BY Sets
<1>. QED  BY <1>1, <1>2 DEF OutputSlot

LEMMA SizedFields ==
  ASSUME NEW o \in OutputSlot, NEW n \in Size
  PROVE  /\ Sized(o, n) \in OutputSlot
         /\ Sized(o, n).ndecoded = n /\ Sized(o, n).sized
         /\ Sized(o, n).len = o.len /\ Sized(o, n).fresh = o.fresh
         /\ Sized(o, n).status = o.status /\ Sized(o, n).said = o.said
<1>1. Sized(o, n) = [o EXCEPT !.ndecoded = n, !.sized = TRUE]
  BY DEF Sized
<1>2. TRUE \in Flag
  BY Sets
<1>. QED  BY <1>1, <1>2 DEF OutputSlot

LEMMA StoredFields ==
  ASSUME NEW o \in OutputSlot, NEW status \in Statuses, NEW t \in Lengths, NEW n \in Size
  PROVE  /\ Stored(o, status, t, n) \in OutputSlot
         /\ Stored(o, status, t, n).status = status /\ Stored(o, status, t, n).said
         /\ Stored(o, status, t, n).len = t /\ Stored(o, status, t, n).fresh = Kept(t)
         /\ Stored(o, status, t, n).ndecoded = n /\ Stored(o, status, t, n).sized
<1>. DEFINE p == Said(o, status)
            q == Sized(p, n)
<1>1. p \in OutputSlot /\ p.status = status /\ p.said
  BY SaidFields
<1>. HIDE DEF p
<1>2. q \in OutputSlot /\ q.status = status /\ q.said /\ q.ndecoded = n /\ q.sized
  BY <1>1, SizedFields
<1>3. Stored(o, status, t, n) = [q EXCEPT !.len = t, !.fresh = Kept(t)]
  BY DEF Stored, Kept, p
<1>4. Kept(t) \in Room
  BY KeptFits
<1>. HIDE DEF q
<1>. QED  BY <1>2, <1>3, <1>4 DEF OutputSlot

LEMMA RejectAnswers ==
  ASSUME NEW o, Blank(o), NEW statuses \in SUBSET {"S_FAILURE", "S_PARTIAL"},
         NEW r \in Reject(o, statuses), NEW name
  PROVE  NewAnswer(r, name)
<1>1. PICK s \in statuses : r = Said(o, s)
  BY DEF Reject
<1>2. s \in {"S_FAILURE", "S_PARTIAL"} /\ s \in Statuses /\ o \in OutputSlot /\ o.len = 0 /\ o.ndecoded = 0
  BY DEF Statuses, Blank
<1>3. r \in OutputSlot /\ r.status = s /\ r.said /\ r.len = 0 /\ r.ndecoded = 0
  BY <1>1, <1>2, SaidFields
<1>4. NewFields(r, name)
  BY <1>3, NoFields
<1>. QED  BY <1>2, <1>3, <1>4 DEF NewAnswer

\* A status that is not of a refusal, with a text and a size.
LEMMA StoredAnswers ==
  ASSUME NEW o, Blank(o), NEW status \in {"S_SUCCESS", "S_FAILURE"},
         NEW t \in Lengths, NEW n \in Size, NEW name,
         t > DEC_MAXLEN => Overrun(t, name),
         status = "S_FAILURE" => name \in {"bfd", "iced"}
  PROVE  NewAnswer(Stored(o, status, t, n), name)
<1>. DEFINE r == Stored(o, status, t, n)
<1>1. status \in Statuses /\ o \in OutputSlot
  BY DEF Statuses, Blank
<1>2. /\ r \in OutputSlot /\ r.status = status /\ r.said
      /\ r.len = t /\ r.fresh = Kept(t) /\ r.sized
  BY <1>1, StoredFields
<1>. HIDE DEF r
<1>3. t <= DEC_MAXLEN => t <= Kept(t)
  BY KeptFits
<1>4. NewFields(r, name)
  BY <1>2, <1>3, Zenon DEF NewFields
<1>. QED  BY <1>2, <1>4 DEF NewAnswer, r

LEMMA AcceptAnswers ==
  ASSUME NEW o, Blank(o), NEW lens \in SUBSET Room, NEW sizes \in SUBSET Size,
         NEW r \in Accept(o, lens, sizes), NEW name
  PROVE  NewAnswer(r, name)
<1>1. PICK t \in lens, n \in sizes : r = Stored(o, "S_SUCCESS", t, n)
  BY DEF Accept
<1>2. t \in Lengths /\ n \in Size
  BY RoomNumbers
<1>3. ~(t > DEC_MAXLEN)
  BY DecMax DEF Room
<1>. QED  BY <1>1, <1>2, <1>3, StoredAnswers

LEMMA CrashedAnswer ==
  ASSUME NEW p \in OutputSlot, NEW name, NewFields(p, name)
  PROVE  NewAnswer(CrashedAt(p), name)
<1>. DEFINE r == CrashedAt(p)
<1>1. "S_CRASH" \in Statuses
  BY DEF Statuses
<1>2. /\ r \in OutputSlot /\ r.status = "S_CRASH" /\ r.said
      /\ r.len = p.len /\ r.fresh = p.fresh /\ r.ndecoded = p.ndecoded /\ r.sized = p.sized
  BY <1>1, SaidFields DEF CrashedAt
<1>. HIDE DEF r
<1>3. NewFields(r, name)
  BY <1>2, Zenon DEF NewFields
<1>. QED  BY <1>2, <1>3 DEF NewAnswer, r

\* Whatever was stored before the crash.
LEMMA CrashAnswers ==
  ASSUME NEW o, Blank(o), NEW name, NEW answers, \A a \in answers : NewAnswer(a, name),
         NEW r \in Crashes(o, answers)
  PROVE  NewAnswer(r, name) /\ r.status = "S_CRASH"
<1>1. o \in OutputSlot /\ o.len = 0 /\ o.ndecoded = 0 /\ NewFields(o, name)
  BY NoFields DEF Blank
<1>2. ASSUME NEW a \in answers, NEW p \in OnTheWay(o, a)
      PROVE  p \in OutputSlot /\ NewFields(p, name)
  <2>1. a \in OutputSlot /\ NewFields(a, name)
    BY <1>2 DEF NewAnswer
  <2>2. CASE p = o
    BY <2>2, <1>1
  <2>3. CASE p = [o EXCEPT !.len = a.len, !.fresh = a.fresh]
    <3>1. /\ p \in OutputSlot /\ p.len = a.len /\ p.fresh = a.fresh
          /\ p.ndecoded = 0
      BY <2>1, <2>3, <1>1 DEF OutputSlot
    <3>. QED  BY <2>1, <3>1, Zenon DEF NewFields
  <2>4. CASE p = [o EXCEPT !.ndecoded = a.ndecoded, !.sized = a.sized]
    <3>1. p \in OutputSlot /\ p.len = 0 /\ p.ndecoded = a.ndecoded /\ p.sized = a.sized
      BY <2>1, <2>4, <1>1 DEF OutputSlot
    <3>2. p.ndecoded = 0 \/ p.sized
      BY <2>1, <3>1, Zenon DEF NewFields
    <3>. QED  BY <3>1, <3>2, NoFields
  <2>5. CASE p = [a EXCEPT !.status = o.status, !.said = o.said]
    <3>1. /\ p \in OutputSlot /\ p.len = a.len /\ p.fresh = a.fresh
          /\ p.ndecoded = a.ndecoded /\ p.sized = a.sized
      BY <2>1, <2>5, <1>1 DEF OutputSlot
    <3>. QED  BY <2>1, <3>1, Zenon DEF NewFields
  <2>. QED  BY <1>2, <2>2, <2>3, <2>4, <2>5 DEF OnTheWay
<1>3. PICK p \in {o} \cup UNION {OnTheWay(o, a) : a \in answers} : r = CrashedAt(p)
  BY DEF Crashes
<1>4. p \in OutputSlot /\ NewFields(p, name)
  BY <1>1, <1>2, <1>3
<1>5. "S_CRASH" \in Statuses
  BY DEF Statuses
<1>6. r.status = "S_CRASH"
  BY <1>3, <1>4, <1>5, SaidFields DEF CrashedAt
<1>. QED  BY <1>3, <1>4, <1>6, CrashedAnswer

-----------------------------------------------------------------------------
(***************************************************************************)
(* Decoders: sizes and texts                                               *)
(***************************************************************************)

\* A size that an input can have is a size that a slot can hold.
LEMMA WithinIsSize ==
  ASSUME NEW length \in 0 .. 15, NEW n \in 1 .. length
  PROVE  n \in Size
<1>1. n \in 0 .. 15
  OBVIOUS
<1>2. \A k \in 0 .. 15 : k \in Size
  BY SMTT(30) DEF Size, NDecoded
<1>. QED  BY <1>1, <1>2, Zenon

LEMMA SizesFit ==
  /\ \A length \in 0 .. 15 : Sizes(length) \in SUBSET Size
  /\ AnySize \in SUBSET Size /\ GhidraSizes \in SUBSET Size
<1>1. \A length \in 0 .. 15 : \A n \in Sizes(length) : n \in Size
  <2>. TAKE length \in 0 .. 15
  <2>. TAKE n \in Sizes(length)
  <2>1. n \in 1 .. length
    BY DEF Sizes
  <2>. QED  BY <2>1, WithinIsSize, Zenon
<1>2. \A n \in AnySize : n \in Size
  BY DecMax DEF AnySize, Size, NDecoded
<1>3. \A n \in GhidraSizes : n \in Size
  BY DEF GhidraSizes, Size, NDecoded
<1>. QED  BY <1>1, <1>2, <1>3

LEMMA TextsFit ==
  /\ Fitting \in SUBSET Room
  /\ CutToFit \in SUBSET Room
  /\ Printed \in SUBSET Room
  /\ {t \in TextLens : IcedFits(t)} \in SUBSET Room
<1>1. \A t \in TextLens : t \in Nat
  BY DecodersAssumption
<1>2. \A t \in Fitting : t \in Room
  BY <1>1, DecMax DEF Fitting, Room
<1>3. \A t \in CutToFit : t \in Room
  BY <1>1, DecMax DEF CutToFit, Room
<1>4. \A t \in Printed : t \in Room
  BY <1>1, DecMax DEF Printed, Room
<1>5. \A t \in TextLens : IcedFits(t) => t \in Room
  BY <1>1, DecMax DEF IcedFits, Room
<1>. QED  BY <1>2, <1>3, <1>4, <1>5

LEMMA BfdAnswers ==
  ASSUME NEW o, Blank(o), NEW length \in 0 .. 15, NEW r \in Bfd(o, length)
  PROVE  NewAnswer(r, "bfd")
<1>1. PICK t \in TextLens, bad \in BOOLEAN, pc \in Sizes(length) \cup {-1, 0} :
        r = Stored(o, IF bad \/ pc = 0 THEN "S_FAILURE" ELSE "S_SUCCESS", t + 1, AsNDecoded(pc))
  BY DEF Bfd
<1>. DEFINE status == IF bad \/ pc = 0 THEN "S_FAILURE" ELSE "S_SUCCESS"
            size == AsNDecoded(pc)
            len == t + 1
<1>2. status \in {"S_SUCCESS", "S_FAILURE"}
  OBVIOUS
<1>3. len \in Lengths /\ Overrun(len, "bfd")
  BY DecodersAssumption DEF Lengths, Overrun
<1>4. size \in Size
  <2>1. pc \in Int
    BY DEF Sizes
  <2>. QED  BY <2>1, SMTT(30) DEF AsNDecoded, Size, NDecoded
<1>5. r = Stored(o, status, len, size)
  BY <1>1
<1>. HIDE DEF status, size, len
<1>. QED  BY <1>2, <1>3, <1>4, <1>5, StoredAnswers

LEMMA IcedAnswers ==
  ASSUME NEW o, Blank(o), NEW length \in 0 .. 15, NEW r \in Iced(o, length)
  PROVE  NewAnswer(r, "iced")
<1>1. CASE r \in Reject(o, {"S_FAILURE", "S_PARTIAL"})
  BY <1>1, RejectAnswers
<1>2. CASE r \in Accept(o, {t \in TextLens : IcedFits(t)}, Sizes(length))
  <2>. DEFINE fits == {t \in TextLens : IcedFits(t)}
  <2>1. fits \in SUBSET Room /\ Sizes(length) \in SUBSET Size
    BY SizesFit, TextsFit
  <2>. HIDE DEF fits
  <2>2. r \in Accept(o, fits, Sizes(length))
    BY <1>2 DEF fits
  <2>. QED  BY <2>1, <2>2, AcceptAnswers
<1>3. CASE \E n \in Sizes(length) : r = Said(Sized(o, n), "S_FAILURE")
  <2>1. PICK n \in Sizes(length) : r = Said(Sized(o, n), "S_FAILURE")
    BY <1>3
  <2>. DEFINE p == Sized(o, n)
  <2>2. n \in Size /\ o \in OutputSlot /\ o.len = 0
    BY SizesFit DEF Blank
  <2>3. p \in OutputSlot /\ p.len = 0 /\ p.sized
    BY <2>2, SizedFields
  <2>4. "S_FAILURE" \in Statuses
    BY DEF Statuses
  <2>. HIDE DEF p
  <2>5. r \in OutputSlot /\ r.status = "S_FAILURE" /\ r.said /\ r.len = 0 /\ r.sized
    BY <2>1, <2>3, <2>4, SaidFields DEF p
  <2>6. NewFields(r, "iced")
    BY <2>5, NoFields
  <2>. QED  BY <2>5, <2>6 DEF NewAnswer
<1>. QED  BY <1>1, <1>2, <1>3 DEF Iced

LEMMA YaxpeaxAnswers ==
  ASSUME NEW o, Blank(o), NEW length \in 0 .. 15, NEW r \in Yaxpeax(o, length)
  PROVE  NewAnswer(r, "yaxpeax-x86")
<1>1. CASE r \in Reject(o, {"S_FAILURE", "S_PARTIAL"})
  BY <1>1, RejectAnswers
<1>2. CASE r \in Accept(o, Fitting, Sizes(length))
  <2>1. Fitting \in SUBSET Room /\ Sizes(length) \in SUBSET Size
    BY SizesFit, TextsFit
  <2>. QED  BY <1>2, <2>1, AcceptAnswers
<1>3. CASE \E n \in Sizes(length) : r = CrashedAt(Sized(o, n))
  <2>1. PICK n \in Sizes(length) : r = CrashedAt(Sized(o, n))
    BY <1>3
  <2>2. n \in Size /\ o \in OutputSlot /\ o.len = 0
    BY SizesFit DEF Blank
  <2>3. Sized(o, n) \in OutputSlot /\ Sized(o, n).len = 0 /\ Sized(o, n).sized
    BY <2>2, SizedFields
  <2>4. NewFields(Sized(o, n), "yaxpeax-x86")
    BY <2>3, NoFields
  <2>. QED  BY <2>1, <2>3, <2>4, CrashedAnswer
<1>. QED  BY <1>1, <1>2, <1>3 DEF Yaxpeax

\* The adapters that accept or reject, and nothing else.
LEMMA PlainAnswers ==
  ASSUME NEW o, Blank(o), NEW length \in 0 .. 15, NEW name, NEW r,
         \E statuses \in {{"S_FAILURE"}, {"S_FAILURE", "S_PARTIAL"}},
            lens \in {Fitting, CutToFit, Printed},
            sizes \in {Sizes(length), AnySize, GhidraSizes} :
           r \in Reject(o, statuses) \cup Accept(o, lens, sizes)
  PROVE  NewAnswer(r, name)
<1>1. PICK statuses \in {{"S_FAILURE"}, {"S_FAILURE", "S_PARTIAL"}},
            lens \in {Fitting, CutToFit, Printed},
            sizes \in {Sizes(length), AnySize, GhidraSizes} :
           r \in Reject(o, statuses) \cup Accept(o, lens, sizes)
  OBVIOUS
<1>2. statuses \in SUBSET {"S_FAILURE", "S_PARTIAL"}
  OBVIOUS
<1>3. lens \in SUBSET Room /\ sizes \in SUBSET Size
  BY TextsFit, SizesFit
<1>. QED  BY <1>1, <1>2, <1>3, RejectAnswers, AcceptAnswers

\* Whatever path through whatever adapter.
LEMMA EveryAdapterAnswers ==
  ASSUME NEW o, Blank(o), NEW length \in 0 .. 15, NEW name \in Adapters,
         NEW r \in TryDecode(name, o, length) \cup Crashes(o, TryDecode(name, o, length))
  PROVE  NewAnswer(r, name)
<1>. DEFINE answers == TryDecode(name, o, length)
<1>1. ASSUME NEW a \in answers PROVE NewAnswer(a, name)
  <2>0. name \in {"bddisasm", "bfd", "capstone", "dynamorio", "fadec", "ghidra",
                  "iced", "llvm", "xed", "yaxpeax-x86", "zydis"}
    BY DecodersAssumption
  <2>1. CASE name = "bfd"
    BY <1>1, <2>1, BfdAnswers DEF TryDecode
  <2>2. CASE name = "iced"
    BY <1>1, <2>2, IcedAnswers DEF TryDecode
  <2>3. CASE name = "yaxpeax-x86"
    BY <1>1, <2>3, YaxpeaxAnswers DEF TryDecode
  <2>4. CASE name = "bddisasm"
    BY <1>1, <2>4, PlainAnswers DEF TryDecode, Bddisasm
  <2>5. CASE name = "capstone"
    BY <1>1, <2>5, PlainAnswers DEF TryDecode, Capstone
  <2>6. CASE name = "dynamorio"
    BY <1>1, <2>6, PlainAnswers DEF TryDecode, Dynamorio
  <2>7. CASE name = "fadec"
    BY <1>1, <2>7, PlainAnswers DEF TryDecode, Fadec
  <2>8. CASE name = "ghidra"
    BY <1>1, <2>8, PlainAnswers DEF TryDecode, Ghidra
  <2>9. CASE name = "llvm"
    BY <1>1, <2>9, PlainAnswers DEF TryDecode, Llvm
  <2>10. CASE name = "xed"
    BY <1>1, <2>10, PlainAnswers DEF TryDecode, Xed
  <2>11. CASE name = "zydis"
    BY <1>1, <2>11, PlainAnswers DEF TryDecode, Zydis
  <2>. QED
    BY <2>0, <2>1, <2>2, <2>3, <2>4, <2>5, <2>6, <2>7, <2>8, <2>9, <2>10, <2>11
<1>. HIDE DEF answers
<1>2. CASE r \in Crashes(o, answers)
  BY <1>1, <1>2, CrashAnswers
<1>. QED  BY <1>1, <1>2 DEF answers

-----------------------------------------------------------------------------
(***************************************************************************)
(* Decoders: the invariant                                                 *)
(***************************************************************************)

DecInv ==
  /\ MutInv
  /\ adapter \in Adapters /\ taken \in BOOLEAN
  /\ output \in OutputSlot
  /\ Decoded => NewAnswer(output, adapter)
  /\ output.len > DEC_MAXLEN => Overrun(output.len, adapter)

LEMMA InitDec == DecodersInit => DecInv
<1>. SUFFICES ASSUME DecodersInit PROVE DecInv
  OBVIOUS
<1>1. MutInv
  BY InitMut DEF DecodersInit
<1>2. output \in OutputSlot
  <2>1. output = [status |-> "S_NONE", ndecoded |-> 0, len |-> 0,
                said |-> FALSE, sized |-> FALSE, fresh |-> 0]
    BY DEF DecodersInit
  <2>2. FALSE \in Flag /\ 0 \in Size /\ 0 \in Room /\ 0 \in Lengths /\ "S_NONE" \in Statuses
    BY Sets DEF Flag, Statuses
  <2>. QED  BY <2>1, <2>2 DEF OutputSlot
<1>3. output.len = 0 /\ ~(0 > DEC_MAXLEN)
  BY DecMax DEF DecodersInit
<1>. QED  BY <1>1, <1>2, <1>3, Zenon DEF DecodersInit, DecInv, Decoded

LEMMA FillDec == DecInv /\ FillSlot => DecInv'
<1>. SUFFICES ASSUME DecInv, FillSlot PROVE DecInv'
  OBVIOUS
<1>1. Next /\ ~taken /\ taken' = ~exhausted' /\ adapter' = adapter /\ output' = output
  BY DEF FillSlot
<1>2. MutInv'
  BY <1>1, NextMut DEF DecInv
<1>3. Decoded' => Decoded
  BY <1>1 DEF Decoded
<1>4. taken' \in BOOLEAN
  BY <1>1
<1>. QED  BY <1>1, <1>2, <1>3, <1>4 DEF DecInv

\* What worker() hands to an adapter, and the length of the input.
LEMMA ClearedIsBlank == DecInv => Blank(Cleared(output))
<1>. SUFFICES ASSUME DecInv PROVE Blank(Cleared(output))
  OBVIOUS
<1>. DEFINE o == Cleared(output)
<1>1. output \in OutputSlot
  BY DEF DecInv
<1>2. FALSE \in Flag /\ 0 \in Size /\ 0 \in Room /\ 0 \in Lengths
  BY Sets DEF Flag
<1>3. o = [output EXCEPT !.len = 0, !.ndecoded = 0, !.said = FALSE, !.sized = FALSE, !.fresh = 0]
  BY DEF Cleared
<1>. HIDE DEF o
<1>4. o \in OutputSlot
  BY <1>1, <1>2, <1>3 DEF OutputSlot
<1>5. o.len = 0 /\ o.ndecoded = 0
  BY <1>1, <1>3 DEF OutputSlot
<1>6. Blank(o)
  BY <1>4, <1>5 DEF Blank
<1>. QED  BY <1>6 DEF o

LEMMA LengthFits == DecInv => slots[(next + NSlots - 1) % NSlots].len \in 0 .. 15
<1>. SUFFICES ASSUME DecInv PROVE slots[(next + NSlots - 1) % NSlots].len \in 0 .. 15
  OBVIOUS
<1>. DEFINE s == (next + NSlots - 1) % NSlots
<1>1. s \in Slots
  <2>1. NSlots \in Nat \ {0} /\ next \in 0 .. NSlots - 1
    BY MutatorsAssumption DEF DecInv, MutInv, Types, Slots
  <2>. QED  BY <2>1 DEF Slots
<1>2. slots \in [Slots -> Slot]
  BY DEF DecInv, MutInv, Types
<1>. HIDE DEF s
<1>3. slots[s] \in Slot
  BY <1>1, <1>2
<1>4. slots[s].len \in 0 .. 15
  BY <1>3, DecMax DEF Slot
<1>. QED  BY <1>4 DEF s

LEMMA DecodeDec == DecInv /\ DecodeSlot => DecInv'
<1>. SUFFICES ASSUME DecInv, DecodeSlot PROVE DecInv'
  OBVIOUS
<1>. DEFINE o == Cleared(output)
            length == slots[(next + NSlots - 1) % NSlots].len
<1>1. /\ output' \in TryDecode(adapter, o, length) \cup Crashes(o, TryDecode(adapter, o, length))
      /\ taken' = FALSE /\ adapter' = adapter /\ UNCHANGED vars
  BY DEF DecodeSlot
<1>2. Blank(o) /\ length \in 0 .. 15
  BY ClearedIsBlank, LengthFits
<1>. HIDE DEF o, length
<1>3. NewAnswer(output', adapter)
  BY <1>1, <1>2, EveryAdapterAnswers DEF DecInv
<1>4. output' \in OutputSlot /\ (output'.len > DEC_MAXLEN => Overrun(output'.len, adapter))
  BY <1>3, Zenon DEF NewAnswer, NewFields
<1>5. MutInv'
  BY <1>1, NextMut DEF DecInv
<1>. QED  BY <1>1, <1>3, <1>4, <1>5 DEF DecInv

LEMMA NextDec == DecInv /\ [DecodersNext]_decoding => DecInv'
<1>. SUFFICES ASSUME DecInv, UNCHANGED decoding PROVE DecInv'
  BY FillDec, DecodeDec DEF DecodersNext
<1>1. UNCHANGED vars /\ adapter' = adapter /\ output' = output /\ taken' = taken
  BY DEF decoding
<1>2. MutInv'
  BY <1>1, NextMut DEF DecInv
<1>. QED  BY <1>1, <1>2 DEF DecInv, Decoded

\* The invariant of one worker over reused slots: what it holds after a decode
\* is an answer of that decode.
THEOREM DecodersInvariant == DecodersSpec => []DecInv
<1>. QED  BY InitDec, NextDec, PTL DEF DecodersSpec

\* Every variable keeps its range, the size of 16 bits among them.
THEOREM DecodersTyped == DecodersSpec => []DecodersTypeOK
<1>1. DecodersInit => mutator \in Names
  BY DEF DecodersInit, Init
<1>2. [DecodersNext]_decoding => mutator' = mutator
  <2>1. [DecodersNext]_decoding => [Next]_vars
    BY DEF DecodersNext, FillSlot, DecodeSlot, decoding
  <2>. QED  BY <2>1, SameMutator
<1>3. mutator \in Names /\ mutator' = mutator => (mutator \in Names)'
  OBVIOUS
<1>4. DecInv /\ mutator \in Names => DecodersTypeOK
  <2>. SUFFICES ASSUME DecInv, mutator \in Names PROVE DecodersTypeOK
    OBVIOUS
  <2>2. output \in [status : Statuses, ndecoded : NDecoded, len : Nat,
                   said : BOOLEAN, sized : BOOLEAN, fresh : 0 .. DEC_MAXLEN]
    BY Zenon DEF DecInv, OutputSlot, Size, Flag, Lengths, Room
  <2>3. TypeOK
    BY MutTyped DEF DecInv
  <2>4. adapter \in Adapters /\ taken \in BOOLEAN
    BY DEF DecInv
  <2>. QED  BY <2>2, <2>3, <2>4, Zenon DEF DecodersTypeOK
<1>. QED  BY <1>1, <1>2, <1>3, <1>4, DecodersInvariant, PTL DEF DecodersSpec

\* Every path through every adapter, and a crash anywhere, leaves a status, a
\* text and a size of this input alone (mishegos.c:172, src/worker).
THEOREM AnswersAreNew == DecodersSpec => []NothingOld
<1>1. DecInv => NothingOld
  <2>. SUFFICES ASSUME DecInv, Decoded PROVE NothingOld
    BY DEF NothingOld
  <2>. QED  BY Zenon DEF DecInv, NewAnswer, NewFields, NothingOld
<1>. QED  BY <1>1, DecodersInvariant, PTL

\* process() writes no more than the slot has (mishegos.c:247), unless it is of bfd
\* and libopcodes printed more than bfd's buffer holds.
THEOREM TextsStayInSlot == DecodersSpec => []TextFits
<1>1. DecInv => TextFits
  BY Zenon DEF DecInv, Overrun, TextFits
<1>. QED  BY <1>1, DecodersInvariant, PTL

(***************************************************************************)
(* The ghidra worker                                                       *)
(*                                                                         *)
(* The walker of Sleigh and the recursion of Disassembling are compared    *)
(* through a stack of questions: each constructor that was begun and not   *)
(* finished asks for the rest of itself, given the ends of the operands it *)
(* has.  A stack is answered if the answer to a constructor is what the    *)
(* one below it needs to go on (Answered); the walker's tree and path show *)
(* such a stack (View), and every step of it leaves the answer of the      *)
(* whole instruction as it was (EngineInv).                                *)
(***************************************************************************)


\* A set of numbers has a least one.
LEMMA LeastNatural ==
  ASSUME NEW T, T \subseteq Nat, T # {}
  PROVE  \E x \in T : \A y \in T : x <= y
<1>. DEFINE R == OpToRel(<, Nat)
<1>1. \E x \in T : \A y \in T : <<y, x>> \notin R
  BY WFMin, NatLessThanWellFounded
<1>2. \A x, y \in Nat : x < y => <<x, y>> \in R
  BY DEF OpToRel
<1>. HIDE DEF R
<1>3. PICK x \in T : \A y \in T : <<y, x>> \notin R
  BY <1>1
<1>4. \A y \in T : ~(y < x) /\ y \in Nat /\ x \in Nat
  BY <1>2, <1>3
<1>. QED  BY <1>4

\* A set of numbers with 0 and the successor of each is all of them.
LEMMA Induction ==
  ASSUME NEW T, T \subseteq Nat, 0 \in T, \A n \in T : n + 1 \in T
  PROVE  T = Nat
<1>. SUFFICES ASSUME Nat \ T # {} PROVE FALSE
  OBVIOUS
<1>1. PICK n \in Nat \ T : \A k \in Nat \ T : n <= k
  BY LeastNatural
<1>2. n # 0 /\ n - 1 \in Nat /\ n - 1 \in T
  BY <1>1
<1>. QED  BY <1>2

(***************************************************************************)
(* GhidraWorker: what disassembling means                                  *)
(***************************************************************************)

Answers == [verdict : {"ok", "refused", "unknown"}, context : Contexts, end : Nat]

\* One of finitely many ends is the last.
LEMMA LatestIs ==
  ASSUME NEW x \in Nat, NEW ends \in Seq(Nat)
  PROVE  LET S == {x} \cup {ends[k] : k \in DOMAIN ends}
         IN  Latest(S) \in S /\ (\A e \in S : e <= Latest(S)) /\ Latest(S) \in Nat /\ x <= Latest(S)
<1>. DEFINE S(n) == {x} \cup {ends[k] : k \in 1 .. n}
            Top(n) == \E e \in S(n) : \A f \in S(n) : f <= e
            T == {n \in Nat : n <= Len(ends) => Top(n)}
<1>1. Len(ends) \in Nat /\ DOMAIN ends = 1 .. Len(ends) /\ \A k \in 1 .. Len(ends) : ends[k] \in Nat
  BY LenProperties, ElementOfSeq
<1>2. 0 \in T
  <2>1. x \in S(0) /\ \A f \in S(0) : f <= x
    OBVIOUS
  <2>. QED  BY <2>1
<1>3. ASSUME NEW n \in T PROVE n + 1 \in T
  <2>. SUFFICES ASSUME n + 1 <= Len(ends) PROVE Top(n + 1)
    BY <1>3
  <2>1. n \in Nat /\ n + 1 \in 1 .. Len(ends) /\ ends[n + 1] \in Nat
    BY <1>1, <1>3
  <2>2. PICK e \in S(n) : \A f \in S(n) : f <= e
    BY <1>1, <2>1
  <2>3. e \in Nat /\ \A f \in S(n) : f \in Nat
    BY <1>1, <2>1
  <2>4. S(n + 1) = S(n) \cup {ends[n + 1]}
    <3>1. 1 .. n + 1 = (1 .. n) \cup {n + 1}
      BY <2>1
    <3>. QED  BY <3>1
  <2>. HIDE DEF S
  <2>5. CASE ends[n + 1] <= e
    BY <2>2, <2>4, <2>5
  <2>6. CASE ~(ends[n + 1] <= e)
    <3>1. \A f \in S(n + 1) : f <= ends[n + 1]
      BY <2>1, <2>2, <2>3, <2>4, <2>6
    <3>. QED  BY <2>4, <3>1
  <2>. QED  BY <2>5, <2>6
<1>4. T \subseteq Nat
  OBVIOUS
<1>. HIDE DEF T
<1>5. T = Nat
  BY <1>2, <1>3, <1>4, Induction
<1>6. Top(Len(ends))
  <2>. HIDE DEF Top
  <2>. QED  BY <1>1, <1>5 DEF T
<1>7. Latest(S(Len(ends))) \in S(Len(ends)) /\ \A f \in S(Len(ends)) : f <= Latest(S(Len(ends)))
  <2>. DEFINE U == S(Len(ends))
  <2>1. \E e \in U : \A f \in U : f <= e
    BY <1>6
  <2>. HIDE DEF U
  <2>2. Latest(U) = CHOOSE e \in U : \A f \in U : f <= e
    BY DEF Latest
  <2>. QED  BY <2>1, <2>2 DEF U
<1>8. \A f \in S(Len(ends)) : f \in Nat
  BY <1>1
<1>9. S(Len(ends)) = {x} \cup {ends[k] : k \in DOMAIN ends} /\ x \in S(Len(ends))
  BY <1>1
<1>. HIDE DEF S
<1>. QED  BY <1>7, <1>8, <1>9

LEMMA AnswerTypes ==
  /\ Refused \in Answers /\ Unknown \in Answers
  /\ Refused.verdict = "refused" /\ Unknown.verdict = "unknown"
  /\ \A context \in Contexts, end \in Nat :
       /\ Answer("ok", context, end) \in Answers
       /\ Answer("ok", context, end).verdict = "ok" /\ Answer("ok", context, end).end = end
       /\ Answer("ok", context, end).context = context
BY SleighAssumption DEF Answers, Answer, Refused, Unknown

\* The recursive function exists.
LEMMA DisassemblingIs ==
  ASSUME NEW bytes
  PROVE  Disassembling(bytes) =
           [n \in 0 .. Calls |->
              IF n = 0 THEN [part |-> [q \in PartQuestions |-> Unknown],
                             rest |-> [q \in RestQuestions |-> Unknown]]
              ELSE [part |-> PartFrom(bytes, Disassembling(bytes)[n - 1]),
                    rest |-> RestFrom(Disassembling(bytes)[n - 1])]]
<1>. DEFINE first == [part |-> [q \in PartQuestions |-> Unknown],
                      rest |-> [q \in RestQuestions |-> Unknown]]
            more(g) == [part |-> PartFrom(bytes, g), rest |-> RestFrom(g)]
            Upto(g, k) == g = [n \in 0 .. k |-> IF n = 0 THEN first ELSE more(g[n - 1])]
            T == {k \in Nat : \E g : Upto(g, k)}
<1>. HIDE DEF first, more
<1>1. 0 \in T
  <2>1. Upto([n \in 0 .. 0 |-> first], 0)
    OBVIOUS
  <2>. QED  BY <2>1
<1>2. ASSUME NEW k \in T PROVE k + 1 \in T
  <2>1. PICK g : Upto(g, k)
    BY <1>2
  <2>. DEFINE h == [n \in 0 .. k + 1 |-> IF n <= k THEN g[n] ELSE more(g[k])]
  <2>2. k \in Nat
    BY <1>2
  <2>3. ASSUME NEW n \in 0 .. k + 1
        PROVE  h[n] = IF n = 0 THEN first ELSE more(h[n - 1])
    <3>1. CASE n = k + 1
      <4>1. n # 0 /\ n - 1 = k /\ h[n - 1] = g[k] /\ ~(n <= k)
        BY <2>2, <3>1
      <4>. QED  BY <3>1, <4>1
    <3>2. CASE n # k + 1
      <4>1. n \in 0 .. k /\ n <= k /\ h[n] = g[n]
        BY <2>2, <3>2
      <4>2. n # 0 => n - 1 \in 0 .. k /\ n - 1 <= k /\ h[n - 1] = g[n - 1]
        BY <2>2, <4>1
      <4>3. g[n] = IF n = 0 THEN first ELSE more(g[n - 1])
        BY <2>1, <4>1
      <4>. QED  BY <4>1, <4>2, <4>3
    <3>. QED  BY <3>1, <3>2
  <2>4. DOMAIN h = 0 .. k + 1 /\ h = [n \in 0 .. k + 1 |-> h[n]]
    OBVIOUS
  <2>. HIDE DEF h
  <2>5. Upto(h, k + 1)
    BY <2>3, <2>4
  <2>. QED  BY <2>2, <2>5
<1>. HIDE DEF Upto
<1>3. \E g : Upto(g, Calls)
  <2>1. T \subseteq Nat
    OBVIOUS
  <2>. HIDE DEF T
  <2>2. T = Nat
    BY <1>1, <1>2, <2>1, Induction
  <2>3. Calls \in T
    BY <2>2, GhidraAssumption
  <2>. QED  BY <2>3 DEF T
<1>4. Upto(CHOOSE g : Upto(g, Calls), Calls)
  BY <1>3, Zenon
<1>5. Disassembling(bytes) = CHOOSE g : Upto(g, Calls)
  BY Zenon DEF Disassembling, Upto, first, more
<1>6. Upto(Disassembling(bytes), Calls)
  BY <1>4, <1>5, Zenon
<1>. QED  BY <1>6, Zenon DEF Upto, first, more

LEMMA DisassemblingStep ==
  ASSUME NEW bytes, NEW n \in 0 .. Calls
  PROVE  Disassembling(bytes)[n] =
           IF n = 0 THEN [part |-> [q \in PartQuestions |-> Unknown],
                          rest |-> [q \in RestQuestions |-> Unknown]]
           ELSE [part |-> PartFrom(bytes, Disassembling(bytes)[n - 1]),
                 rest |-> RestFrom(Disassembling(bytes)[n - 1])]
<1>. DEFINE D == Disassembling(bytes)
            first == [part |-> [q \in PartQuestions |-> Unknown],
                      rest |-> [q \in RestQuestions |-> Unknown]]
            more(g) == [part |-> PartFrom(bytes, g), rest |-> RestFrom(g)]
<1>1. D = [k \in 0 .. Calls |-> IF k = 0 THEN first ELSE more(D[k - 1])]
  BY DisassemblingIs
<1>. HIDE DEF D, first, more
<1>2. D[n] = IF n = 0 THEN first ELSE more(D[n - 1])
  BY <1>1
<1>. QED  BY <1>2 DEF D, first, more

Knowledge == [part : [PartQuestions -> Answers], rest : [RestQuestions -> Answers]]

LEMMA Matching ==
  ASSUME NEW table \in Tables, NEW bytes \in Memory, NEW off \in Nat, NEW context \in Contexts
  PROVE  LET ct == Resolved(table, bytes, off, context) IN
         /\ ct \in Constructors \cup {NoMatch}
         /\ ct # NoMatch => ct \in Constructors /\ off \in Offsets /\ SetsContext[ct][context] \in Contexts
<1>1. CASE off < BufLen
  <2>1. off \in Offsets /\ bytes[off] \in Values
    BY <1>1, SleighAssumption DEF Memory, Offsets
  <2>2. <<table, bytes[off], context>> \in Tables \X Values \X Contexts
    BY <2>1
  <2>3. Matches[<<table, bytes[off], context>>] \in Constructors \cup {NoMatch}
    BY <2>2, SleighAssumption
  <2>. QED  BY <1>1, <2>1, <2>3, SleighAssumption DEF Resolved
<1>2. CASE ~(off < BufLen)
  BY <1>2 DEF Resolved
<1>. QED  BY <1>1, <1>2

\* An operand of a constructor.
LEMMA OperandTypes ==
  ASSUME NEW ct \in Constructors
  PROVE  /\ Len(Operands[ct]) \in Nat /\ MinLength[ct] \in Nat
         /\ \A k \in 1 .. Len(Operands[ct]) :
              LET sym == Operands[ct][k] IN
              /\ sym.table \in Tables \cup {Leaf} /\ sym.base \in Nat /\ sym.rel \in Nat
              /\ sym.len \in Nat /\ sym.base < k /\ k \in DOMAIN Operands[ct]
<1>1. Operands[ct] \in Seq(OperandSymbols) /\ MinLength[ct] \in Nat
  BY SleighAssumption
<1>2. Len(Operands[ct]) \in Nat /\ DOMAIN Operands[ct] = 1 .. Len(Operands[ct])
      /\ \A k \in 1 .. Len(Operands[ct]) : Operands[ct][k] \in OperandSymbols
  BY <1>1, LenProperties, ElementOfSeq
<1>3. \A k \in DOMAIN Operands[ct] : Operands[ct][k].base < k
  BY SleighAssumption
<1>. QED  BY <1>1, <1>2, <1>3 DEF OperandSymbols

\* The next operand, when the first ones end where they do.
LEMMA NextOperand ==
  ASSUME NEW q \in RestQuestions, Len(q.ends) < Len(Operands[q.ct])
  PROVE  LET sym == Operands[q.ct][Len(q.ends) + 1]
             at  == sym.rel + (IF sym.base = 0 THEN q.off ELSE q.ends[sym.base])
         IN  /\ sym.table \in Tables \cup {Leaf} /\ sym.len \in Nat /\ sym.rel \in Nat /\ sym.base \in Nat
             /\ sym.base # 0 => sym.base \in 1 .. Len(q.ends) /\ q.ends[sym.base] \in Nat
             /\ at \in Nat
             /\ q.ct \in Constructors /\ q.off \in Nat /\ q.ends \in Seq(Nat) /\ q.context \in Contexts
             /\ Len(q.ends) \in Nat
<1>1. q.ct \in Constructors /\ q.off \in Nat /\ q.ends \in Seq(Nat) /\ q.context \in Contexts
  BY DEF RestQuestions
<1>2. Len(q.ends) \in Nat /\ \A k \in 1 .. Len(q.ends) : q.ends[k] \in Nat
  BY <1>1, LenProperties, ElementOfSeq
<1>. DEFINE k == Len(q.ends) + 1
            sym == Operands[q.ct][k]
<1>3. k \in 1 .. Len(Operands[q.ct])
  BY <1>1, <1>2, OperandTypes
<1>4. sym.table \in Tables \cup {Leaf} /\ sym.base \in Nat /\ sym.rel \in Nat /\ sym.len \in Nat
      /\ sym.base < k
  BY <1>1, <1>3, OperandTypes
<1>. HIDE DEF sym
<1>5. sym.base # 0 => sym.base \in 1 .. Len(q.ends) /\ q.ends[sym.base] \in Nat
  BY <1>2, <1>4
<1>6. sym.rel + (IF sym.base = 0 THEN q.off ELSE q.ends[sym.base]) \in Nat
  <2>1. CASE sym.base = 0
    BY <1>1, <1>4, <2>1
  <2>2. CASE sym.base # 0
    BY <1>4, <1>5, <2>2
  <2>. QED  BY <2>1, <2>2
<1>. QED  BY <1>1, <1>2, <1>4, <1>5, <1>6 DEF sym

LEMMA PartFromType ==
  ASSUME NEW bytes \in Memory, NEW known \in Knowledge
  PROVE  PartFrom(bytes, known) \in [PartQuestions -> Answers]
<1>. DEFINE f(q) == LET ct == Resolved(q.table, bytes, q.off, q.context) IN
                    IF ct = NoMatch THEN Refused
                    ELSE known.rest[[ct |-> ct, off |-> q.off, ends |-> <<>>,
                                     context |-> SetsContext[ct][q.context]]]
<1>1. ASSUME NEW q \in PartQuestions PROVE f(q) \in Answers
  <2>. DEFINE ct == Resolved(q.table, bytes, q.off, q.context)
              r == [ct |-> ct, off |-> q.off, ends |-> <<>>, context |-> SetsContext[ct][q.context]]
  <2>1. q.table \in Tables /\ q.off \in Nat /\ q.context \in Contexts
    BY DEF PartQuestions
  <2>2. ct # NoMatch => ct \in Constructors /\ SetsContext[ct][q.context] \in Contexts
    BY <2>1, Matching
  <2>. HIDE DEF ct
  <2>3. ct # NoMatch => r \in RestQuestions
    BY <2>1, <2>2, EmptySeq DEF RestQuestions
  <2>. HIDE DEF r
  <2>4. ct # NoMatch => known.rest[r] \in Answers
    BY <2>3 DEF Knowledge
  <2>5. f(q) = IF ct = NoMatch THEN Refused ELSE known.rest[r]
    BY DEF ct, r
  <2>. HIDE DEF f
  <2>. QED  BY <2>4, <2>5, AnswerTypes
<1>2. PartFrom(bytes, known) = [q \in PartQuestions |-> f(q)]
  BY DEF PartFrom
<1>. HIDE DEF f
<1>. QED  BY <1>1, <1>2

LEMMA RestFromType ==
  ASSUME NEW known \in Knowledge
  PROVE  RestFrom(known) \in [RestQuestions -> Answers]
<1>. DEFINE sym(q)  == Operands[q.ct][Len(q.ends) + 1]
            at(q)   == sym(q).rel + (IF sym(q).base = 0 THEN q.off ELSE q.ends[sym(q).base])
            part(q) == IF sym(q).table # Leaf
                       THEN known.part[[table |-> sym(q).table, off |-> at(q), context |-> q.context]]
                       ELSE IF sym(q).len = 0 \/ at(q) < BufLen
                            THEN Answer("ok", q.context, at(q) + sym(q).len)
                       ELSE Refused
            next1(q) == [q EXCEPT !.ends = Append(@, part(q).end), !.context = part(q).context]
            f(q) == IF Len(q.ends) >= Len(Operands[q.ct])
                    THEN Answer("ok", q.context,
                           Latest({q.off + MinLength[q.ct]} \cup {q.ends[k] : k \in DOMAIN q.ends}))
                    ELSE IF part(q).verdict # "ok" THEN part(q) ELSE known.rest[next1(q)]
<1>1. ASSUME NEW q \in RestQuestions PROVE f(q) \in Answers
  <2>1. q.ct \in Constructors /\ q.off \in Nat /\ q.ends \in Seq(Nat) /\ q.context \in Contexts
        /\ Len(q.ends) \in Nat /\ Len(Operands[q.ct]) \in Nat /\ MinLength[q.ct] \in Nat
    BY OperandTypes, LenProperties DEF RestQuestions
  <2>2. CASE Len(q.ends) >= Len(Operands[q.ct])
    <3>. DEFINE e == Latest({q.off + MinLength[q.ct]} \cup {q.ends[k] : k \in DOMAIN q.ends})
    <3>. DEFINE x == q.off + MinLength[q.ct]
    <3>3. x \in Nat
      BY <2>1
    <3>1. e \in Nat
      <4>1. e = Latest({x} \cup {q.ends[k] : k \in DOMAIN q.ends})
        OBVIOUS
      <4>. HIDE DEF x, e
      <4>. QED  BY <2>1, <3>3, <4>1, LatestIs
    <3>2. f(q) = Answer("ok", q.context, e)
      BY <2>2
    <3>. HIDE DEF e, f
    <3>. QED  BY <2>1, <3>1, <3>2, AnswerTypes
  <2>3. CASE ~(Len(q.ends) >= Len(Operands[q.ct]))
    <3>1. sym(q).table \in Tables \cup {Leaf} /\ sym(q).len \in Nat /\ at(q) \in Nat
      BY <2>1, <2>3, NextOperand
    <3>2. f(q) = IF part(q).verdict # "ok" THEN part(q) ELSE known.rest[next1(q)]
      BY <2>3
    <3>3. part(q) \in Answers
      <4>. DEFINE pq == [table |-> sym(q).table, off |-> at(q), context |-> q.context]
      <4>1. CASE sym(q).table # Leaf
        <5>1. pq \in PartQuestions
          <6>. HIDE DEF sym, at
          <6>. QED  BY <2>1, <3>1, <4>1 DEF PartQuestions
        <5>2. part(q) = known.part[pq]
          BY <4>1
        <5>. HIDE DEF pq, part
        <5>. QED  BY <5>1, <5>2 DEF Knowledge
      <4>2. CASE sym(q).table = Leaf
        <5>1. part(q) \in {Answer("ok", q.context, at(q) + sym(q).len), Refused}
          BY <4>2
        <5>2. at(q) + sym(q).len \in Nat
          <6>. HIDE DEF sym, at
          <6>. QED  BY <3>1
        <5>. HIDE DEF part, at, sym
        <5>. QED  BY <2>1, <5>1, <5>2, AnswerTypes
      <4>. QED  BY <4>1, <4>2
    <3>4. next1(q) \in RestQuestions
      <4>1. part(q).end \in Nat /\ part(q).context \in Contexts
        <5>. HIDE DEF part
        <5>. QED  BY <3>3 DEF Answers
      <4>. HIDE DEF part
      <4>2. Append(q.ends, part(q).end) \in Seq(Nat)
        BY <2>1, <4>1, AppendProperties
      <4>. QED  BY <2>1, <4>1, <4>2 DEF RestQuestions
    <3>5. known.rest[next1(q)] \in Answers
      <4>. HIDE DEF next1
      <4>. QED  BY <3>4 DEF Knowledge
    <3>. HIDE DEF part, next1, f
    <3>. QED  BY <3>2, <3>3, <3>5
  <2>. QED  BY <2>2, <2>3
<1>2. RestFrom(known) = [q \in RestQuestions |-> f(q)]
  BY DEF RestFrom
<1>. HIDE DEF f
<1>. QED  BY <1>1, <1>2

LEMMA KnownType ==
  ASSUME NEW bytes \in Memory, NEW n \in 0 .. Calls
  PROVE  Disassembling(bytes)[n] \in Knowledge
<1>. DEFINE D == Disassembling(bytes)
            T == {k \in Nat : k <= Calls => D[k] \in Knowledge}
<1>1. 0 \in T
  <2>1. 0 \in 0 .. Calls
    BY GhidraAssumption
  <2>2. D[0] = [part |-> [q \in PartQuestions |-> Unknown], rest |-> [q \in RestQuestions |-> Unknown]]
    BY <2>1, DisassemblingStep
  <2>. HIDE DEF D
  <2>3. D[0] \in Knowledge
    BY <2>2, AnswerTypes DEF Knowledge
  <2>. QED  BY <2>3
<1>2. ASSUME NEW k \in T PROVE k + 1 \in T
  <2>. SUFFICES ASSUME k + 1 <= Calls PROVE D[k + 1] \in Knowledge
    BY <1>2
  <2>1. k \in Nat /\ D[k] \in Knowledge /\ k + 1 \in 0 .. Calls /\ k + 1 # 0 /\ k + 1 - 1 = k
    BY <1>2, GhidraAssumption
  <2>2. D[k + 1] = [part |-> PartFrom(bytes, D[k + 1 - 1]), rest |-> RestFrom(D[k + 1 - 1])]
    BY <2>1, DisassemblingStep
  <2>. HIDE DEF D
  <2>3. D[k + 1] = [part |-> PartFrom(bytes, D[k]), rest |-> RestFrom(D[k])]
    BY <2>1, <2>2
  <2>4. PartFrom(bytes, D[k]) \in [PartQuestions -> Answers] /\ RestFrom(D[k]) \in [RestQuestions -> Answers]
    BY <2>1, PartFromType, RestFromType
  <2>. QED  BY <2>3, <2>4 DEF Knowledge
<1>3. T \subseteq Nat
  OBVIOUS
<1>. HIDE DEF T
<1>4. T = Nat
  BY <1>1, <1>2, <1>3, Induction
<1>5. n \in T /\ n <= Calls
  BY <1>4, GhidraAssumption
<1>. QED  BY <1>5 DEF T

\* The answers that are known at some time, the unknown ones left out.
GivesPart(bytes, q, r) ==
  r.verdict # "unknown" /\ \E n \in 0 .. Calls : Disassembling(bytes)[n].part[q] = r
Gives(bytes, q, r) ==
  r.verdict # "unknown" /\ \E n \in 0 .. Calls : Disassembling(bytes)[n].rest[q] = r

Decided == {r \in Answers : r.verdict # "unknown"}

LEMMA GivesTyped ==
  ASSUME NEW bytes \in Memory, NEW r
  PROVE  /\ \A q \in PartQuestions : GivesPart(bytes, q, r) => r \in Decided
         /\ \A q \in RestQuestions : Gives(bytes, q, r) => r \in Decided
<1>1. \A n \in 0 .. Calls : /\ \A q \in PartQuestions : Disassembling(bytes)[n].part[q] \in Answers
                            /\ \A q \in RestQuestions : Disassembling(bytes)[n].rest[q] \in Answers
  BY KnownType DEF Knowledge
<1>. QED  BY <1>1 DEF GivesPart, Gives, Decided

\* An answer that is known is made of others that are.
LEMMA PartKnown ==
  ASSUME NEW bytes \in Memory, NEW q \in PartQuestions, NEW r, GivesPart(bytes, q, r)
  PROVE  LET ct == Resolved(q.table, bytes, q.off, q.context) IN
         /\ ct = NoMatch => r = Refused
         /\ ct # NoMatch =>
              Gives(bytes, [ct |-> ct, off |-> q.off, ends |-> <<>>, context |-> SetsContext[ct][q.context]], r)
<1>. DEFINE D  == Disassembling(bytes)
            ct == Resolved(q.table, bytes, q.off, q.context)
            rq == [ct |-> ct, off |-> q.off, ends |-> <<>>, context |-> SetsContext[ct][q.context]]
<1>1. PICK n \in 0 .. Calls : D[n].part[q] = r
  BY DEF GivesPart
<1>2. r.verdict # "unknown"
  BY DEF GivesPart
<1>3. n # 0
  <2>. SUFFICES ASSUME n = 0 PROVE FALSE
    OBVIOUS
  <2>2. D[n] = [part |-> [p \in PartQuestions |-> Unknown], rest |-> [p \in RestQuestions |-> Unknown]]
    BY DisassemblingStep
  <2>. HIDE DEF D
  <2>1. D[n].part = [p \in PartQuestions |-> Unknown]
    BY <2>2
  <2>. QED  BY <1>1, <1>2, <2>1, AnswerTypes
<1>4. D[n].part = PartFrom(bytes, D[n - 1]) /\ n - 1 \in 0 .. Calls
  <2>1. D[n] = [part |-> PartFrom(bytes, D[n - 1]), rest |-> RestFrom(D[n - 1])]
    BY <1>3, DisassemblingStep
  <2>. HIDE DEF D
  <2>. QED  BY <1>3, <2>1, GhidraAssumption
<1>5. PartFrom(bytes, D[n - 1])[q] = IF ct = NoMatch THEN Refused ELSE D[n - 1].rest[rq]
  <2>. HIDE DEF D
  <2>. QED  BY DEF PartFrom
<1>6. r = IF ct = NoMatch THEN Refused ELSE D[n - 1].rest[rq]
  <2>. HIDE DEF D, ct, rq
  <2>. QED  BY <1>1, <1>4, <1>5
<1>7. ct # NoMatch => Gives(bytes, rq, r)
  <2>. HIDE DEF ct, rq
  <2>. QED  BY <1>2, <1>4, <1>6 DEF Gives
<1>. HIDE DEF ct, rq
<1>8. ct = NoMatch => r = Refused
  BY <1>6
<1>. QED  BY <1>7, <1>8 DEF ct, rq

\* The place of the next operand of a question.
Symbol(q) == Operands[q.ct][Len(q.ends) + 1]
Place(q)  == Symbol(q).rel + (IF Symbol(q).base = 0 THEN q.off ELSE q.ends[Symbol(q).base])
After(q, end, context) == [q EXCEPT !.ends = Append(@, end), !.context = context]

LEMMA RestKnown ==
  ASSUME NEW bytes \in Memory, NEW q \in RestQuestions, NEW r, Gives(bytes, q, r)
  PROVE  /\ Len(q.ends) >= Len(Operands[q.ct]) =>
              r = Answer("ok", q.context,
                         Latest({q.off + MinLength[q.ct]} \cup {q.ends[k] : k \in DOMAIN q.ends}))
         /\ Len(q.ends) < Len(Operands[q.ct]) /\ Symbol(q).table = Leaf =>
              IF Symbol(q).len = 0 \/ Place(q) < BufLen
              THEN Gives(bytes, After(q, Place(q) + Symbol(q).len, q.context), r)
              ELSE r = Refused
         /\ Len(q.ends) < Len(Operands[q.ct]) /\ Symbol(q).table # Leaf =>
              \E p \in Decided :
                /\ GivesPart(bytes, [table |-> Symbol(q).table, off |-> Place(q), context |-> q.context], p)
                /\ p.verdict # "ok" => r = p
                /\ p.verdict = "ok" => Gives(bytes, After(q, p.end, p.context), r)
<1>. DEFINE D    == Disassembling(bytes)
            pq   == [table |-> Symbol(q).table, off |-> Place(q), context |-> q.context]
            done == Answer("ok", q.context,
                           Latest({q.off + MinLength[q.ct]} \cup {q.ends[k] : k \in DOMAIN q.ends}))
<1>1. PICK n \in 0 .. Calls : D[n].rest[q] = r
  BY DEF Gives
<1>2. r.verdict # "unknown"
  BY DEF Gives
<1>3. n # 0
  <2>. SUFFICES ASSUME n = 0 PROVE FALSE
    OBVIOUS
  <2>2. D[n] = [part |-> [p \in PartQuestions |-> Unknown], rest |-> [p \in RestQuestions |-> Unknown]]
    BY DisassemblingStep
  <2>. HIDE DEF D
  <2>1. D[n].rest = [p \in RestQuestions |-> Unknown]
    BY <2>2
  <2>. QED  BY <1>1, <1>2, <2>1, AnswerTypes
<1>4. D[n].rest = RestFrom(D[n - 1]) /\ n - 1 \in 0 .. Calls
  <2>1. D[n] = [part |-> PartFrom(bytes, D[n - 1]), rest |-> RestFrom(D[n - 1])]
    BY <1>3, DisassemblingStep
  <2>. HIDE DEF D
  <2>. QED  BY <1>3, <2>1, GhidraAssumption
<1>. DEFINE part == IF Symbol(q).table # Leaf THEN D[n - 1].part[pq]
                    ELSE IF Symbol(q).len = 0 \/ Place(q) < BufLen
                         THEN Answer("ok", q.context, Place(q) + Symbol(q).len)
                         ELSE Refused
            next1 == After(q, part.end, part.context)
<1>5. RestFrom(D[n - 1])[q] =
        IF Len(q.ends) >= Len(Operands[q.ct]) THEN done
        ELSE IF part.verdict # "ok" THEN part ELSE D[n - 1].rest[next1]
  <2>. HIDE DEF D
  <2>. QED  BY Zenon DEF RestFrom, Symbol, Place, After
<1>6. r = IF Len(q.ends) >= Len(Operands[q.ct]) THEN done
          ELSE IF part.verdict # "ok" THEN part ELSE D[n - 1].rest[next1]
  <2>. HIDE DEF D, part, next1, done
  <2>. QED  BY <1>1, <1>4, <1>5
<1>7. ASSUME Len(q.ends) >= Len(Operands[q.ct]) PROVE r = done
  <2>. HIDE DEF D, part, next1, done
  <2>. QED  BY <1>6, <1>7
<1>8. q.ct \in Constructors /\ Len(q.ends) \in Nat /\ Len(Operands[q.ct]) \in Nat
  <2>1. q.ct \in Constructors /\ q.ends \in Seq(Nat)
    BY DEF RestQuestions
  <2>. QED  BY <2>1, LenProperties, OperandTypes
<1>9. ASSUME Len(q.ends) < Len(Operands[q.ct])
      PROVE  /\ Symbol(q).table \in Tables \cup {Leaf} /\ Symbol(q).len \in Nat /\ Place(q) \in Nat
             /\ q.context \in Contexts
  BY <1>9, NextOperand DEF Symbol, Place
<1>10. ASSUME Len(q.ends) < Len(Operands[q.ct])
       PROVE  r = IF part.verdict # "ok" THEN part ELSE D[n - 1].rest[next1]
  <2>. HIDE DEF D, part, next1, done
  <2>. QED  BY <1>6, <1>8, <1>10
<1>11. ASSUME Len(q.ends) < Len(Operands[q.ct]), part.verdict = "ok"
       PROVE  Gives(bytes, After(q, part.end, part.context), r)
  <2>. HIDE DEF part
  <2>. QED  BY <1>2, <1>4, <1>10, <1>11 DEF Gives
<1>12. ASSUME Len(q.ends) < Len(Operands[q.ct]), Symbol(q).table = Leaf
       PROVE  IF Symbol(q).len = 0 \/ Place(q) < BufLen
              THEN Gives(bytes, After(q, Place(q) + Symbol(q).len, q.context), r)
              ELSE r = Refused
  <2>1. CASE Symbol(q).len = 0 \/ Place(q) < BufLen
    <3>. DEFINE e == Place(q) + Symbol(q).len
    <3>1. e \in Nat
      BY <1>9, <1>12
    <3>2. part = Answer("ok", q.context, e)
      BY <1>12, <2>1
    <3>. HIDE DEF part, e
    <3>3. part.verdict = "ok" /\ part.end = e /\ part.context = q.context
      BY <1>9, <1>12, <3>1, <3>2, AnswerTypes
    <3>. QED  BY <1>11, <1>12, <2>1, <3>3 DEF e
  <2>2. CASE ~(Symbol(q).len = 0 \/ Place(q) < BufLen)
    <3>1. part = Refused
      BY <1>12, <2>2
    <3>. HIDE DEF part, next1
    <3>. QED  BY <1>10, <1>12, <2>2, <3>1, AnswerTypes
  <2>. QED  BY <2>1, <2>2
<1>13. ASSUME Len(q.ends) < Len(Operands[q.ct]), Symbol(q).table # Leaf
       PROVE  \E p \in Decided :
                /\ GivesPart(bytes, pq, p)
                /\ p.verdict # "ok" => r = p
                /\ p.verdict = "ok" => Gives(bytes, After(q, p.end, p.context), r)
  <2>1. part = D[n - 1].part[pq]
    BY <1>13
  <2>2. pq \in PartQuestions
    BY <1>9, <1>13 DEF PartQuestions
  <2>. HIDE DEF part, next1, pq
  <2>3. part.verdict # "unknown"
    BY <1>2, <1>10, <1>13
  <2>4. GivesPart(bytes, pq, part)
    BY <1>4, <2>1, <2>3 DEF GivesPart
  <2>5. part \in Decided
    BY <2>2, <2>4, GivesTyped
  <2>. QED  BY <1>10, <1>11, <1>13, <2>4, <2>5
<1>. HIDE DEF D, part, next1
<1>. QED  BY <1>7, <1>12, <1>13

(***************************************************************************)
(* A stack of constructors that are being resolved: each with its offset   *)
(* and the ends of the operands that are finished                          *)
(***************************************************************************)

Frame == [ct : Constructors, off : Nat, ends : Seq(Nat)]
Stacks(m) == [1 .. m -> Frame]

Ask(f, ends, context) == [ct |-> f.ct, off |-> f.off, ends |-> ends, context |-> context]

\* R[j]: the answer for the rest of the constructor at level j.
Answered(bytes, S, m, context, R) ==
  /\ R[1] = Instruction(bytes)
  /\ \A j \in 1 .. m : R[j].verdict = "refused" => R[1].verdict = "refused"
  /\ Gives(bytes, Ask(S[m], S[m].ends, context), R[m])
  /\ \A j \in 1 .. m - 1 : R[j + 1].verdict = "ok" =>
       Gives(bytes, Ask(S[j], Append(S[j].ends, R[j + 1].end), R[j + 1].context), R[j])

Chained(bytes, S, m, context) == \E R \in [1 .. m -> Decided] : Answered(bytes, S, m, context, R)

\* The stack with one more operand finished.
Finished(S, m, end) == [S EXCEPT ![m].ends = Append(@, end)]

LEMMA AskTyped ==
  ASSUME NEW f \in Frame, NEW ends \in Seq(Nat), NEW context \in Contexts
  PROVE  Ask(f, ends, context) \in RestQuestions /\ f.ends \in Seq(Nat) /\ f.ct \in Constructors /\ f.off \in Nat
BY DEF Ask, RestQuestions, Frame

LEMMA FinishedTyped ==
  ASSUME NEW m \in Nat \ {0}, NEW S \in Stacks(m), NEW end \in Nat
  PROVE  /\ Finished(S, m, end) \in Stacks(m)
         /\ Finished(S, m, end)[m] = [ct |-> S[m].ct, off |-> S[m].off, ends |-> Append(S[m].ends, end)]
         /\ \A j \in 1 .. m - 1 : Finished(S, m, end)[j] = S[j]
<1>1. m \in 1 .. m /\ S[m] \in Frame
  BY DEF Stacks
<1>2. Append(S[m].ends, end) \in Seq(Nat) /\ S[m].ct \in Constructors /\ S[m].off \in Nat
  BY <1>1, AppendProperties DEF Frame
<1>. DEFINE f == [S[m] EXCEPT !.ends = Append(@, end)]
<1>3. f = [ct |-> S[m].ct, off |-> S[m].off, ends |-> Append(S[m].ends, end)]
  <2>1. ASSUME NEW g \in Frame, NEW ends
        PROVE  [g EXCEPT !.ends = ends] = [ct |-> g.ct, off |-> g.off, ends |-> ends]
    BY DEF Frame
  <2>. QED  BY <1>1, <2>1
<1>4. f \in Frame
  BY <1>2, <1>3 DEF Frame
<1>5. Finished(S, m, end) = [S EXCEPT ![m] = f]
  BY DEF Finished
<1>. HIDE DEF f
<1>6. DOMAIN S = 1 .. m /\ S \in [1 .. m -> Frame]
  BY DEF Stacks
<1>7. \A j \in 1 .. m - 1 : j \in 1 .. m /\ j # m
  OBVIOUS
<1>8. Finished(S, m, end)[m] = f /\ \A j \in 1 .. m - 1 : Finished(S, m, end)[j] = S[j]
  BY <1>1, <1>5, <1>6, <1>7
<1>9. Finished(S, m, end) \in Stacks(m)
  BY <1>1, <1>4, <1>5, <1>6 DEF Stacks
<1>. QED  BY <1>3, <1>8, <1>9

\* The root.
LEMMA ChainBegins ==
  ASSUME NEW bytes \in Memory, Instruction(bytes).verdict # "unknown"
  PROVE  LET ct == Resolved(Root, bytes, 0, SpecContext) IN
         /\ ct = NoMatch => Instruction(bytes).verdict = "refused"
         /\ ct # NoMatch => Chained(bytes, [j \in 1 .. 1 |-> [ct |-> ct, off |-> 0, ends |-> <<>>]], 1,
                                    SetsContext[ct][SpecContext])
<1>. DEFINE q  == [table |-> Root, off |-> 0, context |-> SpecContext]
            ct == Resolved(Root, bytes, 0, SpecContext)
            S  == [j \in 1 .. 1 |-> [ct |-> ct, off |-> 0, ends |-> <<>>]]
            R  == [j \in 1 .. 1 |-> Instruction(bytes)]
            context == SetsContext[ct][SpecContext]
<1>1. q \in PartQuestions
  BY SleighAssumption DEF PartQuestions
<1>2. GivesPart(bytes, q, Instruction(bytes))
  BY GhidraAssumption DEF GivesPart, Instruction
<1>3. Instruction(bytes) \in Decided
  BY <1>1, <1>2, GivesTyped
<1>4. /\ ct = NoMatch => Instruction(bytes) = Refused
      /\ ct # NoMatch => Gives(bytes, [ct |-> ct, off |-> 0, ends |-> <<>>, context |-> context], Instruction(bytes))
  BY <1>1, <1>2, PartKnown
<1>5. ASSUME ct # NoMatch PROVE Chained(bytes, S, 1, context)
  <2>1. S[1] = [ct |-> ct, off |-> 0, ends |-> <<>>]
    OBVIOUS
  <2>2. Ask(S[1], S[1].ends, context) = [ct |-> ct, off |-> 0, ends |-> <<>>, context |-> context]
    <3>. HIDE DEF S, ct, context
    <3>. QED  BY <2>1 DEF Ask
  <2>3. R[1] = Instruction(bytes) /\ R \in [1 .. 1 -> Decided]
    BY <1>3
  <2>. HIDE DEF S, R, ct, context
  <2>4. Answered(bytes, S, 1, context, R)
    <3>1. Gives(bytes, Ask(S[1], S[1].ends, context), R[1])
      BY <1>4, <1>5, <2>2, <2>3
    <3>2. \A j \in 1 .. 1 : j = 1
      OBVIOUS
    <3>3. ~\E j \in 1 .. 1 - 1 : TRUE
      OBVIOUS
    <3>. QED  BY <2>3, <3>1, <3>2, <3>3, Zenon DEF Answered
  <2>. QED  BY <2>3, <2>4 DEF Chained
<1>. QED  BY <1>4, <1>5, AnswerTypes

\* The next operand of the constructor on top.
TopSymbol(S, m) == Operands[S[m].ct][Len(S[m].ends) + 1]
TopPlace(S, m) ==
  TopSymbol(S, m).rel + (IF TopSymbol(S, m).base = 0 THEN S[m].off ELSE S[m].ends[TopSymbol(S, m).base])

LEMMA TopOf ==
  ASSUME NEW m \in Nat \ {0}, NEW S \in Stacks(m), NEW context \in Contexts
  PROVE  LET q == Ask(S[m], S[m].ends, context) IN
         /\ q \in RestQuestions /\ S[m] \in Frame
         /\ q.ct = S[m].ct /\ q.off = S[m].off /\ q.ends = S[m].ends /\ q.context = context
         /\ Symbol(q) = TopSymbol(S, m) /\ Place(q) = TopPlace(S, m)
         /\ \A end, c : After(q, end, c) = Ask(S[m], Append(S[m].ends, end), c)
<1>. DEFINE q == Ask(S[m], S[m].ends, context)
<1>1. m \in 1 .. m /\ S[m] \in Frame
  BY DEF Stacks
<1>2. q \in RestQuestions
  <2>1. S[m].ends \in Seq(Nat)
    BY <1>1 DEF Frame
  <2>. QED  BY <1>1, <2>1, AskTyped
<1>3. q = [ct |-> S[m].ct, off |-> S[m].off, ends |-> S[m].ends, context |-> context]
  BY DEF Ask
<1>. HIDE DEF q
<1>4. q.ct = S[m].ct /\ q.off = S[m].off /\ q.ends = S[m].ends /\ q.context = context
  BY <1>3
<1>5. Symbol(q) = TopSymbol(S, m) /\ Place(q) = TopPlace(S, m)
  BY <1>4 DEF Symbol, TopSymbol, Place, TopPlace
<1>6. \A end, c : After(q, end, c) = Ask(S[m], Append(S[m].ends, end), c)
  <2>1. ASSUME NEW e, NEW c
        PROVE  [q EXCEPT !.ends = e, !.context = c] = [ct |-> q.ct, off |-> q.off, ends |-> e, context |-> c]
    <3>. DEFINE g == [q EXCEPT !.ends = e]
                h == [ct |-> q.ct, off |-> q.off, ends |-> e, context |-> q.context]
    <3>1. g = h
      BY <1>2 DEF RestQuestions
    <3>2. [h EXCEPT !.context = c] = [ct |-> q.ct, off |-> q.off, ends |-> e, context |-> c]
      OBVIOUS
    <3>3. [q EXCEPT !.ends = e, !.context = c] = [g EXCEPT !.context = c]
      BY <1>2 DEF RestQuestions
    <3>. HIDE DEF g, h
    <3>. QED  BY <3>1, <3>2, <3>3
  <2>2. ASSUME NEW e, NEW c
        PROVE  After(q, e, c) = [ct |-> q.ct, off |-> q.off, ends |-> Append(q.ends, e), context |-> c]
    BY <2>1 DEF After
  <2>. QED  BY <1>4, <2>2 DEF Ask
<1>. QED  BY <1>1, <1>2, <1>4, <1>5, <1>6 DEF q

\* The answers stay when the constructor on top goes on to its next operand.
LEMMA ChainGoesOn ==
  ASSUME NEW bytes \in Memory, NEW m \in Nat \ {0}, NEW S \in Stacks(m), NEW context \in Contexts,
         NEW R \in [1 .. m -> Decided], Answered(bytes, S, m, context, R),
         NEW end \in Nat, NEW c \in Contexts,
         Gives(bytes, Ask(S[m], Append(S[m].ends, end), c), R[m])
  PROVE  Answered(bytes, Finished(S, m, end), m, c, R)
<1>. DEFINE T == Finished(S, m, end)
<1>1. T[m] = [ct |-> S[m].ct, off |-> S[m].off, ends |-> Append(S[m].ends, end)]
      /\ \A j \in 1 .. m - 1 : T[j] = S[j]
  BY FinishedTyped
<1>. HIDE DEF T
<1>2. Ask(T[m], T[m].ends, c) = Ask(S[m], Append(S[m].ends, end), c)
  BY <1>1 DEF Ask
<1>3. Gives(bytes, Ask(T[m], T[m].ends, c), R[m])
  BY <1>2
<1>4. ASSUME NEW j \in 1 .. m - 1, R[j + 1].verdict = "ok"
      PROVE  Gives(bytes, Ask(T[j], Append(T[j].ends, R[j + 1].end), R[j + 1].context), R[j])
  <2>1. T[j] = S[j]
    BY <1>1
  <2>2. Gives(bytes, Ask(S[j], Append(S[j].ends, R[j + 1].end), R[j + 1].context), R[j])
    BY <1>4 DEF Answered
  <2>. QED  BY <2>1, <2>2
<1>5. R[1] = Instruction(bytes) /\ \A j \in 1 .. m : R[j].verdict = "refused" => R[1].verdict = "refused"
  BY DEF Answered
<1>6. Answered(bytes, T, m, c, R)
  BY <1>3, <1>4, <1>5 DEF Answered
<1>. QED  BY <1>6 DEF T

LEMMA ChainLeaf ==
  ASSUME NEW bytes \in Memory, NEW m \in Nat \ {0}, NEW S \in Stacks(m), NEW context \in Contexts,
         Chained(bytes, S, m, context),
         Len(S[m].ends) < Len(Operands[S[m].ct]), TopSymbol(S, m).table = Leaf
  PROVE  LET end == TopPlace(S, m) + TopSymbol(S, m).len IN
         IF TopSymbol(S, m).len = 0 \/ TopPlace(S, m) < BufLen
         THEN Chained(bytes, Finished(S, m, end), m, context)
         ELSE Instruction(bytes).verdict = "refused"
<1>. DEFINE q   == Ask(S[m], S[m].ends, context)
            end == TopPlace(S, m) + TopSymbol(S, m).len
<1>1. PICK R \in [1 .. m -> Decided] : Answered(bytes, S, m, context, R)
  BY DEF Chained
<1>2. /\ q \in RestQuestions /\ S[m] \in Frame
      /\ q.ct = S[m].ct /\ q.ends = S[m].ends /\ q.context = context
      /\ Symbol(q) = TopSymbol(S, m) /\ Place(q) = TopPlace(S, m)
      /\ \A e, c : After(q, e, c) = Ask(S[m], Append(S[m].ends, e), c)
  BY TopOf
<1>3. Gives(bytes, q, R[m])
  BY <1>1 DEF Answered
<1>. HIDE DEF q
<1>4. IF TopSymbol(S, m).len = 0 \/ TopPlace(S, m) < BufLen
      THEN Gives(bytes, After(q, end, context), R[m])
      ELSE R[m] = Refused
  BY <1>2, <1>3, RestKnown
<1>5. end \in Nat
  <2>1. Len(q.ends) < Len(Operands[q.ct])
    BY <1>2
  <2>2. Symbol(q).len \in Nat /\ Place(q) \in Nat
    BY <1>2, <2>1, NextOperand DEF Symbol, Place
  <2>. QED  BY <1>2, <2>2
<1>. HIDE DEF end
<1>6. CASE TopSymbol(S, m).len = 0 \/ TopPlace(S, m) < BufLen
  <2>1. Gives(bytes, Ask(S[m], Append(S[m].ends, end), context), R[m])
    BY <1>2, <1>4, <1>6
  <2>2. Answered(bytes, Finished(S, m, end), m, context, R)
    BY <1>1, <1>5, <2>1, ChainGoesOn
  <2>3. Chained(bytes, Finished(S, m, end), m, context)
    BY <2>2 DEF Chained
  <2>. QED  BY <1>6, <2>3 DEF end
<1>7. CASE ~(TopSymbol(S, m).len = 0 \/ TopPlace(S, m) < BufLen)
  <2>1. R[m].verdict = "refused" /\ m \in 1 .. m
    BY <1>4, <1>7, AnswerTypes
  <2>2. Instruction(bytes).verdict = "refused"
    BY <1>1, <2>1 DEF Answered
  <2>. QED  BY <1>7, <2>2
<1>. QED  BY <1>6, <1>7

Pushed(S, m, f) == [j \in 1 .. m + 1 |-> IF j = m + 1 THEN f ELSE S[j]]

LEMMA ChainDown ==
  ASSUME NEW bytes \in Memory, NEW m \in Nat \ {0}, NEW S \in Stacks(m), NEW context \in Contexts,
         Chained(bytes, S, m, context),
         Len(S[m].ends) < Len(Operands[S[m].ct]), TopSymbol(S, m).table # Leaf
  PROVE  LET ct == Resolved(TopSymbol(S, m).table, bytes, TopPlace(S, m), context) IN
         IF ct = NoMatch THEN Instruction(bytes).verdict = "refused"
         ELSE Chained(bytes, Pushed(S, m, [ct |-> ct, off |-> TopPlace(S, m), ends |-> <<>>]), m + 1,
                      SetsContext[ct][context])
<1>. DEFINE q  == Ask(S[m], S[m].ends, context)
            pq == [table |-> TopSymbol(S, m).table, off |-> TopPlace(S, m), context |-> context]
            ct == Resolved(TopSymbol(S, m).table, bytes, TopPlace(S, m), context)
            f  == [ct |-> ct, off |-> TopPlace(S, m), ends |-> <<>>]
            T  == Pushed(S, m, f)
            c  == SetsContext[ct][context]
<1>1. PICK R \in [1 .. m -> Decided] : Answered(bytes, S, m, context, R)
  BY DEF Chained
<1>2. /\ q \in RestQuestions /\ S[m] \in Frame
      /\ q.ct = S[m].ct /\ q.ends = S[m].ends /\ q.context = context
      /\ Symbol(q) = TopSymbol(S, m) /\ Place(q) = TopPlace(S, m)
      /\ \A e, x : After(q, e, x) = Ask(S[m], Append(S[m].ends, e), x)
  BY TopOf
<1>3. Gives(bytes, q, R[m])
  BY <1>1 DEF Answered
<1>. HIDE DEF q
<1>4. PICK p \in Decided :
        /\ GivesPart(bytes, pq, p)
        /\ p.verdict # "ok" => R[m] = p
        /\ p.verdict = "ok" => Gives(bytes, After(q, p.end, p.context), R[m])
  BY <1>2, <1>3, RestKnown
<1>5. pq \in PartQuestions
  <2>1. Len(q.ends) < Len(Operands[q.ct])
    BY <1>2
  <2>2. Symbol(q).table \in Tables \cup {Leaf} /\ Place(q) \in Nat
    BY <1>2, <2>1, NextOperand DEF Symbol, Place
  <2>. QED  BY <1>2, <2>2 DEF PartQuestions
<1>6. /\ ct = NoMatch => p = Refused
      /\ ct # NoMatch => Gives(bytes, [ct |-> ct, off |-> TopPlace(S, m), ends |-> <<>>, context |-> c], p)
  BY <1>4, <1>5, PartKnown
<1>7. p.verdict = "refused" => Instruction(bytes).verdict = "refused"
  <2>1. m \in 1 .. m
    OBVIOUS
  <2>. QED  BY <1>1, <1>4, <2>1 DEF Answered
<1>8. ASSUME ct # NoMatch PROVE Chained(bytes, T, m + 1, c)
  <2>. DEFINE Q == [j \in 1 .. m + 1 |-> IF j = m + 1 THEN p ELSE R[j]]
  <2>1. m + 1 \in 1 .. m + 1 /\ m \in 1 .. m + 1 /\ 1 \in 1 .. m + 1 /\ m # m + 1 /\ 1 # m + 1
        /\ \A j \in 1 .. m : j \in 1 .. m + 1 /\ j # m + 1
    OBVIOUS
  <2>2. T[m + 1] = f /\ \A j \in 1 .. m : T[j] = S[j]
    <3>. HIDE DEF f
    <3>. QED  BY <2>1 DEF Pushed
  <2>3. Q[m + 1] = p /\ \A j \in 1 .. m : Q[j] = R[j]
    BY <2>1
  <2>4. Q \in [1 .. m + 1 -> Decided]
    <3>1. \A j \in 1 .. m + 1 : j # m + 1 => R[j] \in Decided
      OBVIOUS
    <3>. QED  BY <1>4, <3>1
  <2>5. Ask(T[m + 1], T[m + 1].ends, c) = [ct |-> ct, off |-> TopPlace(S, m), ends |-> <<>>, context |-> c]
    <3>. HIDE DEF T, ct, c
    <3>. QED  BY <2>2 DEF Ask
  <2>. HIDE DEF Q, T, ct, c, f
  <2>6. Gives(bytes, Ask(T[m + 1], T[m + 1].ends, c), Q[m + 1])
    BY <1>6, <1>8, <2>3, <2>5
  <2>7. ASSUME NEW j \in 1 .. m + 1 - 1, Q[j + 1].verdict = "ok"
        PROVE  Gives(bytes, Ask(T[j], Append(T[j].ends, Q[j + 1].end), Q[j + 1].context), Q[j])
    <3>1. CASE j = m
      <4>1. Q[j + 1] = p /\ T[j] = S[m] /\ Q[j] = R[m]
        BY <2>2, <2>3, <3>1
      <4>. QED  BY <1>2, <1>4, <2>7, <4>1
    <3>2. CASE j # m
      <4>1. j \in 1 .. m - 1 /\ j \in 1 .. m /\ j + 1 \in 1 .. m
        BY <3>2
      <4>2. Q[j + 1] = R[j + 1] /\ T[j] = S[j] /\ Q[j] = R[j]
        BY <2>2, <2>3, <4>1
      <4>3. Gives(bytes, Ask(S[j], Append(S[j].ends, R[j + 1].end), R[j + 1].context), R[j])
        BY <1>1, <2>7, <4>1, <4>2 DEF Answered
      <4>. QED  BY <4>2, <4>3
    <3>. QED  BY <3>1, <3>2
  <2>8. Q[1] = R[1] /\ R[1] = Instruction(bytes) /\ 1 \in 1 .. m
    BY <1>1, <2>3 DEF Answered
  <2>9. ASSUME NEW j \in 1 .. m + 1, Q[j].verdict = "refused" PROVE Q[1].verdict = "refused"
    <3>1. CASE j = m + 1
      BY <1>7, <2>3, <2>8, <2>9, <3>1
    <3>2. CASE j # m + 1
      <4>1. j \in 1 .. m /\ Q[j] = R[j]
        BY <2>3, <3>2
      <4>. QED  BY <1>1, <2>8, <2>9, <4>1 DEF Answered
    <3>. QED  BY <3>1, <3>2
  <2>10. Answered(bytes, T, m + 1, c, Q)
    BY <2>6, <2>7, <2>8, <2>9 DEF Answered
  <2>. QED  BY <2>4, <2>10 DEF Chained
<1>9. ct = NoMatch => Instruction(bytes).verdict = "refused"
  BY <1>6, <1>7, AnswerTypes
<1>. HIDE DEF ct, f, T, c
<1>10. IF ct = NoMatch THEN Instruction(bytes).verdict = "refused" ELSE Chained(bytes, T, m + 1, c)
  BY <1>8, <1>9
<1>. QED  BY <1>10 DEF ct, f, T, c

Cut(S, m) == [j \in 1 .. m - 1 |-> S[j]]

\* Where a constructor ends.
Whole(S, m) == Latest({S[m].off + MinLength[S[m].ct]} \cup {S[m].ends[k] : k \in DOMAIN S[m].ends})

LEMMA WholeIs ==
  ASSUME NEW m \in Nat \ {0}, NEW S \in Stacks(m)
  PROVE  LET X == {S[m].off + MinLength[S[m].ct]} \cup {S[m].ends[k] : k \in DOMAIN S[m].ends} IN
         /\ Whole(S, m) \in Nat /\ Whole(S, m) \in X /\ S[m].off <= Whole(S, m)
         /\ \A e \in X : e <= Whole(S, m)
<1>1. m \in 1 .. m /\ S[m] \in Frame
  BY DEF Stacks
<1>. DEFINE x == S[m].off + MinLength[S[m].ct]
<1>2. S[m].ends \in Seq(Nat) /\ x \in Nat /\ S[m].off <= x /\ S[m].off \in Nat
  BY <1>1, OperandTypes DEF Frame
<1>. HIDE DEF x
<1>3. LET X == {x} \cup {S[m].ends[k] : k \in DOMAIN S[m].ends}
      IN  Latest(X) \in X /\ (\A e \in X : e <= Latest(X)) /\ Latest(X) \in Nat /\ x <= Latest(X)
  BY <1>2, LatestIs
<1>4. Whole(S, m) = Latest({x} \cup {S[m].ends[k] : k \in DOMAIN S[m].ends})
  BY DEF Whole, x
<1>5. S[m].off <= Whole(S, m)
  BY <1>2, <1>3, <1>4
<1>. QED  BY <1>3, <1>4, <1>5 DEF x

LEMMA TopAnswer ==
  ASSUME NEW bytes \in Memory, NEW m \in Nat \ {0}, NEW S \in Stacks(m), NEW context \in Contexts,
         NEW R \in [1 .. m -> Decided], Answered(bytes, S, m, context, R),
         Len(S[m].ends) >= Len(Operands[S[m].ct])
  PROVE  R[m].verdict = "ok" /\ R[m].end = Whole(S, m) /\ R[m].context = context
<1>. DEFINE q == Ask(S[m], S[m].ends, context)
<1>2. /\ q \in RestQuestions /\ S[m] \in Frame
      /\ q.ct = S[m].ct /\ q.off = S[m].off /\ q.ends = S[m].ends /\ q.context = context
  BY TopOf
<1>3. Gives(bytes, q, R[m])
  BY DEF Answered
<1>. HIDE DEF q
<1>4. R[m] = Answer("ok", q.context, Latest({q.off + MinLength[q.ct]} \cup {q.ends[k] : k \in DOMAIN q.ends}))
  BY <1>2, <1>3, RestKnown
<1>5. R[m] = Answer("ok", context, Whole(S, m))
  BY <1>2, <1>4 DEF Whole
<1>. QED  BY <1>5, WholeIs, AnswerTypes

LEMMA ChainEnds ==
  ASSUME NEW bytes \in Memory, NEW m \in Nat \ {0}, NEW S \in Stacks(m), NEW context \in Contexts,
         Chained(bytes, S, m, context), Len(S[m].ends) >= Len(Operands[S[m].ct])
  PROVE  m = 1 => Instruction(bytes).verdict = "ok" /\ Instruction(bytes).end = Whole(S, m)
<1>1. PICK R \in [1 .. m -> Decided] : Answered(bytes, S, m, context, R)
  BY DEF Chained
<1>2. R[m].verdict = "ok" /\ R[m].end = Whole(S, m)
  BY <1>1, TopAnswer
<1>3. m = 1 => R[m] = Instruction(bytes)
  BY <1>1 DEF Answered
<1>. QED  BY <1>2, <1>3

LEMMA ChainUp ==
  ASSUME NEW bytes \in Memory, NEW m \in Nat \ {0, 1}, NEW S \in Stacks(m), NEW context \in Contexts,
         Chained(bytes, S, m, context), Len(S[m].ends) >= Len(Operands[S[m].ct])
  PROVE  Chained(bytes, Finished(Cut(S, m), m - 1, Whole(S, m)), m - 1, context)
<1>. DEFINE T == Finished(Cut(S, m), m - 1, Whole(S, m))
<1>1. PICK R \in [1 .. m -> Decided] : Answered(bytes, S, m, context, R)
  BY DEF Chained
<1>2. R[m].verdict = "ok" /\ R[m].end = Whole(S, m) /\ R[m].context = context
  BY <1>1, TopAnswer
<1>3. m - 1 \in Nat \ {0} /\ Whole(S, m) \in Nat
  BY WholeIs
<1>4. Cut(S, m) \in Stacks(m - 1) /\ \A j \in 1 .. m - 1 : Cut(S, m)[j] = S[j]
  <2>1. \A j \in 1 .. m - 1 : S[j] \in Frame
    BY DEF Stacks
  <2>. QED  BY <2>1 DEF Cut, Stacks
<1>5. /\ T[m - 1] = [ct |-> S[m - 1].ct, off |-> S[m - 1].off, ends |-> Append(S[m - 1].ends, Whole(S, m))]
      /\ \A j \in 1 .. m - 1 - 1 : T[j] = S[j]
  <2>1. /\ T[m - 1] = [ct |-> Cut(S, m)[m - 1].ct, off |-> Cut(S, m)[m - 1].off,
                       ends |-> Append(Cut(S, m)[m - 1].ends, Whole(S, m))]
        /\ \A j \in 1 .. m - 1 - 1 : T[j] = Cut(S, m)[j]
    BY <1>3, <1>4, FinishedTyped
  <2>2. m - 1 \in 1 .. m - 1 /\ \A j \in 1 .. m - 1 - 1 : j \in 1 .. m - 1
    BY <1>3
  <2>3. Cut(S, m)[m - 1] = S[m - 1]
    BY <1>4, <2>2
  <2>. HIDE DEF T
  <2>. QED  BY <1>4, <2>1, <2>2, <2>3
<1>. HIDE DEF T
<1>. DEFINE Q == [j \in 1 .. m - 1 |-> R[j]]
<1>6. Q \in [1 .. m - 1 -> Decided] /\ \A j \in 1 .. m - 1 : Q[j] = R[j]
  OBVIOUS
<1>. HIDE DEF Q
<1>7. 1 \in 1 .. m - 1 /\ m - 1 \in 1 .. m - 1 /\ m - 1 + 1 = m
  OBVIOUS
<1>8. Gives(bytes, Ask(T[m - 1], T[m - 1].ends, context), Q[m - 1])
  <2>1. Gives(bytes, Ask(S[m - 1], Append(S[m - 1].ends, R[m - 1 + 1].end), R[m - 1 + 1].context), R[m - 1])
    BY <1>1, <1>2, <1>7 DEF Answered
  <2>2. Ask(T[m - 1], T[m - 1].ends, context) = Ask(S[m - 1], Append(S[m - 1].ends, Whole(S, m)), context)
    BY <1>5 DEF Ask
  <2>. QED  BY <1>2, <1>6, <1>7, <2>1, <2>2
<1>9. ASSUME NEW j \in 1 .. m - 1 - 1, Q[j + 1].verdict = "ok"
      PROVE  Gives(bytes, Ask(T[j], Append(T[j].ends, Q[j + 1].end), Q[j + 1].context), Q[j])
  <2>1. j \in 1 .. m - 1 /\ j + 1 \in 1 .. m - 1
    OBVIOUS
  <2>2. Q[j + 1] = R[j + 1] /\ T[j] = S[j] /\ Q[j] = R[j]
    BY <1>5, <1>6, <2>1
  <2>3. Gives(bytes, Ask(S[j], Append(S[j].ends, R[j + 1].end), R[j + 1].context), R[j])
    BY <1>1, <1>9, <2>1, <2>2 DEF Answered
  <2>. QED  BY <2>2, <2>3
<1>10. Q[1] = Instruction(bytes) /\ \A j \in 1 .. m - 1 : Q[j].verdict = "refused" => Q[1].verdict = "refused"
  <2>1. \A j \in 1 .. m - 1 : j \in 1 .. m
    OBVIOUS
  <2>. QED  BY <1>1, <1>6, <1>7, <2>1 DEF Answered
<1>11. Answered(bytes, T, m - 1, context, Q)
  BY <1>8, <1>9, <1>10 DEF Answered
<1>. QED  BY <1>6, <1>11 DEF Chained, T

(***************************************************************************)
(* Sleigh: the paths of the tree                                           *)
(***************************************************************************)

\* The path of the node that a walker with operand numbers c has at level j.
At(c, j) == SubSeq(c, 1, j - 1)

LEMMA Path ==
  ASSUME NEW c \in Seq(Nat), NEW j \in 1 .. Len(c)
  PROVE  /\ At(c, j) \in Seq(Nat) /\ Len(At(c, j)) = j - 1 /\ c[j] \in Nat
         /\ \A i \in 1 .. j - 1 : At(c, j)[i] = c[i]
<1>1. Len(c) \in Nat /\ \A i \in 1 .. Len(c) : c[i] \in Nat
  BY LenProperties, ElementOfSeq
<1>2. \A i \in 1 .. j - 1 : c[i] \in Nat
  BY <1>1
<1>3. 1 \in Int /\ j - 1 \in Int
  BY <1>1
<1>. DEFINE n == j - 1
<1>4. /\ SubSeq(c, 1, n) \in Seq(Nat)
      /\ Len(SubSeq(c, 1, n)) = IF 1 <= n THEN n - 1 + 1 ELSE 0
      /\ \A i \in 1 .. n - 1 + 1 : SubSeq(c, 1, n)[i] = c[1 + i - 1]
  <2>. HIDE DEF n
  <2>. QED  BY <1>2, <1>3, SubSeqProperties DEF n
<1>5. Len(SubSeq(c, 1, n)) = n /\ n \in Nat
  BY <1>1, <1>4
<1>6. \A i \in 1 .. n : SubSeq(c, 1, n)[i] = c[i]
  BY <1>4, <1>5
<1>. QED  BY <1>1, <1>4, <1>5, <1>6 DEF At

LEMMA PathSame ==
  ASSUME NEW c \in Seq(Nat), NEW d \in Seq(Nat), NEW j \in Nat, j \in 1 .. Len(c), j \in 1 .. Len(d),
         \A i \in 1 .. j - 1 : c[i] = d[i]
  PROVE  At(c, j) = At(d, j)
<1>1. /\ At(c, j) \in Seq(Nat) /\ Len(At(c, j)) = j - 1 /\ \A i \in 1 .. j - 1 : At(c, j)[i] = c[i]
      /\ At(d, j) \in Seq(Nat) /\ Len(At(d, j)) = j - 1 /\ \A i \in 1 .. j - 1 : At(d, j)[i] = d[i]
  BY Path
<1>. QED  BY <1>1, SeqEqual

LEMMA Child ==
  ASSUME NEW p \in Seq(Nat), NEW k \in Nat
  PROVE  /\ Append(p, k) \in Seq(Nat) /\ Len(Append(p, k)) = Len(p) + 1 /\ Len(p) \in Nat
         /\ \A q \in Seq(Nat), i \in Nat : Append(q, i) = Append(p, k) => q = p /\ i = k
BY AppendProperties, AppendInjective, LenProperties

LEMMA PathDown ==
  ASSUME NEW c \in Seq(Nat), NEW j \in Nat, j \in 1 .. Len(c), j + 1 \in 1 .. Len(c)
  PROVE  At(c, j + 1) = Append(At(c, j), c[j])
<1>1. /\ At(c, j) \in Seq(Nat) /\ Len(At(c, j)) = j - 1 /\ \A i \in 1 .. j - 1 : At(c, j)[i] = c[i]
      /\ c[j] \in Nat
  BY Path
<1>2. At(c, j + 1) \in Seq(Nat) /\ Len(At(c, j + 1)) = j /\ \A i \in 1 .. j : At(c, j + 1)[i] = c[i]
  <2>. DEFINE k == j + 1
  <2>1. k \in 1 .. Len(c) /\ k - 1 = j
    OBVIOUS
  <2>. HIDE DEF k
  <2>2. At(c, k) \in Seq(Nat) /\ Len(At(c, k)) = k - 1 /\ \A i \in 1 .. k - 1 : At(c, k)[i] = c[i]
    BY <2>1, Path
  <2>. QED  BY <2>1, <2>2 DEF k
<1>3. /\ Append(At(c, j), c[j]) \in Seq(Nat) /\ Len(Append(At(c, j), c[j])) = j
      /\ \A i \in 1 .. j - 1 : Append(At(c, j), c[j])[i] = c[i]
      /\ Append(At(c, j), c[j])[j] = c[j]
  <2>1. /\ Append(At(c, j), c[j]) \in Seq(Nat) /\ Len(Append(At(c, j), c[j])) = Len(At(c, j)) + 1
        /\ \A i \in 1 .. Len(At(c, j)) : Append(At(c, j), c[j])[i] = At(c, j)[i]
        /\ Append(At(c, j), c[j])[Len(At(c, j)) + 1] = c[j]
    BY <1>1, AppendProperties
  <2>2. Len(At(c, j)) + 1 = j
    BY <1>1
  <2>. QED  BY <1>1, <2>1, <2>2
<1>4. \A i \in 1 .. j : At(c, j + 1)[i] = Append(At(c, j), c[j])[i]
  <2>1. \A i \in 1 .. j : i = j \/ i \in 1 .. j - 1
    OBVIOUS
  <2>. QED  BY <1>2, <1>3, <2>1
<1>. QED  BY <1>2, <1>3, <1>4, SeqEqual

LEMMA FnSeq ==
  ASSUME NEW S, NEW n \in Nat, NEW f \in [1 .. n -> S]
  PROVE  f \in Seq(S) /\ Len(f) = n
<1>1. f \in Seq(S)
  BY SeqDef
<1>2. Len(f) \in Nat /\ 1 .. n = 1 .. Len(f)
  BY <1>1, LenProperties
<1>. QED  BY <1>1, <1>2

LEMMA AppendFn ==
  ASSUME NEW S, NEW n \in Nat, NEW f \in [1 .. n -> S], NEW g \in [1 .. n + 1 -> S], NEW e \in S,
         \A k \in 1 .. n : g[k] = f[k], g[n + 1] = e
  PROVE  g = Append(f, e)
<1>1. f \in Seq(S) /\ Len(f) = n
  BY FnSeq
<1>2. g \in Seq(S) /\ Len(g) = n + 1
  <2>1. n + 1 \in Nat
    OBVIOUS
  <2>. QED  BY <2>1, FnSeq
<1>3. /\ Append(f, e) \in Seq(S) /\ Len(Append(f, e)) = n + 1
      /\ \A i \in 1 .. n : Append(f, e)[i] = f[i]
      /\ Append(f, e)[n + 1] = e
  BY <1>1, AppendProperties
<1>4. \A i \in 1 .. n + 1 : i = n + 1 \/ i \in 1 .. n
  OBVIOUS
<1>5. \A i \in 1 .. n + 1 : g[i] = Append(f, e)[i]
  BY <1>3, <1>4
<1>. QED  BY <1>2, <1>3, <1>5, SeqEqual

Nodes == [ct : Constructors \cup {NoMatch, Leaf}, offset : Nat, length : Nat]

IsTree(t) ==
  /\ t = [p \in DOMAIN t |-> t[p]]
  /\ DOMAIN t \subseteq Seq(Nat)
  /\ \A p \in DOMAIN t : t[p] \in Nodes
  /\ \A p \in Seq(Nat), k \in Nat : Append(p, k) \in DOMAIN t => p \in DOMAIN t

EndOf(t, p) == t[p].offset + t[p].length

\* Operands of level j that are finished.
Ended(c, j) == IF j = Len(c) THEN c[j] ELSE c[j] - 1

\* What the walker has behind it and before it at level j.
Level(c, t, j) ==
  LET p == At(c, j) IN
  /\ p \in DOMAIN t /\ t[p].ct \in Constructors /\ t[p].offset \in Offsets
  /\ c[j] <= Len(Operands[t[p].ct])
  /\ j < Len(c) => c[j] > 0 /\ Operands[t[p].ct][c[j]].table # Leaf
  /\ \A k \in Nat : k > 0 /\ k <= Ended(c, j) =>
       /\ Append(p, k) \in DOMAIN t
       /\ LET sym == Operands[t[p].ct][k] IN
          sym.table = Leaf /\ sym.base = 0 => t[Append(p, k)] = Node(Leaf, t[p].offset + sym.rel, sym.len)
  /\ \A k \in Nat : k > c[j] => Append(p, k) \notin DOMAIN t

Walked(c, t) ==
  /\ c \in Seq(Nat) /\ Len(c) > 0
  /\ IsTree(t)
  /\ \A j \in 1 .. Len(c) : Level(c, t, j)

EndsAt(c, t, j) == [k \in 1 .. Ended(c, j) |-> EndOf(t, Append(At(c, j), k))]

View(c, t) == [j \in 1 .. Len(c) |->
                 [ct |-> t[At(c, j)].ct, off |-> t[At(c, j)].offset, ends |-> EndsAt(c, t, j)]]

LEMMA EndedIs ==
  ASSUME NEW c, NEW t, Walked(c, t), NEW j \in 1 .. Len(c)
  PROVE  Ended(c, j) \in Nat /\ c[j] \in Nat /\ Len(c) \in Nat /\ Ended(c, j) <= c[j]
         /\ (j < Len(c) => Ended(c, j) = c[j] - 1)
<1>1. Len(c) \in Nat /\ c[j] \in Nat
  BY LenProperties, ElementOfSeq DEF Walked
<1>2. j < Len(c) => c[j] > 0
  BY DEF Walked, Level
<1>. QED  BY <1>1, <1>2 DEF Ended

LEMMA ViewIs ==
  ASSUME NEW c, NEW t, Walked(c, t)
  PROVE  /\ View(c, t) \in Stacks(Len(c))
         /\ \A j \in 1 .. Len(c) :
              /\ View(c, t)[j] = [ct |-> t[At(c, j)].ct, off |-> t[At(c, j)].offset, ends |-> EndsAt(c, t, j)]
              /\ EndsAt(c, t, j) \in [1 .. Ended(c, j) -> Nat] /\ EndsAt(c, t, j) \in Seq(Nat)
              /\ Len(EndsAt(c, t, j)) = Ended(c, j)
<1>1. ASSUME NEW j \in 1 .. Len(c)
      PROVE  /\ t[At(c, j)].ct \in Constructors /\ t[At(c, j)].offset \in Nat
             /\ EndsAt(c, t, j) \in [1 .. Ended(c, j) -> Nat] /\ EndsAt(c, t, j) \in Seq(Nat)
             /\ Len(EndsAt(c, t, j)) = Ended(c, j)
  <2>1. t[At(c, j)].ct \in Constructors /\ t[At(c, j)].offset \in Nat
    BY SleighAssumption DEF Walked, Level, Offsets
  <2>2. Ended(c, j) \in Nat
    BY EndedIs
  <2>3. ASSUME NEW k \in 1 .. Ended(c, j) PROVE EndOf(t, Append(At(c, j), k)) \in Nat
    <3>1. k \in Nat /\ k > 0 /\ k <= Ended(c, j)
      BY <2>2
    <3>2. Append(At(c, j), k) \in DOMAIN t
      BY <3>1 DEF Walked, Level
    <3>3. t[Append(At(c, j), k)] \in Nodes
      BY <3>2 DEF Walked, IsTree
    <3>. QED  BY <3>3 DEF EndOf, Nodes
  <2>4. EndsAt(c, t, j) \in [1 .. Ended(c, j) -> Nat]
    BY <2>3 DEF EndsAt
  <2>. QED  BY <2>1, <2>2, <2>4, FnSeq
<1>2. \A j \in 1 .. Len(c) : [ct |-> t[At(c, j)].ct, off |-> t[At(c, j)].offset, ends |-> EndsAt(c, t, j)] \in Frame
  BY <1>1 DEF Frame
<1>3. View(c, t) \in Stacks(Len(c))
  BY <1>2 DEF View, Stacks
<1>. QED  BY <1>1, <1>3 DEF View

Grown(t, p, node) == [x \in DOMAIN t \cup {p} |-> IF x = p THEN node ELSE t[x]]
NewPath(c) == Append(At(c, Len(c)), c[Len(c)] + 1)
Begin1(c) == [c EXCEPT ![Len(c)] = c[Len(c)] + 1]

LEMMA Growing ==
  ASSUME NEW c, NEW t, Walked(c, t), NEW node \in Nodes
  PROVE  LET p == NewPath(c)
             u == Grown(t, p, node)
         IN  /\ p \in Seq(Nat) /\ p \notin DOMAIN t /\ DOMAIN u = DOMAIN t \cup {p}
             /\ IsTree(u) /\ u[p] = node /\ \A x \in DOMAIN t : u[x] = t[x]
             /\ \A k \in Nat : Append(p, k) \notin DOMAIN u
             /\ \A j \in 1 .. Len(c), k \in Nat :
                  k > c[j] /\ (j = Len(c) => k > c[j] + 1) => Append(At(c, j), k) \notin DOMAIN u
<1>. DEFINE m == Len(c)
            p == NewPath(c)
            u == Grown(t, p, node)
            top == At(c, m)
<1>1. c \in Seq(Nat) /\ m \in 1 .. m /\ m \in Nat
  BY LenProperties DEF Walked
<1>2. top \in Seq(Nat) /\ Len(top) = m - 1 /\ c[m] \in Nat /\ c[m] + 1 \in Nat
  <2>1. ASSUME NEW j \in 1 .. Len(c)
        PROVE  At(c, j) \in Seq(Nat) /\ Len(At(c, j)) = j - 1 /\ c[j] \in Nat
    BY <1>1, Path
  <2>2. m \in 1 .. Len(c)
    BY <1>1
  <2>. HIDE DEF m
  <2>3. At(c, m) \in Seq(Nat) /\ Len(At(c, m)) = m - 1 /\ c[m] \in Nat
    BY <2>1, <2>2
  <2>. QED  BY <2>3
<1>3. p = Append(top, c[m] + 1)
  BY DEF NewPath
<1>4. top \in DOMAIN t /\ \A k \in Nat : k > c[m] => Append(top, k) \notin DOMAIN t
  BY <1>1 DEF Walked, Level
<1>5. IsTree(t)
  BY DEF Walked
<1>. HIDE DEF m, p, top
<1>6. p \in Seq(Nat) /\ Len(p) = m /\ p \notin DOMAIN t
  BY <1>1, <1>2, <1>3, <1>4, Child
<1>7. DOMAIN u = DOMAIN t \cup {p} /\ u[p] = node /\ (\A x \in DOMAIN t : u[x] = t[x])
      /\ u = [x \in DOMAIN u |-> u[x]]
  BY <1>6 DEF Grown
<1>. HIDE DEF u
<1>8. ASSUME NEW q \in Seq(Nat), NEW k \in Nat, Append(q, k) \in DOMAIN u PROVE q \in DOMAIN u
  <2>1. CASE Append(q, k) = p
    <3>1. q = top
      BY <1>2, <1>3, <2>1, Child
    <3>. QED  BY <1>4, <1>7, <3>1
  <2>2. CASE Append(q, k) # p
    BY <1>5, <1>7, <1>8, <2>2 DEF IsTree
  <2>. QED  BY <2>1, <2>2
<1>9. IsTree(u)
  <2>1. DOMAIN t \subseteq Seq(Nat) /\ \A x \in DOMAIN t : t[x] \in Nodes
    BY <1>5 DEF IsTree
  <2>2. DOMAIN u \subseteq Seq(Nat) /\ \A x \in DOMAIN u : u[x] \in Nodes
    BY <1>6, <1>7, <2>1
  <2>. QED  BY <1>7, <1>8, <2>2 DEF IsTree
<1>10. ASSUME NEW k \in Nat PROVE Append(p, k) \notin DOMAIN u
  <2>1. Append(p, k) # p
    BY <1>1, <1>6, Child
  <2>2. Append(p, k) \notin DOMAIN t
    BY <1>5, <1>6 DEF IsTree
  <2>. QED  BY <1>7, <2>1, <2>2
<1>11. ASSUME NEW j \in 1 .. m, NEW k \in Nat, k > c[j], j = m => k > c[j] + 1
       PROVE  Append(At(c, j), k) \notin DOMAIN u
  <2>1. Append(At(c, j), k) \notin DOMAIN t
    BY <1>11 DEF Walked, Level, m
  <2>2. At(c, j) \in Seq(Nat) /\ Len(At(c, j)) = j - 1
    BY <1>1, Path DEF m
  <2>3. Append(At(c, j), k) # p
    <3>1. CASE j = m
      <4>1. k # c[m] + 1
        BY <1>2, <1>11, <3>1
      <4>. QED  BY <1>2, <1>3, <2>2, <4>1, Child
    <3>2. CASE j # m
      <4>1. Len(Append(At(c, j), k)) = j
        BY <1>1, <2>2, Child
      <4>. QED  BY <1>6, <3>2, <4>1
    <3>. QED  BY <3>1, <3>2
  <2>. QED  BY <1>7, <2>1, <2>3
<1>. QED  BY <1>6, <1>7, <1>9, <1>10, <1>11 DEF m, p, u

\* The walker has begun the next operand.
LEMMA Beginning ==
  ASSUME NEW c \in Seq(Nat), Len(c) > 0
  PROVE  LET m == Len(c) IN
         /\ Begin1(c) \in Seq(Nat) /\ Len(Begin1(c)) = m
         /\ Begin1(c)[m] = c[m] + 1 /\ (\A j \in 1 .. m - 1 : Begin1(c)[j] = c[j])
         /\ \A j \in 1 .. m : At(Begin1(c), j) = At(c, j)
<1>. DEFINE m == Len(c)
            d == Begin1(c)
<1>1. m \in 1 .. m /\ m \in Nat /\ c[m] \in Nat
  BY LenProperties, ElementOfSeq
<1>2. c[m] + 1 \in Nat
  BY <1>1
<1>3. d = [c EXCEPT ![m] = c[m] + 1]
  BY DEF Begin1
<1>4. /\ d \in Seq(Nat) /\ Len(d) = m
      /\ \A j \in 1 .. m : d[j] = IF j = m THEN c[m] + 1 ELSE c[j]
  <2>. DEFINE e == c[m] + 1
  <2>1. d = [c EXCEPT ![m] = e] /\ e \in Nat
    BY <1>2, <1>3
  <2>. HIDE DEF d, e
  <2>2. /\ d \in Seq(Nat) /\ Len(d) = m
        /\ \A j \in 1 .. m : d[j] = IF j = m THEN e ELSE c[j]
    BY <1>1, <2>1, ExceptSeq
  <2>. QED  BY <2>2 DEF e
<1>. HIDE DEF d
<1>5. d[m] = c[m] + 1 /\ \A j \in 1 .. m - 1 : d[j] = c[j]
  BY <1>1, <1>4
<1>6. ASSUME NEW j \in 1 .. m PROVE At(d, j) = At(c, j)
  <2>1. \A i \in 1 .. j - 1 : i \in 1 .. m - 1
    BY <1>1
  <2>2. \A i \in 1 .. j - 1 : d[i] = c[i]
    BY <1>5, <2>1
  <2>3. j \in Nat /\ j \in 1 .. Len(c) /\ j \in 1 .. Len(d) /\ d \in Seq(Nat)
    BY <1>1, <1>4
  <2>. QED  BY <2>2, <2>3, PathSame
<1>. QED  BY <1>4, <1>5, <1>6 DEF d

LEMMA LeafStep ==
  ASSUME NEW c, NEW t, Walked(c, t),
         NEW node \in Nodes,
         c[Len(c)] + 1 <= Len(Operands[t[At(c, Len(c))].ct]),
         LET sym == Operands[t[At(c, Len(c))].ct][c[Len(c)] + 1] IN
           sym.table = Leaf /\ sym.base = 0 =>
             node = Node(Leaf, t[At(c, Len(c))].offset + sym.rel, sym.len)
  PROVE  LET u == Grown(t, NewPath(c), node) IN
         /\ Walked(Begin1(c), u)
         /\ View(Begin1(c), u) = Finished(View(c, t), Len(c), node.offset + node.length)
<1>. DEFINE m == Len(c)
            p == NewPath(c)
            u == Grown(t, p, node)
            d == Begin1(c)
<1>1. c \in Seq(Nat) /\ m \in 1 .. m /\ m \in Nat /\ m > 0 /\ c[m] \in Nat
  BY LenProperties, ElementOfSeq DEF Walked
<1>2. /\ p \in Seq(Nat) /\ p \notin DOMAIN t /\ DOMAIN u = DOMAIN t \cup {p}
      /\ IsTree(u) /\ u[p] = node /\ \A x \in DOMAIN t : u[x] = t[x]
      /\ \A k \in Nat : Append(p, k) \notin DOMAIN u
      /\ \A j \in 1 .. m, k \in Nat :
           k > c[j] /\ (j = m => k > c[j] + 1) => Append(At(c, j), k) \notin DOMAIN u
  BY Growing, Zenon
<1>3. /\ d \in Seq(Nat) /\ Len(d) = m
      /\ d[m] = c[m] + 1 /\ (\A j \in 1 .. m - 1 : d[j] = c[j])
      /\ \A j \in 1 .. m : At(d, j) = At(c, j)
  BY <1>1, Beginning
<1>4. p = Append(At(c, m), c[m] + 1)
  BY DEF NewPath
<1>5. Ended(c, m) = c[m] /\ Ended(d, m) = c[m] + 1 /\ \A j \in 1 .. m - 1 : Ended(d, j) = Ended(c, j)
  <2>. HIDE DEF d
  <2>. QED  BY <1>1, <1>3 DEF Ended
<1>. HIDE DEF d, u, p
<1>6. ASSUME NEW j \in 1 .. m PROVE Level(c, t, j) /\ At(c, j) \in DOMAIN t
  BY DEF Walked, Level
<1>7. ASSUME NEW j \in 1 .. m PROVE Level(d, u, j)
  <2>. DEFINE q == At(c, j)
  <2>1. At(d, j) = q /\ q \in DOMAIN t /\ u[q] = t[q] /\ q \in DOMAIN u
    BY <1>2, <1>3, <1>6
  <2>2. t[q].ct \in Constructors /\ t[q].offset \in Offsets /\ c[j] <= Len(Operands[t[q].ct])
    BY <1>6 DEF Level
  <2>3. d[j] <= Len(Operands[t[q].ct]) /\ \A k \in Nat : k > d[j] => Append(q, k) \notin DOMAIN u
    <3>1. CASE j = m
      <4>1. d[j] = c[m] + 1 /\ d[j] <= Len(Operands[t[q].ct])
        BY <1>3, <3>1
      <4>2. ASSUME NEW k \in Nat, k > d[j] PROVE Append(q, k) \notin DOMAIN u
        <5>1. k > c[j] /\ k > c[j] + 1
          BY <1>1, <3>1, <4>1, <4>2
        <5>. QED  BY <1>2, <5>1
      <4>. QED  BY <4>1, <4>2
    <3>2. CASE j # m
      <4>1. j \in 1 .. m - 1 /\ d[j] = c[j]
        BY <1>1, <1>3, <3>2
      <4>. QED  BY <1>2, <2>2, <3>2, <4>1
    <3>. QED  BY <3>1, <3>2
  <2>4. j < m => d[j] > 0 /\ Operands[t[q].ct][d[j]].table # Leaf
    <3>1. j < m => c[j] > 0 /\ Operands[t[q].ct][c[j]].table # Leaf
      BY <1>6 DEF Level
    <3>2. j < m => d[j] = c[j]
      BY <1>1, <1>3
    <3>. QED  BY <3>1, <3>2
  <2>5. ASSUME NEW k \in Nat, k > 0, k <= Ended(d, j)
        PROVE  /\ Append(q, k) \in DOMAIN u
               /\ LET sym == Operands[t[q].ct][k] IN
                  sym.table = Leaf /\ sym.base = 0 => u[Append(q, k)] = Node(Leaf, t[q].offset + sym.rel, sym.len)
    <3>1. CASE k <= Ended(c, j)
      <4>1. /\ Append(q, k) \in DOMAIN t
            /\ LET sym == Operands[t[q].ct][k] IN
               sym.table = Leaf /\ sym.base = 0 => t[Append(q, k)] = Node(Leaf, t[q].offset + sym.rel, sym.len)
        BY <1>6, <2>5, <3>1 DEF Level
      <4>2. u[Append(q, k)] = t[Append(q, k)] /\ Append(q, k) \in DOMAIN u
        BY <1>2, <4>1
      <4>. QED  BY <4>1, <4>2
    <3>2. CASE ~(k <= Ended(c, j))
      <4>1. j = m /\ k = c[m] + 1
        <5>1. j # m => j \in 1 .. m - 1
          BY <1>1
        <5>2. j = m
          BY <1>5, <2>5, <3>2, <5>1
        <5>. QED  BY <1>1, <1>5, <2>5, <3>2, <5>2
      <4>2. Append(q, k) = p
        BY <1>4, <4>1
      <4>. QED  BY <1>2, <4>1, <4>2
    <3>. QED  BY <3>1, <3>2
  <2>. HIDE DEF q
  <2>. QED  BY <1>3, <2>1, <2>2, <2>3, <2>4, <2>5 DEF Level
<1>8. Walked(d, u)
  BY <1>1, <1>2, <1>3, <1>7 DEF Walked
<1>9. View(d, u) = Finished(View(c, t), m, node.offset + node.length)
  <2>. DEFINE V == View(c, t)
              W == View(d, u)
              e == node.offset + node.length
              F == Finished(V, m, e)
  <2>1. /\ V \in Stacks(m) /\ W \in Stacks(m) /\ e \in Nat /\ m \in Nat \ {0}
        /\ \A j \in 1 .. m :
             V[j] = [ct |-> t[At(c, j)].ct, off |-> t[At(c, j)].offset, ends |-> EndsAt(c, t, j)]
        /\ \A j \in 1 .. m :
             W[j] = [ct |-> u[At(d, j)].ct, off |-> u[At(d, j)].offset, ends |-> EndsAt(d, u, j)]
    BY <1>1, <1>3, <1>8, ViewIs DEF Nodes
  <2>2. /\ F \in Stacks(m)
        /\ F[m] = [ct |-> V[m].ct, off |-> V[m].off, ends |-> Append(V[m].ends, e)]
        /\ \A j \in 1 .. m - 1 : F[j] = V[j]
    <3>. HIDE DEF V, e
    <3>. QED  BY <2>1, FinishedTyped
  <2>3. ASSUME NEW j \in 1 .. m, NEW k \in Nat, k > 0, k <= Ended(c, j)
        PROVE  EndOf(u, Append(At(d, j), k)) = EndOf(t, Append(At(c, j), k))
    <3>1. Append(At(c, j), k) \in DOMAIN t /\ At(d, j) = At(c, j)
      BY <1>3, <1>6, <2>3 DEF Level
    <3>. QED  BY <1>2, <3>1 DEF EndOf
  <2>4. ASSUME NEW j \in 1 .. m - 1 PROVE EndsAt(d, u, j) = EndsAt(c, t, j)
    <3>1. \A k \in 1 .. Ended(c, j) : EndOf(u, Append(At(d, j), k)) = EndOf(t, Append(At(c, j), k))
      <4>1. j \in 1 .. m /\ Ended(c, j) \in Nat
        BY <1>1, EndedIs
      <4>. QED  BY <2>3, <4>1
    <3>. QED  BY <1>5, <3>1 DEF EndsAt
  <2>5. EndsAt(d, u, m) = Append(EndsAt(c, t, m), e)
    <3>1. /\ EndsAt(c, t, m) \in [1 .. c[m] -> Nat]
          /\ EndsAt(d, u, m) \in [1 .. c[m] + 1 -> Nat]
      <4>1. m \in 1 .. Len(c) /\ m \in 1 .. Len(d)
        BY <1>1, <1>3
      <4>2. EndsAt(c, t, m) \in [1 .. Ended(c, m) -> Nat]
        BY <4>1, ViewIs, Zenon
      <4>3. EndsAt(d, u, m) \in [1 .. Ended(d, m) -> Nat]
        BY <1>8, <4>1, ViewIs, Zenon
      <4>. QED  BY <1>5, <4>2, <4>3
    <3>2. \A k \in 1 .. c[m] : EndsAt(d, u, m)[k] = EndsAt(c, t, m)[k]
      <4>1. \A k \in 1 .. c[m] : EndOf(u, Append(At(d, m), k)) = EndOf(t, Append(At(c, m), k))
        BY <1>1, <1>5, <2>3
      <4>2. \A k \in 1 .. c[m] : k \in 1 .. c[m] + 1
        BY <1>1
      <4>. QED  BY <1>5, <4>1, <4>2 DEF EndsAt
    <3>3. EndsAt(d, u, m)[c[m] + 1] = e
      <4>1. c[m] + 1 \in 1 .. c[m] + 1
        BY <1>1
      <4>2. EndOf(u, Append(At(d, m), c[m] + 1)) = e
        BY <1>1, <1>2, <1>3, <1>4 DEF EndOf
      <4>. QED  BY <1>5, <4>1, <4>2 DEF EndsAt
    <3>. DEFINE n == c[m]
                f == EndsAt(c, t, m)
                g == EndsAt(d, u, m)
    <3>4. n \in Nat /\ f \in [1 .. n -> Nat] /\ g \in [1 .. n + 1 -> Nat] /\ e \in Nat
          /\ (\A k \in 1 .. n : g[k] = f[k]) /\ g[n + 1] = e
      BY <1>1, <2>1, <3>1, <3>2, <3>3
    <3>. HIDE DEF n, f, g, e
    <3>5. g = Append(f, e)
      BY <3>4, AppendFn
    <3>. QED  BY <3>5 DEF f, g
  <2>6. ASSUME NEW j \in 1 .. m
        PROVE  u[At(d, j)].ct = t[At(c, j)].ct /\ u[At(d, j)].offset = t[At(c, j)].offset
    BY <1>2, <1>3, <1>6
  <2>. HIDE DEF V, W, e, F
  <2>7. ASSUME NEW j \in 1 .. m PROVE W[j] = F[j]
    <3>1. CASE j = m
      <4>1. V[m].ct = t[At(c, m)].ct /\ V[m].off = t[At(c, m)].offset /\ V[m].ends = EndsAt(c, t, m)
        <5>1. V[m] = [ct |-> t[At(c, m)].ct, off |-> t[At(c, m)].offset, ends |-> EndsAt(c, t, m)]
          BY <1>1, <2>1
        <5>. QED  BY <5>1
      <4>2. F[m] = [ct |-> t[At(c, m)].ct, off |-> t[At(c, m)].offset, ends |-> Append(EndsAt(c, t, m), e)]
        BY <2>2, <4>1
      <4>3. W[m] = [ct |-> t[At(c, m)].ct, off |-> t[At(c, m)].offset, ends |-> EndsAt(d, u, m)]
        BY <1>1, <2>1, <2>6
      <4>. QED  BY <2>5, <3>1, <4>2, <4>3
    <3>2. CASE j # m
      <4>1. j \in 1 .. m - 1
        BY <1>1, <3>2
      <4>. QED  BY <2>1, <2>2, <2>4, <2>6, <4>1
    <3>. QED  BY <3>1, <3>2
  <2>8. W = F
    <3>1. W \in [1 .. m -> Frame] /\ F \in [1 .. m -> Frame]
      BY <2>1, <2>2 DEF Stacks
    <3>. QED  BY <2>7, <3>1
  <2>. QED  BY <2>8 DEF V, W, e, F
<1>. QED  BY <1>8, <1>9 DEF d, u, p

LEMMA DownStep ==
  ASSUME NEW c, NEW t, Walked(c, t),
         NEW node \in Nodes, node.ct \in Constructors, node.offset \in Offsets,
         c[Len(c)] + 1 <= Len(Operands[t[At(c, Len(c))].ct]),
         Operands[t[At(c, Len(c))].ct][c[Len(c)] + 1].table # Leaf
  PROVE  LET u == Grown(t, NewPath(c), node)
             d == Append(Begin1(c), 0)
         IN  /\ Walked(d, u) /\ Len(d) = Len(c) + 1
             /\ View(d, u) = Pushed(View(c, t), Len(c), [ct |-> node.ct, off |-> node.offset, ends |-> <<>>])
<1>. DEFINE m == Len(c)
            p == NewPath(c)
            u == Grown(t, p, node)
            b == Begin1(c)
            d == Append(b, 0)
            f == [ct |-> node.ct, off |-> node.offset, ends |-> <<>>]
<1>1. c \in Seq(Nat) /\ m \in 1 .. m /\ m \in Nat /\ m > 0 /\ c[m] \in Nat
  BY LenProperties, ElementOfSeq DEF Walked
<1>2. /\ p \in Seq(Nat) /\ p \notin DOMAIN t /\ DOMAIN u = DOMAIN t \cup {p}
      /\ IsTree(u) /\ u[p] = node /\ \A x \in DOMAIN t : u[x] = t[x]
      /\ \A k \in Nat : Append(p, k) \notin DOMAIN u
      /\ \A j \in 1 .. m, k \in Nat :
           k > c[j] /\ (j = m => k > c[j] + 1) => Append(At(c, j), k) \notin DOMAIN u
  BY Growing, Zenon
<1>3. /\ b \in Seq(Nat) /\ Len(b) = m
      /\ b[m] = c[m] + 1 /\ (\A j \in 1 .. m - 1 : b[j] = c[j])
      /\ \A j \in 1 .. m : At(b, j) = At(c, j)
  BY <1>1, Beginning
<1>4. p = Append(At(c, m), c[m] + 1)
  BY DEF NewPath
<1>. HIDE DEF b
<1>5. /\ d \in Seq(Nat) /\ Len(d) = m + 1
      /\ d[m + 1] = 0 /\ d[m] = c[m] + 1 /\ (\A j \in 1 .. m - 1 : d[j] = c[j])
  <2>1. /\ d \in Seq(Nat) /\ Len(d) = Len(b) + 1
        /\ (\A i \in 1 .. Len(b) : d[i] = b[i]) /\ d[Len(b) + 1] = 0
    BY <1>3, AppendProperties
  <2>2. m \in 1 .. m /\ \A j \in 1 .. m - 1 : j \in 1 .. m
    BY <1>1
  <2>. HIDE DEF d
  <2>. QED  BY <1>3, <2>1, <2>2
<1>. HIDE DEF d
<1>6. \A j \in 1 .. m : At(d, j) = At(c, j)
  <2>1. ASSUME NEW j \in 1 .. m PROVE At(d, j) = At(c, j)
    <3>1. j \in Nat /\ j \in 1 .. Len(d) /\ j \in 1 .. Len(c)
      BY <1>1, <1>5
    <3>2. \A i \in 1 .. j - 1 : d[i] = c[i]
      <4>1. \A i \in 1 .. j - 1 : i \in 1 .. m - 1
        BY <1>1
      <4>. QED  BY <1>5, <4>1
    <3>. QED  BY <1>1, <1>5, <3>1, <3>2, PathSame
  <2>. QED  BY <2>1
<1>7. At(d, m + 1) = p
  <2>1. m \in Nat /\ m \in 1 .. Len(d) /\ m + 1 \in 1 .. Len(d)
    BY <1>1, <1>5
  <2>. DEFINE n == m
  <2>2. n \in Nat /\ n \in 1 .. Len(d) /\ n + 1 \in 1 .. Len(d)
    BY <2>1
  <2>. HIDE DEF n
  <2>3. At(d, n + 1) = Append(At(d, n), d[n])
    BY <1>5, <2>2, PathDown
  <2>. QED  BY <1>1, <1>4, <1>5, <1>6, <2>3 DEF n
<1>8. /\ Ended(d, m + 1) = 0 /\ Ended(c, m) = c[m]
      /\ \A j \in 1 .. m : Ended(d, j) = Ended(c, j)
  <2>1. Ended(d, m + 1) = 0 /\ Ended(c, m) = c[m] /\ Ended(d, m) = c[m]
    BY <1>1, <1>5 DEF Ended
  <2>2. ASSUME NEW j \in 1 .. m - 1 PROVE Ended(d, j) = Ended(c, j)
    <3>1. j # m /\ j # Len(d) /\ d[j] = c[j]
      BY <1>1, <1>5
    <3>. QED  BY <3>1 DEF Ended
  <2>3. \A j \in 1 .. m : j = m \/ j \in 1 .. m - 1
    BY <1>1
  <2>. QED  BY <2>1, <2>2, <2>3
<1>. HIDE DEF u, p
<1>9. ASSUME NEW j \in 1 .. m PROVE Level(c, t, j) /\ At(c, j) \in DOMAIN t
  BY DEF Walked, Level
<1>10. ASSUME NEW j \in 1 .. m PROVE Level(d, u, j)
  <2>. DEFINE q == At(c, j)
  <2>1. At(d, j) = q /\ q \in DOMAIN t /\ u[q] = t[q] /\ q \in DOMAIN u
    BY <1>2, <1>6, <1>9
  <2>2. t[q].ct \in Constructors /\ t[q].offset \in Offsets /\ c[j] <= Len(Operands[t[q].ct])
    BY <1>9 DEF Level
  <2>3. d[j] <= Len(Operands[t[q].ct]) /\ \A k \in Nat : k > d[j] => Append(q, k) \notin DOMAIN u
    <3>1. CASE j = m
      <4>1. d[j] = c[m] + 1 /\ d[j] <= Len(Operands[t[q].ct])
        BY <1>5, <3>1
      <4>2. ASSUME NEW k \in Nat, k > d[j] PROVE Append(q, k) \notin DOMAIN u
        <5>1. k > c[j] /\ k > c[j] + 1
          BY <1>1, <3>1, <4>1, <4>2
        <5>. QED  BY <1>2, <5>1
      <4>. QED  BY <4>1, <4>2
    <3>2. CASE j # m
      <4>1. j \in 1 .. m - 1 /\ d[j] = c[j]
        BY <1>1, <1>5, <3>2
      <4>. QED  BY <1>2, <2>2, <3>2, <4>1
    <3>. QED  BY <3>1, <3>2
  <2>4. d[j] > 0 /\ Operands[t[q].ct][d[j]].table # Leaf
    <3>1. CASE j = m
      BY <1>1, <1>5, <3>1
    <3>2. CASE j # m
      <4>1. j \in 1 .. m - 1 /\ d[j] = c[j] /\ j < m
        <5>1. j \in 1 .. m - 1 /\ j < m
          BY <1>1, <3>2
        <5>. QED  BY <1>5, <5>1
      <4>. QED  BY <1>9, <4>1 DEF Level
    <3>. QED  BY <3>1, <3>2
  <2>5. ASSUME NEW k \in Nat, k > 0, k <= Ended(d, j)
        PROVE  /\ Append(q, k) \in DOMAIN u
               /\ LET sym == Operands[t[q].ct][k] IN
                  sym.table = Leaf /\ sym.base = 0 => u[Append(q, k)] = Node(Leaf, t[q].offset + sym.rel, sym.len)
    <3>1. k <= Ended(c, j)
      BY <1>8, <2>5
    <3>2. /\ Append(q, k) \in DOMAIN t
          /\ LET sym == Operands[t[q].ct][k] IN
             sym.table = Leaf /\ sym.base = 0 => t[Append(q, k)] = Node(Leaf, t[q].offset + sym.rel, sym.len)
      BY <1>9, <2>5, <3>1 DEF Level
    <3>3. u[Append(q, k)] = t[Append(q, k)] /\ Append(q, k) \in DOMAIN u
      BY <1>2, <3>2
    <3>. QED  BY <3>2, <3>3
  <2>. HIDE DEF q
  <2>. QED  BY <2>1, <2>2, <2>3, <2>4, <2>5 DEF Level
<1>11. Level(d, u, m + 1)
  <2>1. p \in DOMAIN u /\ u[p] = node /\ Len(Operands[node.ct]) \in Nat
    BY <1>2, OperandTypes
  <2>2. ~(m + 1 < Len(d)) /\ ~\E k \in Nat : k > 0 /\ k <= Ended(d, m + 1)
    BY <1>1, <1>5, <1>8
  <2>3. d[m + 1] <= Len(Operands[u[p].ct])
    BY <1>5, <2>1
  <2>. QED  BY <1>2, <1>7, <2>1, <2>2, <2>3 DEF Level
<1>12. Walked(d, u)
  <2>1. \A j \in 1 .. m + 1 : j = m + 1 \/ j \in 1 .. m
    BY <1>1
  <2>2. Len(d) > 0
    BY <1>1, <1>5
  <2>. QED  BY <1>2, <1>5, <1>10, <1>11, <2>1, <2>2 DEF Walked
<1>13. View(d, u) = Pushed(View(c, t), m, f)
  <2>. DEFINE V == View(c, t)
              W == View(d, u)
              F == Pushed(V, m, f)
  <2>1. /\ V \in [1 .. m -> Frame] /\ W \in [1 .. m + 1 -> Frame]
        /\ \A j \in 1 .. m :
             V[j] = [ct |-> t[At(c, j)].ct, off |-> t[At(c, j)].offset, ends |-> EndsAt(c, t, j)]
        /\ \A j \in 1 .. m + 1 :
             W[j] = [ct |-> u[At(d, j)].ct, off |-> u[At(d, j)].offset, ends |-> EndsAt(d, u, j)]
    BY <1>5, <1>12, ViewIs DEF Stacks
  <2>2. ASSUME NEW j \in 1 .. m PROVE EndsAt(d, u, j) = EndsAt(c, t, j)
    <3>1. ASSUME NEW k \in 1 .. Ended(c, j)
          PROVE  EndOf(u, Append(At(d, j), k)) = EndOf(t, Append(At(c, j), k))
      <4>1. k \in Nat /\ k > 0 /\ k <= Ended(c, j)
        BY EndedIs
      <4>2. Append(At(c, j), k) \in DOMAIN t /\ At(d, j) = At(c, j)
        BY <1>6, <1>9, <4>1 DEF Level
      <4>. QED  BY <1>2, <4>2 DEF EndOf
    <3>. QED  BY <1>8, <3>1 DEF EndsAt
  <2>3. EndsAt(d, u, m + 1) = <<>>
    <3>1. EndsAt(d, u, m + 1) \in Seq(Nat) /\ Len(EndsAt(d, u, m + 1)) = 0
      <4>1. m + 1 \in 1 .. Len(d)
        BY <1>1, <1>5
      <4>. QED  BY <1>8, <1>12, <4>1, ViewIs
    <3>. QED  BY <3>1, EmptySeq
  <2>4. ASSUME NEW j \in 1 .. m PROVE u[At(d, j)] = t[At(c, j)]
    BY <1>2, <1>6, <1>9
  <2>5. m + 1 \in 1 .. m + 1 /\ \A j \in 1 .. m : j \in 1 .. m + 1 /\ j # m + 1
    BY <1>1
  <2>. HIDE DEF V, W, f
  <2>6. F[m + 1] = f /\ (\A j \in 1 .. m : F[j] = V[j]) /\ F = [j \in 1 .. m + 1 |-> F[j]]
    BY <2>5 DEF Pushed
  <2>. HIDE DEF F
  <2>7. W[m + 1] = f
    <3>1. W[m + 1] = [ct |-> node.ct, off |-> node.offset, ends |-> <<>>]
      BY <1>2, <1>7, <2>1, <2>3, <2>5
    <3>. QED  BY <3>1 DEF f
  <2>8. ASSUME NEW j \in 1 .. m PROVE W[j] = V[j]
    BY <2>1, <2>2, <2>4, <2>5
  <2>9. ASSUME NEW j \in 1 .. m + 1 PROVE W[j] = F[j]
    <3>1. j = m + 1 \/ j \in 1 .. m
      BY <1>1
    <3>. QED  BY <2>6, <2>7, <2>8, <3>1
  <2>10. W = F
    BY <2>1, <2>6, <2>9
  <2>. QED  BY <2>10 DEF V, W, F
<1>. QED  BY <1>5, <1>12, <1>13 DEF d, u, p, b

\* A constructor is finished, and its length is known.
Closed(t, p, length) == [t EXCEPT ![p].length = length]

LEMMA Closing ==
  ASSUME NEW t, IsTree(t), NEW p \in DOMAIN t, NEW length \in Nat
  PROVE  LET u == Closed(t, p, length) IN
         /\ IsTree(u) /\ DOMAIN u = DOMAIN t
         /\ \A x \in DOMAIN t : /\ u[x].ct = t[x].ct /\ u[x].offset = t[x].offset
                                /\ x # p => u[x] = t[x]
         /\ u[p].length = length
<1>. DEFINE node == [t[p] EXCEPT !.length = length]
            u == Closed(t, p, length)
<1>1. t[p] \in Nodes /\ \A x \in DOMAIN t : t[x] \in Nodes
  BY DEF IsTree
<1>2. node \in Nodes /\ node.ct = t[p].ct /\ node.offset = t[p].offset /\ node.length = length
  BY <1>1 DEF Nodes
<1>3. u = [t EXCEPT ![p] = node]
  BY DEF Closed
<1>. HIDE DEF node, u
<1>4. DOMAIN u = DOMAIN t /\ u[p] = node /\ (\A x \in DOMAIN t : x # p => u[x] = t[x])
      /\ u = [x \in DOMAIN u |-> u[x]]
  BY <1>3
<1>5. \A x \in DOMAIN u : u[x] \in Nodes
  BY <1>1, <1>2, <1>4
<1>6. IsTree(u)
  BY <1>4, <1>5 DEF IsTree
<1>7. \A x \in DOMAIN t : u[x].ct = t[x].ct /\ u[x].offset = t[x].offset
  BY <1>2, <1>4
<1>8. u[p].length = length
  BY <1>2, <1>4
<1>. QED  BY <1>4, <1>6, <1>7, <1>8 DEF u

LEMMA UpStep ==
  ASSUME NEW c, NEW t, Walked(c, t), Len(c) > 1, NEW length \in Nat
  PROVE  LET p == At(c, Len(c))
             u == Closed(t, p, length)
         IN  /\ Walked(p, u) /\ Len(p) = Len(c) - 1
             /\ View(p, u) = Finished(Cut(View(c, t), Len(c)), Len(c) - 1, t[p].offset + length)
<1>. DEFINE m == Len(c)
            n == Len(c) - 1
            p == At(c, m)
            u == Closed(t, p, length)
<1>1. c \in Seq(Nat) /\ m \in Nat /\ n \in Nat /\ n > 0 /\ m = n + 1 /\ Len(c) = n + 1 /\ n \in 1 .. n
      /\ (\A j \in 1 .. n : j \in 1 .. Len(c) /\ j < Len(c)) /\ m \in 1 .. Len(c)
  BY LenProperties DEF Walked
<1>2. p \in Seq(Nat) /\ Len(p) = n /\ \A j \in 1 .. n : p[j] = c[j]
  <2>1. ASSUME NEW j \in 1 .. Len(c)
        PROVE  At(c, j) \in Seq(Nat) /\ Len(At(c, j)) = j - 1 /\ \A i \in 1 .. j - 1 : At(c, j)[i] = c[i]
    BY <1>1, Path
  <2>. HIDE DEF m, n
  <2>2. /\ At(c, m) \in Seq(Nat) /\ Len(At(c, m)) = m - 1 /\ \A i \in 1 .. m - 1 : At(c, m)[i] = c[i]
    BY <1>1, <2>1
  <2>3. m - 1 = n
    BY <1>1
  <2>. QED  BY <2>2, <2>3
<1>3. ASSUME NEW j \in 1 .. Len(c) PROVE Level(c, t, j) /\ At(c, j) \in DOMAIN t
  BY DEF Walked, Level
<1>4. p \in DOMAIN t /\ t[p].ct \in Constructors /\ t[p].offset \in Nat
  <2>1. Level(c, t, m)
    BY <1>1, <1>3
  <2>. HIDE DEF m
  <2>. QED  BY <2>1 DEF Level, Offsets
<1>5. /\ IsTree(u) /\ DOMAIN u = DOMAIN t
      /\ \A x \in DOMAIN t : /\ u[x].ct = t[x].ct /\ u[x].offset = t[x].offset
                             /\ x # p => u[x] = t[x]
      /\ u[p].length = length
  <2>1. IsTree(t)
    BY DEF Walked
  <2>2. ASSUME NEW q \in DOMAIN t
        PROVE  LET v == Closed(t, q, length) IN
               /\ IsTree(v) /\ DOMAIN v = DOMAIN t
               /\ \A x \in DOMAIN t : /\ v[x].ct = t[x].ct /\ v[x].offset = t[x].offset
                                      /\ x # q => v[x] = t[x]
               /\ v[q].length = length
    BY <2>1, Closing
  <2>. QED  BY <1>4, <2>2, Zenon
<1>6. p = Append(At(c, n), c[n])
  <2>1. n \in 1 .. Len(c) /\ n + 1 \in 1 .. Len(c)
    BY <1>1
  <2>. HIDE DEF n, m
  <2>2. At(c, n + 1) = Append(At(c, n), c[n])
    BY <1>1, <2>1, PathDown
  <2>. QED  BY <1>1, <2>2
<1>. HIDE DEF p, u, n, m
<1>7. ASSUME NEW j \in 1 .. n PROVE At(p, j) = At(c, j)
  <2>1. \A i \in 1 .. j - 1 : i \in 1 .. n
    BY <1>1
  <2>2. \A i \in 1 .. j - 1 : p[i] = c[i]
    BY <1>2, <2>1
  <2>3. j \in Nat /\ j \in 1 .. Len(p) /\ j \in 1 .. Len(c)
    BY <1>1, <1>2
  <2>. QED  BY <1>1, <1>2, <2>2, <2>3, PathSame
<1>8. /\ \A j \in 1 .. n : Ended(c, j) = c[j] - 1 /\ c[j] \in Nat /\ c[j] > 0
      /\ Ended(p, n) = c[n]
      /\ \A j \in 1 .. n : j # n => Ended(p, j) = c[j] - 1
  <2>1. ASSUME NEW j \in 1 .. n PROVE Ended(c, j) = c[j] - 1 /\ c[j] \in Nat /\ c[j] > 0
    <3>1. Level(c, t, j) /\ j \in 1 .. Len(c) /\ j < Len(c)
      BY <1>1, <1>3
    <3>2. Ended(c, j) = c[j] - 1 /\ c[j] \in Nat
      BY <3>1, EndedIs
    <3>3. c[j] > 0
      BY <3>1 DEF Level
    <3>. QED  BY <3>2, <3>3
  <2>2. Ended(p, n) = c[n]
    BY <1>1, <1>2 DEF Ended
  <2>3. \A j \in 1 .. n : j # n => Ended(p, j) = c[j] - 1
    BY <1>2 DEF Ended
  <2>. QED  BY <2>1, <2>2, <2>3
<1>9. ASSUME NEW j \in 1 .. n, NEW k \in Nat, k > 0, k <= Ended(p, j)
      PROVE  k <= Ended(c, j) \/ (j = n /\ k = c[n])
  BY <1>1, <1>8, <1>9
<1>10. ASSUME NEW j \in 1 .. n PROVE Level(p, u, j)
  <2>. DEFINE q == At(c, j)
  <2>1. Level(c, t, j) /\ q \in DOMAIN t /\ j \in 1 .. Len(c) /\ j < Len(c)
    BY <1>1, <1>3
  <2>2. At(p, j) = q /\ q \in DOMAIN u /\ u[q].ct = t[q].ct /\ u[q].offset = t[q].offset /\ p[j] = c[j]
    BY <1>2, <1>5, <1>7, <2>1
  <2>3. /\ t[q].ct \in Constructors /\ t[q].offset \in Offsets /\ c[j] <= Len(Operands[t[q].ct])
        /\ c[j] > 0 /\ Operands[t[q].ct][c[j]].table # Leaf
        /\ \A k \in Nat : k > c[j] => Append(q, k) \notin DOMAIN u
    BY <1>5, <2>1 DEF Level
  <2>4. ASSUME NEW k \in Nat, k > 0, k <= Ended(p, j)
        PROVE  /\ Append(q, k) \in DOMAIN u
               /\ LET sym == Operands[t[q].ct][k] IN
                  sym.table = Leaf /\ sym.base = 0 => u[Append(q, k)] = Node(Leaf, t[q].offset + sym.rel, sym.len)
    <3>1. CASE k <= Ended(c, j)
      <4>1. /\ Append(q, k) \in DOMAIN t
            /\ LET sym == Operands[t[q].ct][k] IN
               sym.table = Leaf /\ sym.base = 0 => t[Append(q, k)] = Node(Leaf, t[q].offset + sym.rel, sym.len)
        BY <2>1, <2>4, <3>1 DEF Level
      <4>2. ASSUME Operands[t[q].ct][k].table = Leaf, Operands[t[q].ct][k].base = 0
            PROVE  u[Append(q, k)] = t[Append(q, k)]
        <5>1. t[Append(q, k)].ct = Leaf
          BY <4>1, <4>2 DEF Node
        <5>2. Append(q, k) # p
          BY <1>4, <5>1, SleighAssumption
        <5>. QED  BY <1>5, <4>1, <5>2
      <4>. QED  BY <1>5, <4>1, <4>2
    <3>2. CASE j = n /\ k = c[n]
      <4>1. Append(q, k) = p
        BY <1>6, <3>2
      <4>. QED  BY <1>4, <1>5, <2>3, <3>2, <4>1
    <3>. QED  BY <1>9, <2>4, <3>1, <3>2
  <2>. HIDE DEF q
  <2>. QED  BY <2>2, <2>3, <2>4 DEF Level
<1>11. Walked(p, u)
  BY <1>1, <1>2, <1>5, <1>10 DEF Walked
<1>12. View(p, u) = Finished(Cut(View(c, t), m), n, t[p].offset + length)
  <2>. DEFINE V == View(c, t)
              C == Cut(V, m)
              W == View(p, u)
              e == t[p].offset + length
              F == Finished(C, n, e)
  <2>1. /\ V \in [1 .. m -> Frame] /\ W \in [1 .. n -> Frame] /\ e \in Nat /\ n \in Nat \ {0}
        /\ \A j \in 1 .. n :
             V[j] = [ct |-> t[At(c, j)].ct, off |-> t[At(c, j)].offset, ends |-> EndsAt(c, t, j)]
        /\ \A j \in 1 .. n :
             W[j] = [ct |-> u[At(p, j)].ct, off |-> u[At(p, j)].offset, ends |-> EndsAt(p, u, j)]
    <3>1. /\ V \in Stacks(Len(c)) /\ \A j \in 1 .. Len(c) :
               V[j] = [ct |-> t[At(c, j)].ct, off |-> t[At(c, j)].offset, ends |-> EndsAt(c, t, j)]
      BY ViewIs
    <3>2. /\ W \in Stacks(Len(p)) /\ \A j \in 1 .. Len(p) :
               W[j] = [ct |-> u[At(p, j)].ct, off |-> u[At(p, j)].offset, ends |-> EndsAt(p, u, j)]
      BY <1>11, ViewIs
    <3>3. e \in Nat /\ n \in Nat \ {0} /\ Len(c) = m
      BY <1>1, <1>4
    <3>. HIDE DEF V, W, e
    <3>. QED  BY <1>1, <1>2, <3>1, <3>2, <3>3 DEF Stacks
  <2>2. C \in Stacks(n) /\ \A j \in 1 .. n : C[j] = V[j]
    <3>1. m - 1 = n /\ \A j \in 1 .. n : j \in 1 .. m
      BY <1>1
    <3>2. \A j \in 1 .. n : V[j] \in Frame
      <4>. HIDE DEF V
      <4>. QED  BY <2>1, <3>1
    <3>. HIDE DEF V
    <3>. QED  BY <3>1, <3>2 DEF Cut, Stacks
  <2>3. /\ F \in [1 .. n -> Frame]
        /\ F[n] = [ct |-> C[n].ct, off |-> C[n].off, ends |-> Append(C[n].ends, e)]
        /\ \A j \in 1 .. n - 1 : F[j] = C[j]
    <3>1. /\ F \in Stacks(n)
          /\ F[n] = [ct |-> C[n].ct, off |-> C[n].off, ends |-> Append(C[n].ends, e)]
          /\ \A j \in 1 .. n - 1 : F[j] = C[j]
      <4>. HIDE DEF C, e
      <4>. QED  BY <2>1, <2>2, FinishedTyped
    <3>. HIDE DEF C, e, F
    <3>. QED  BY <3>1 DEF Stacks
  <2>4. ASSUME NEW j \in 1 .. n PROVE u[At(p, j)].ct = t[At(c, j)].ct /\ u[At(p, j)].offset = t[At(c, j)].offset
    BY <1>1, <1>3, <1>5, <1>7
  <2>5. ASSUME NEW j \in 1 .. n, NEW k \in 1 .. Ended(c, j)
        PROVE  EndOf(u, Append(At(p, j), k)) = EndOf(t, Append(At(c, j), k))
    <3>1. k \in Nat /\ k > 0 /\ k <= Ended(c, j)
      BY <1>8
    <3>2. Append(At(c, j), k) \in DOMAIN t /\ At(c, j) \in Seq(Nat) /\ Len(At(c, j)) = j - 1
      <4>1. j \in 1 .. Len(c)
        BY <1>1
      <4>. QED  BY <1>1, <1>3, <3>1, <4>1, Path DEF Level
    <3>3. Append(At(c, j), k) # p
      <4>1. CASE j = n
        <5>1. k # c[n]
          BY <1>8, <3>1, <4>1
        <5>. QED  BY <1>6, <1>8, <3>1, <3>2, <4>1, <5>1, Child
      <4>2. CASE j # n
        <5>1. Len(Append(At(c, j), k)) = j
          BY <1>1, <3>1, <3>2, Child
        <5>. QED  BY <1>2, <4>2, <5>1
      <4>. QED  BY <4>1, <4>2
    <3>. QED  BY <1>5, <1>7, <3>2, <3>3 DEF EndOf
  <2>6. ASSUME NEW j \in 1 .. n, j # n PROVE EndsAt(p, u, j) = EndsAt(c, t, j)
    <3>1. Ended(p, j) = Ended(c, j)
      BY <1>8, <2>6
    <3>. QED  BY <2>5, <3>1 DEF EndsAt
  <2>7. EndsAt(p, u, n) = Append(EndsAt(c, t, n), e)
    <3>. DEFINE h == c[n] - 1
                f == EndsAt(c, t, n)
                g == EndsAt(p, u, n)
    <3>1. h \in Nat /\ Ended(c, n) = h /\ Ended(p, n) = h + 1
      BY <1>1, <1>8
    <3>2. f \in [1 .. Ended(c, n) -> Nat] /\ g \in [1 .. Ended(p, n) -> Nat]
      <4>1. n \in 1 .. Len(c) /\ n \in 1 .. Len(p)
        BY <1>1, <1>2
      <4>. QED  BY <1>11, <4>1, ViewIs
    <3>. HIDE DEF h
    <3>3. \A k \in 1 .. h : g[k] = f[k]
      <4>1. \A k \in 1 .. h : k \in 1 .. h + 1
        BY <3>1
      <4>2. \A k \in 1 .. h : EndOf(u, Append(At(p, n), k)) = EndOf(t, Append(At(c, n), k))
        BY <1>1, <2>5, <3>1
      <4>. QED  BY <3>1, <4>1, <4>2 DEF EndsAt
    <3>4. g[h + 1] = e
      <4>1. h + 1 \in 1 .. h + 1 /\ h + 1 = c[n]
        BY <1>1, <1>8, <3>1 DEF h
      <4>2. EndOf(u, Append(At(p, n), c[n])) = e
        BY <1>1, <1>4, <1>5, <1>6, <1>7 DEF EndOf
      <4>. QED  BY <3>1, <4>1, <4>2 DEF EndsAt
    <3>. HIDE DEF f, g, e
    <3>5. g = Append(f, e)
      BY <2>1, <3>1, <3>2, <3>3, <3>4, AppendFn
    <3>. QED  BY <3>5 DEF f, g
  <2>. HIDE DEF V, W, e, F, C
  <2>8. ASSUME NEW j \in 1 .. n PROVE W[j] = F[j]
    <3>1. CASE j = n
      <4>1. V[n] = [ct |-> t[At(c, n)].ct, off |-> t[At(c, n)].offset, ends |-> EndsAt(c, t, n)]
        BY <1>1, <2>1
      <4>2. C[n].ct = t[At(c, n)].ct /\ C[n].off = t[At(c, n)].offset /\ C[n].ends = EndsAt(c, t, n)
        <5>1. C[n] = V[n]
          BY <1>1, <2>2
        <5>. QED  BY <4>1, <5>1
      <4>3. F[n] = [ct |-> t[At(c, n)].ct, off |-> t[At(c, n)].offset, ends |-> Append(EndsAt(c, t, n), e)]
        BY <2>3, <4>2
      <4>4. W[n] = [ct |-> t[At(c, n)].ct, off |-> t[At(c, n)].offset, ends |-> EndsAt(p, u, n)]
        BY <1>1, <2>1, <2>4
      <4>. QED  BY <2>7, <3>1, <4>3, <4>4
    <3>2. CASE j # n
      <4>1. j \in 1 .. n - 1
        BY <1>1, <3>2
      <4>2. F[j] = V[j]
        BY <2>2, <2>3, <4>1
      <4>. QED  BY <2>1, <2>4, <2>6, <3>2, <4>2
    <3>. QED  BY <3>1, <3>2
  <2>9. W = F
    BY <2>1, <2>3, <2>8
  <2>. QED  BY <2>9 DEF V, W, e, F, C
<1>. QED  BY <1>2, <1>11, <1>12 DEF p, u, n, m

(***************************************************************************)
(* Sleigh: what holds while an instruction is parsed                       *)
(***************************************************************************)

PrintableTree(t) ==
  \A p \in DOMAIN t : t[p].ct = Leaf /\ t[p].length > 0 => t[p].offset < BufLen

\* The size that ghidra may report.
MaxEnd == 16 - 1 + 8

Bounded(t) == PrintableTree(t) => \A p \in DOMAIN t : EndOf(t, p) <= MaxEnd

Rooted(t) == <<>> \in DOMAIN t /\ t[<<>>].offset = 0

\* While all that is parsed can be printed, the rest of the answer is as the
\* stack has it; once it cannot, the answer is to refuse.
ResolvingOK(ps, cr) ==
  /\ Walked(cr, ps.tree) /\ Rooted(ps.tree) /\ Bounded(ps.tree)
  /\ PrintableTree(ps.tree) /\ Instruction(ps.buf).verdict # "unknown" =>
       Chained(ps.buf, View(cr, ps.tree), Len(cr), ps.context)
  /\ ~PrintableTree(ps.tree) => Instruction(ps.buf).verdict # "ok"

PrintOK(ps) ==
  /\ IsTree(ps.tree) /\ Rooted(ps.tree) /\ Bounded(ps.tree)
  /\ PrintableTree(ps.tree) /\ Instruction(ps.buf).verdict # "unknown" =>
       Instruction(ps.buf).verdict = "ok" /\ Instruction(ps.buf).end = ps.tree[<<>>].length
  /\ ~PrintableTree(ps.tree) => Instruction(ps.buf).verdict # "ok"

ThrownOK(ps) == Instruction(ps.buf).verdict # "ok"

LoaderOK(ld) == ld.mem \in Memory

ParserOK(ps) ==
  /\ ps = [state |-> ps.state, buf |-> ps.buf, context |-> ps.context, tree |-> ps.tree]
  /\ ps.buf \in Memory /\ ps.context \in Contexts

EngineInv ==
  /\ stage \in {"ctor", "ready", "resolve", "print", "thrown", "aborted"}
  /\ context_db \in Contexts /\ LoaderOK(loader) /\ ParserOK(pos)
  /\ stage \notin {"ctor", "aborted"} => context_db = SpecContext
  /\ stage \in {"resolve", "print", "thrown"} => pos.buf = LoadFill(loader.mem, loader.length)
  /\ stage = "resolve" => ResolvingOK(pos, crumbs)
  /\ stage = "print" => PrintOK(pos)
  /\ stage = "thrown" => ThrownOK(pos)

\* The walker's words for the top of the stack.
LEMMA Here ==
  ASSUME Walked(crumbs, pos.tree)
  PROVE  LET m == Len(crumbs)
             V == View(crumbs, pos.tree)
         IN  /\ m \in Nat \ {0} /\ V \in Stacks(m) /\ Point = At(crumbs, m)
             /\ Point \in Seq(Nat) /\ Len(Point) = m - 1 /\ Point \in DOMAIN pos.tree
             /\ V[m].ct = Current /\ V[m].off = pos.tree[Point].offset
             /\ Current \in Constructors /\ pos.tree[Point].offset \in Offsets
             /\ crumbs[m] \in Nat /\ Len(V[m].ends) = crumbs[m] /\ DOMAIN V[m].ends = 1 .. crumbs[m]
             /\ \A k \in 1 .. crumbs[m] :
                  /\ V[m].ends[k] = End(Append(Point, k)) /\ V[m].ends[k] \in Nat
                  /\ Append(Point, k) \in DOMAIN pos.tree
             /\ crumbs[m] <= Len(Operands[Current])
             /\ NextOper = crumbs[m] + 1
<1>. DEFINE m == Len(crumbs)
            t == pos.tree
            V == View(crumbs, t)
<1>1. crumbs \in Seq(Nat) /\ m \in Nat \ {0} /\ m \in 1 .. m /\ crumbs[m] \in Nat
  BY LenProperties, ElementOfSeq DEF Walked
<1>2. Point = At(crumbs, m)
  BY DEF Point, At
<1>3. At(crumbs, m) \in Seq(Nat) /\ Len(At(crumbs, m)) = m - 1
  BY <1>1, Path
<1>4. Level(crumbs, t, m)
  BY <1>1 DEF Walked
<1>5. Ended(crumbs, m) = crumbs[m]
  BY DEF Ended
<1>6. /\ V \in Stacks(m)
      /\ V[m] = [ct |-> t[At(crumbs, m)].ct, off |-> t[At(crumbs, m)].offset, ends |-> EndsAt(crumbs, t, m)]
      /\ EndsAt(crumbs, t, m) \in [1 .. Ended(crumbs, m) -> Nat]
      /\ Len(EndsAt(crumbs, t, m)) = Ended(crumbs, m)
  BY <1>1, ViewIs
<1>. HIDE DEF V, t
<1>7. V[m].ct = t[Point].ct /\ V[m].off = t[Point].offset /\ V[m].ends = EndsAt(crumbs, t, m)
  BY <1>2, <1>6
<1>8. Current = t[Point].ct
  BY DEF Current, t
<1>9. /\ Point \in DOMAIN t /\ Current \in Constructors /\ t[Point].offset \in Offsets
      /\ crumbs[m] <= Len(Operands[Current])
      /\ \A k \in Nat : k > 0 /\ k <= crumbs[m] => Append(Point, k) \in DOMAIN t
  BY <1>2, <1>4, <1>5, <1>8 DEF Level
<1>10. ASSUME NEW k \in 1 .. crumbs[m]
       PROVE  /\ V[m].ends[k] = End(Append(Point, k)) /\ V[m].ends[k] \in Nat
              /\ Append(Point, k) \in DOMAIN t
  <2>1. k \in Nat /\ k > 0 /\ k <= crumbs[m]
    BY <1>1
  <2>2. EndsAt(crumbs, t, m)[k] = EndOf(t, Append(Point, k))
    BY <1>2, <1>5 DEF EndsAt
  <2>3. EndOf(t, Append(Point, k)) = End(Append(Point, k))
    BY DEF EndOf, End, t
  <2>. QED  BY <1>5, <1>6, <1>7, <1>9, <2>1, <2>2, <2>3
<1>11. Len(V[m].ends) = crumbs[m] /\ DOMAIN V[m].ends = 1 .. crumbs[m]
  BY <1>5, <1>6, <1>7
<1>12. NextOper = crumbs[m] + 1
  BY DEF NextOper
<1>. QED  BY <1>1, <1>2, <1>3, <1>6, <1>7, <1>8, <1>9, <1>10, <1>11, <1>12 DEF V, t

LEMMA HereNext ==
  ASSUME Walked(crumbs, pos.tree), NextOper <= Len(Operands[Current])
  PROVE  LET m   == Len(crumbs)
             V   == View(crumbs, pos.tree)
             sym == Operands[Current][NextOper]
         IN  /\ sym = TopSymbol(V, m) /\ Base(sym.base) + sym.rel = TopPlace(V, m)
             /\ sym.table \in Tables \cup {Leaf} /\ sym.rel \in Nat /\ sym.len \in Nat
             /\ sym.base \in Nat /\ sym.base <= crumbs[m]
             /\ TopPlace(V, m) \in Nat
             /\ sym.base = 0 => TopPlace(V, m) = pos.tree[Point].offset + sym.rel
             /\ sym.base # 0 => /\ Append(Point, sym.base) \in DOMAIN pos.tree
                                /\ TopPlace(V, m) = EndOf(pos.tree, Append(Point, sym.base)) + sym.rel
             /\ sym.len <= 8 /\ (sym.len = 0 /\ sym.table = Leaf => sym.rel = 0)
             /\ Len(V[m].ends) < Len(Operands[V[m].ct])
<1>. DEFINE m   == Len(crumbs)
            V   == View(crumbs, pos.tree)
            sym == Operands[Current][NextOper]
<1>1. /\ m \in Nat \ {0} /\ V \in Stacks(m)
      /\ V[m].ct = Current /\ V[m].off = pos.tree[Point].offset
      /\ Current \in Constructors /\ pos.tree[Point].offset \in Offsets
      /\ crumbs[m] \in Nat /\ Len(V[m].ends) = crumbs[m]
      /\ \A k \in 1 .. crumbs[m] :
           /\ V[m].ends[k] = End(Append(Point, k)) /\ V[m].ends[k] \in Nat
           /\ Append(Point, k) \in DOMAIN pos.tree
      /\ NextOper = crumbs[m] + 1
  BY Here
<1>2. pos.tree[Point].offset \in Nat
  BY <1>1, SleighAssumption DEF Offsets
<1>3. sym = TopSymbol(V, m)
  BY <1>1 DEF TopSymbol
<1>4. NextOper \in 1 .. Len(Operands[Current]) /\ NextOper \in DOMAIN Operands[Current]
  BY <1>1, OperandTypes
<1>5. /\ sym.table \in Tables \cup {Leaf} /\ sym.base \in Nat /\ sym.rel \in Nat
      /\ sym.len \in Nat /\ sym.base < NextOper
  BY <1>1, <1>4, OperandTypes
<1>6. sym.len <= 8 /\ (sym.len = 0 => sym.table # Leaf \/ sym.rel = 0)
  BY <1>1, <1>4, FieldsAssumption
<1>. HIDE DEF V, sym, m
<1>7. sym.base <= crumbs[m] /\ (sym.base # 0 => sym.base \in 1 .. crumbs[m])
  BY <1>1, <1>5
<1>8. TopPlace(V, m) = sym.rel + (IF sym.base = 0 THEN V[m].off ELSE V[m].ends[sym.base])
  BY <1>3 DEF TopPlace
<1>9. CASE sym.base = 0
  <2>1. Base(sym.base) = pos.tree[Point].offset
    BY <1>9 DEF Base
  <2>2. TopPlace(V, m) = sym.rel + pos.tree[Point].offset
    BY <1>1, <1>8, <1>9
  <2>. QED  BY <1>1, <1>2, <1>3, <1>5, <1>6, <1>7, <1>9, <2>1, <2>2 DEF V, sym, m
<1>10. CASE sym.base # 0
  <2>1. Base(sym.base) = End(Append(Point, sym.base))
    BY <1>10 DEF Base
  <2>2. /\ V[m].ends[sym.base] = End(Append(Point, sym.base)) /\ End(Append(Point, sym.base)) \in Nat
        /\ Append(Point, sym.base) \in DOMAIN pos.tree
    BY <1>1, <1>7, <1>10
  <2>3. TopPlace(V, m) = sym.rel + End(Append(Point, sym.base))
    BY <1>8, <1>10, <2>2
  <2>4. EndOf(pos.tree, Append(Point, sym.base)) = End(Append(Point, sym.base))
    BY DEF EndOf, End
  <2>. QED  BY <1>1, <1>3, <1>5, <1>6, <1>7, <1>10, <2>1, <2>2, <2>3, <2>4 DEF V, sym, m
<1>. QED  BY <1>9, <1>10

LEMMA GrownIs ==
  ASSUME Walked(crumbs, pos.tree), NEW node \in Nodes
  PROVE  LET u == Grown(pos.tree, NewPath(crumbs), node) IN
         /\ AddNode(Append(Point, NextOper), node) = u
         /\ Begun = Begin1(crumbs)
         /\ Rooted(pos.tree) => Rooted(u)
         /\ PrintableTree(u) <=>
              PrintableTree(pos.tree) /\ (node.ct = Leaf /\ node.length > 0 => node.offset < BufLen)
         /\ Bounded(pos.tree) /\ (PrintableTree(u) => node.offset + node.length <= MaxEnd) => Bounded(u)
<1>. DEFINE t == pos.tree
            p == NewPath(crumbs)
            u == Grown(t, p, node)
<1>1. /\ p \in Seq(Nat) /\ p \notin DOMAIN t /\ DOMAIN u = DOMAIN t \cup {p}
      /\ IsTree(u) /\ u[p] = node /\ \A x \in DOMAIN t : u[x] = t[x]
      /\ \A k \in Nat : Append(p, k) \notin DOMAIN u
      /\ \A j \in 1 .. Len(crumbs), k \in Nat :
           k > crumbs[j] /\ (j = Len(crumbs) => k > crumbs[j] + 1) =>
             Append(At(crumbs, j), k) \notin DOMAIN u
  BY Growing, Zenon
<1>2. p = Append(Point, NextOper) /\ Begun = Begin1(crumbs)
  BY Here DEF NewPath, Begin1, Begun
<1>3. AddNode(Append(Point, NextOper), node) = u
  BY <1>2 DEF AddNode, Grown
<1>4. p # <<>>
  BY <1>2, Here, AppendProperties
<1>. HIDE DEF t, p, u
<1>5. Rooted(t) => Rooted(u)
  BY <1>1 DEF Rooted
<1>6. PrintableTree(u) <=> PrintableTree(t) /\ (node.ct = Leaf /\ node.length > 0 => node.offset < BufLen)
  BY <1>1 DEF PrintableTree
<1>7. Bounded(t) /\ (PrintableTree(u) => node.offset + node.length <= MaxEnd) => Bounded(u)
  BY <1>1, <1>6 DEF Bounded, EndOf
<1>. QED  BY <1>2, <1>3, <1>5, <1>6, <1>7 DEF t, p, u

LEMMA BytesIs ==
  BufLen \in Nat /\ BufLen <= 16 /\ MaxEnd \in Nat
  /\ \A off \in Offsets : off \in Nat /\ off < BufLen /\ off <= 15
BY SleighAssumption, FieldsAssumption DEF Offsets, MaxEnd

LEMMA StepLeaf ==
  ASSUME EngineInv, ResolveLeaf
  PROVE  EngineInv'
<1>. DEFINE m    == Len(crumbs)
            t    == pos.tree
            V    == View(crumbs, t)
            sym  == Operands[Current][NextOper]
            at   == TopPlace(V, m)
            node == Node(Leaf, at, sym.len)
            u    == Grown(t, NewPath(crumbs), node)
<1>1. /\ stage = "resolve" /\ stage' = stage /\ context_db' = context_db /\ loader' = loader
      /\ NextOper <= Len(Operands[Current]) /\ sym.table = Leaf
      /\ pos' = [pos EXCEPT !.tree = AddNode(Append(Point, NextOper), Node(Leaf, Base(sym.base) + sym.rel, sym.len))]
      /\ crumbs' = Begun
  BY DEF ResolveLeaf, Resolving
<1>2. ResolvingOK(pos, crumbs) /\ ParserOK(pos)
  BY <1>1 DEF EngineInv
<1>3. Walked(crumbs, t)
  BY <1>2 DEF ResolvingOK
<1>4. /\ m \in Nat \ {0} /\ V \in Stacks(m) /\ Point = At(crumbs, m)
      /\ V[m].ct = Current /\ pos.tree[Point].offset \in Offsets /\ NextOper = crumbs[m] + 1
  BY <1>3, Here
<1>5. /\ sym = TopSymbol(V, m) /\ Base(sym.base) + sym.rel = at
      /\ sym.rel \in Nat /\ sym.len \in Nat /\ sym.base \in Nat /\ at \in Nat
      /\ sym.base = 0 => at = pos.tree[Point].offset + sym.rel
      /\ sym.base # 0 => /\ Append(Point, sym.base) \in DOMAIN pos.tree
                         /\ at = EndOf(pos.tree, Append(Point, sym.base)) + sym.rel
      /\ sym.len <= 8 /\ (sym.len = 0 => sym.rel = 0)
      /\ Len(V[m].ends) < Len(Operands[V[m].ct])
  BY <1>1, <1>3, HereNext
<1>6. /\ node \in Nodes /\ node.ct = Leaf /\ node.offset = at /\ node.length = sym.len
  BY <1>5 DEF Node, Nodes
<1>7. /\ AddNode(Append(Point, NextOper), node) = u
      /\ Begun = Begin1(crumbs)
      /\ Rooted(t) => Rooted(u)
      /\ PrintableTree(u) <=> PrintableTree(t) /\ (node.ct = Leaf /\ node.length > 0 => node.offset < BufLen)
      /\ Bounded(t) /\ (PrintableTree(u) => node.offset + node.length <= MaxEnd) => Bounded(u)
  <2>. HIDE DEF node
  <2>. QED  BY <1>3, <1>6, GrownIs
<1>8. Walked(crumbs', u) /\ View(crumbs', u) = Finished(V, m, at + sym.len)
  <2>1. crumbs[m] + 1 <= Len(Operands[t[At(crumbs, m)].ct])
    BY <1>1, <1>4 DEF Current
  <2>2. LET s == Operands[t[At(crumbs, m)].ct][crumbs[m] + 1] IN
          s.table = Leaf /\ s.base = 0 => node = Node(Leaf, t[At(crumbs, m)].offset + s.rel, s.len)
    BY <1>4, <1>5 DEF Current
  <2>. HIDE DEF node
  <2>3. Walked(Begin1(crumbs), u) /\ View(Begin1(crumbs), u) = Finished(V, m, node.offset + node.length)
    BY <1>3, <1>6, <2>1, <2>2, LeafStep, Zenon
  <2>. HIDE DEF u, V, at, sym
  <2>. QED  BY <1>1, <1>6, <1>7, <2>3
<1>9. Len(crumbs') = m
  <2>1. crumbs \in Seq(Nat) /\ Len(crumbs) > 0
    BY <1>3 DEF Walked
  <2>. QED  BY <1>1, <1>7, <2>1, Beginning
<1>10. pos' = [state |-> pos.state, buf |-> pos.buf, context |-> pos.context, tree |-> u]
  <2>1. pos' = [pos EXCEPT !.tree = u]
    BY <1>1, <1>5, <1>7
  <2>. HIDE DEF u
  <2>. QED  BY <1>2, <2>1 DEF ParserOK
<1>11. /\ pos'.buf = pos.buf /\ pos'.context = pos.context /\ pos'.tree = u /\ ParserOK(pos')
  <2>. HIDE DEF u
  <2>. QED  BY <1>2, <1>10 DEF ParserOK
<1>12. Bounded(u)
  <2>1. ASSUME PrintableTree(u) PROVE node.offset + node.length <= MaxEnd
    <3>. HIDE DEF node
    <3>1. CASE sym.len > 0
      <4>1. at < BufLen
        BY <1>6, <1>7, <2>1, <3>1
      <4>. HIDE DEF at, sym
      <4>. QED  BY <1>5, <1>6, <4>1, BytesIs DEF MaxEnd
    <3>2. CASE ~(sym.len > 0)
      <4>1. sym.len = 0 /\ sym.rel = 0
        <5>. HIDE DEF at, sym
        <5>. QED  BY <1>5, <3>2
      <4>2. CASE sym.base = 0
        <5>1. at <= 15
          <6>1. pos.tree[Point].offset \in Nat /\ pos.tree[Point].offset <= 15
            BY <1>4, BytesIs
          <6>. HIDE DEF at, sym
          <6>. QED  BY <1>5, <4>1, <4>2, <6>1
        <5>. HIDE DEF at, sym
        <5>. QED  BY <1>5, <1>6, <4>1, <5>1 DEF MaxEnd
      <4>3. CASE sym.base # 0
        <5>1. EndOf(t, Append(Point, sym.base)) <= MaxEnd
          <6>1. Bounded(t) /\ PrintableTree(t)
            BY <1>2, <1>7, <2>1 DEF ResolvingOK
          <6>. HIDE DEF at, sym
          <6>. QED  BY <1>5, <4>3, <6>1 DEF Bounded
        <5>2. EndOf(t, Append(Point, sym.base)) \in Nat
          <6>1. t[Append(Point, sym.base)] \in Nodes
            <7>1. IsTree(t)
              BY <1>3 DEF Walked
            <7>. HIDE DEF at, sym
            <7>. QED  BY <1>5, <4>3, <7>1 DEF IsTree
          <6>. QED  BY <6>1 DEF EndOf, Nodes
        <5>. HIDE DEF at, sym
        <5>. QED  BY <1>5, <1>6, <4>1, <4>3, <5>1, <5>2
      <4>. QED  BY <4>2, <4>3
    <3>. QED  BY <3>1, <3>2
  <2>2. Bounded(t)
    BY <1>2 DEF ResolvingOK
  <2>. HIDE DEF node, u
  <2>. QED  BY <1>7, <2>1, <2>2
<1>. DEFINE verdict == Instruction(pos.buf).verdict
<1>13. PrintableTree(t) /\ verdict # "unknown" =>
         IF sym.len = 0 \/ at < BufLen
         THEN Chained(pos.buf, Finished(V, m, at + sym.len), m, pos.context)
         ELSE verdict = "refused"
  <2>. SUFFICES ASSUME PrintableTree(t), verdict # "unknown"
                PROVE  IF sym.len = 0 \/ at < BufLen
                       THEN Chained(pos.buf, Finished(V, m, at + sym.len), m, pos.context)
                       ELSE verdict = "refused"
    OBVIOUS
  <2>1. Chained(pos.buf, V, m, pos.context)
    BY <1>2 DEF ResolvingOK
  <2>2. pos.buf \in Memory /\ pos.context \in Contexts
    BY <1>2 DEF ParserOK
  <2>3. Len(V[m].ends) < Len(Operands[V[m].ct]) /\ TopSymbol(V, m).table = Leaf
    BY <1>1, <1>5
  <2>4. LET end == TopPlace(V, m) + TopSymbol(V, m).len IN
         IF TopSymbol(V, m).len = 0 \/ TopPlace(V, m) < BufLen
         THEN Chained(pos.buf, Finished(V, m, end), m, pos.context)
         ELSE Instruction(pos.buf).verdict = "refused"
    <3>. HIDE DEF V, m, sym, at, verdict
    <3>. QED  BY <1>4, <2>1, <2>2, <2>3, ChainLeaf
  <2>5. TopSymbol(V, m) = sym /\ at = TopPlace(V, m)
    BY <1>5
  <2>. HIDE DEF V, m, sym, at
  <2>. QED  BY <2>4, <2>5
<1>. HIDE DEF node, u, at, sym, V, m, t, verdict
<1>14. PrintableTree(u) <=> PrintableTree(t) /\ (sym.len = 0 \/ at < BufLen)
  BY <1>5, <1>6, <1>7
<1>15. PrintableTree(u) /\ verdict # "unknown" => Chained(pos.buf, View(crumbs', u), m, pos.context)
  BY <1>8, <1>13, <1>14
<1>16. ~PrintableTree(u) => verdict # "ok"
  <2>1. ~PrintableTree(t) => verdict # "ok"
    BY <1>2 DEF ResolvingOK, t, verdict
  <2>2. PrintableTree(t) /\ ~(sym.len = 0 \/ at < BufLen) => verdict # "ok"
    BY <1>13
  <2>. QED  BY <1>14, <2>1, <2>2
<1>17. Rooted(u)
  BY <1>2, <1>7 DEF ResolvingOK, t
<1>18. ResolvingOK(pos', crumbs')
  BY <1>8, <1>9, <1>11, <1>12, <1>15, <1>16, <1>17 DEF ResolvingOK, verdict
<1>. QED  BY <1>1, <1>11, <1>18 DEF EngineInv

LEMMA StepDown ==
  ASSUME EngineInv, ResolveSubtable
  PROVE  EngineInv'
<1>. DEFINE m    == Len(crumbs)
            t    == pos.tree
            V    == View(crumbs, t)
            sym  == Operands[Current][NextOper]
            at   == TopPlace(V, m)
            ct   == Resolved(sym.table, pos.buf, at, pos.context)
            node == Node(ct, at, 0)
            u    == Grown(t, NewPath(crumbs), node)
            verdict == Instruction(pos.buf).verdict
<1>1. /\ stage = "resolve" /\ context_db' = context_db /\ loader' = loader
      /\ NextOper <= Len(Operands[Current]) /\ sym.table # Leaf
      /\ LET off == Base(sym.base) + sym.rel
             c   == Resolved(sym.table, pos.buf, off, pos.context)
         IN  IF c = NoMatch
             THEN stage' = "thrown" /\ UNCHANGED <<pos, crumbs>>
             ELSE /\ pos' = [pos EXCEPT !.tree = AddNode(Append(Point, NextOper), Node(c, off, 0)),
                                        !.context = SetsContext[c][@]]
                  /\ crumbs' = Append(Begun, 0)
                  /\ UNCHANGED stage
  BY DEF ResolveSubtable, Resolving
<1>2. ResolvingOK(pos, crumbs) /\ ParserOK(pos)
  BY <1>1 DEF EngineInv
<1>3. Walked(crumbs, t)
  BY <1>2 DEF ResolvingOK
<1>4. /\ m \in Nat \ {0} /\ V \in Stacks(m) /\ Point = At(crumbs, m)
      /\ V[m].ct = Current /\ NextOper = crumbs[m] + 1
  BY <1>3, Here
<1>5. /\ sym = TopSymbol(V, m) /\ Base(sym.base) + sym.rel = at
      /\ sym.table \in Tables \cup {Leaf} /\ at \in Nat
      /\ Len(V[m].ends) < Len(Operands[V[m].ct])
  BY <1>1, <1>3, HereNext
<1>6. /\ IF ct = NoMatch
         THEN stage' = "thrown" /\ UNCHANGED <<pos, crumbs>>
         ELSE /\ pos' = [pos EXCEPT !.tree = AddNode(Append(Point, NextOper), node),
                                    !.context = SetsContext[ct][@]]
              /\ crumbs' = Append(Begun, 0)
              /\ UNCHANGED stage
  <2>. HIDE DEF at
  <2>. QED  BY <1>1, <1>5, Zenon
<1>7. pos.buf \in Memory /\ pos.context \in Contexts /\ sym.table \in Tables
  BY <1>1, <1>2, <1>5 DEF ParserOK
<1>8. /\ ct \in Constructors \cup {NoMatch}
      /\ ct # NoMatch => ct \in Constructors /\ at \in Offsets /\ SetsContext[ct][pos.context] \in Contexts
  <2>. HIDE DEF sym, at
  <2>. QED  BY <1>5, <1>7, Matching
<1>9. PrintableTree(t) /\ verdict # "unknown" =>
        IF ct = NoMatch THEN verdict = "refused"
        ELSE Chained(pos.buf, Pushed(V, m, [ct |-> ct, off |-> at, ends |-> <<>>]), m + 1,
                     SetsContext[ct][pos.context])
  <2>. SUFFICES ASSUME PrintableTree(t), verdict # "unknown"
                PROVE  IF ct = NoMatch THEN verdict = "refused"
                       ELSE Chained(pos.buf, Pushed(V, m, [ct |-> ct, off |-> at, ends |-> <<>>]), m + 1,
                                    SetsContext[ct][pos.context])
    OBVIOUS
  <2>1. Chained(pos.buf, V, m, pos.context)
    BY <1>2 DEF ResolvingOK
  <2>2. Len(V[m].ends) < Len(Operands[V[m].ct]) /\ TopSymbol(V, m).table # Leaf
    BY <1>1, <1>5
  <2>3. LET c == Resolved(TopSymbol(V, m).table, pos.buf, TopPlace(V, m), pos.context) IN
         IF c = NoMatch THEN Instruction(pos.buf).verdict = "refused"
         ELSE Chained(pos.buf, Pushed(V, m, [ct |-> c, off |-> TopPlace(V, m), ends |-> <<>>]), m + 1,
                      SetsContext[c][pos.context])
    <3>. HIDE DEF V, m, sym, at, ct, verdict
    <3>. QED  BY <1>4, <1>7, <2>1, <2>2, ChainDown
  <2>4. TopSymbol(V, m) = sym /\ TopPlace(V, m) = at
    BY <1>5
  <2>. HIDE DEF V, m, sym, at
  <2>. QED  BY <2>3, <2>4
<1>10. ~PrintableTree(t) => verdict # "ok"
  BY <1>2 DEF ResolvingOK
<1>11. CASE ct = NoMatch
  <2>1. stage' = "thrown" /\ pos' = pos /\ crumbs' = crumbs
    BY <1>6, <1>11
  <2>2. verdict # "ok"
    <3>. HIDE DEF verdict, ct, V, m, t, at
    <3>. QED  BY <1>9, <1>10, <1>11
  <2>3. ThrownOK(pos')
    BY <2>1, <2>2 DEF ThrownOK
  <2>. QED  BY <1>1, <2>1, <2>3 DEF EngineInv
<1>12. CASE ct # NoMatch
  <2>. DEFINE context == SetsContext[ct][pos.context]
  <2>. HIDE DEF ct, sym, at
  <2>1. /\ ct \in Constructors /\ at \in Offsets /\ context \in Contexts
        /\ pos' = [pos EXCEPT !.tree = AddNode(Append(Point, NextOper), node), !.context = context]
        /\ crumbs' = Append(Begun, 0) /\ stage' = stage
    <3>1. /\ pos' = [pos EXCEPT !.tree = AddNode(Append(Point, NextOper), node), !.context = SetsContext[ct][@]]
          /\ crumbs' = Append(Begun, 0) /\ stage' = stage
      <4>. HIDE DEF node
      <4>. QED  BY <1>6, <1>12, Zenon
    <3>. HIDE DEF node
    <3>2. pos' = [pos EXCEPT !.tree = AddNode(Append(Point, NextOper), node), !.context = SetsContext[ct][pos.context]]
      BY <1>2, <3>1 DEF ParserOK
    <3>. QED  BY <1>8, <1>12, <3>1, <3>2
  <2>2. node \in Nodes /\ node.ct = ct /\ node.offset = at /\ node.length = 0 /\ at \in Nat
    BY <1>5, <2>1 DEF Node, Nodes
  <2>. HIDE DEF node
  <2>3. /\ AddNode(Append(Point, NextOper), node) = u
        /\ Begun = Begin1(crumbs)
        /\ Rooted(t) => Rooted(u)
        /\ PrintableTree(u) <=> PrintableTree(t) /\ (node.ct = Leaf /\ node.length > 0 => node.offset < BufLen)
        /\ Bounded(t) /\ (PrintableTree(u) => node.offset + node.length <= MaxEnd) => Bounded(u)
    BY <1>3, <2>2, GrownIs
  <2>4. /\ Walked(crumbs', u) /\ Len(crumbs') = m + 1
        /\ View(crumbs', u) = Pushed(V, m, [ct |-> ct, off |-> at, ends |-> <<>>])
    <3>1. crumbs[m] + 1 <= Len(Operands[t[At(crumbs, m)].ct])
      BY <1>1, <1>4 DEF Current
    <3>2. Operands[t[At(crumbs, m)].ct][crumbs[m] + 1].table # Leaf
      BY <1>1, <1>4 DEF Current, sym
    <3>3. node.ct \in Constructors /\ node.offset \in Offsets
      BY <2>1, <2>2
    <3>4. /\ Walked(Append(Begin1(crumbs), 0), u) /\ Len(Append(Begin1(crumbs), 0)) = m + 1
          /\ View(Append(Begin1(crumbs), 0), u) = Pushed(V, m, [ct |-> node.ct, off |-> node.offset, ends |-> <<>>])
      BY <1>3, <2>2, <3>1, <3>2, <3>3, DownStep, Zenon
    <3>. HIDE DEF u, V, m
    <3>. QED  BY <2>1, <2>2, <2>3, <3>4
  <2>. HIDE DEF context
  <2>5. pos' = [state |-> pos.state, buf |-> pos.buf, context |-> context, tree |-> u]
    <3>1. pos' = [pos EXCEPT !.tree = u, !.context = context]
      BY <2>1, <2>3
    <3>2. pos = [state |-> pos.state, buf |-> pos.buf, context |-> pos.context, tree |-> pos.tree]
      BY <1>2 DEF ParserOK
    <3>. HIDE DEF u, t
    <3>. QED  BY <3>1, <3>2
  <2>. HIDE DEF u, V, m, t, verdict
  <2>6. /\ pos'.buf = pos.buf /\ pos'.context = context /\ pos'.tree = u /\ ParserOK(pos')
    <3>1. context \in Contexts /\ pos.buf \in Memory
      BY <1>7, <2>1
    <3>2. pos'.buf = pos.buf /\ pos'.context = context /\ pos'.tree = u
      BY <2>5
    <3>3. pos'.state = pos.state
      BY <2>5
    <3>. QED  BY <2>5, <3>1, <3>2, <3>3 DEF ParserOK
  <2>7. PrintableTree(u) <=> PrintableTree(t)
    BY <2>2, <2>3
  <2>8. Rooted(u) /\ Bounded(u)
    <3>1. Rooted(t) /\ Bounded(t)
      BY <1>2 DEF ResolvingOK, t
    <3>2. node.offset + node.length <= MaxEnd
      BY <2>1, <2>2, BytesIs DEF MaxEnd
    <3>. QED  BY <2>3, <3>1, <3>2
  <2>9. PrintableTree(u) /\ verdict # "unknown" => Chained(pos.buf, View(crumbs', u), m + 1, context)
    BY <1>9, <1>12, <2>4, <2>7 DEF context
  <2>10. ~PrintableTree(u) => verdict # "ok"
    BY <1>10, <2>7
  <2>11. ResolvingOK(pos', crumbs')
    BY <2>4, <2>6, <2>8, <2>9, <2>10 DEF ResolvingOK, verdict
  <2>. QED  BY <1>1, <2>1, <2>6, <2>11 DEF EngineInv
<1>. QED  BY <1>11, <1>12

\* A finished constructor ends where the stack says.
LEMMA HereDone ==
  ASSUME Walked(crumbs, pos.tree), NextOper > Len(Operands[Current])
  PROVE  LET m == Len(crumbs)
             V == View(crumbs, pos.tree)
             length == CurrentLength(MinLength[Current])
         IN  /\ Len(V[m].ends) >= Len(Operands[V[m].ct])
             /\ length \in Nat /\ Whole(V, m) \in Nat
             /\ pos.tree[Point].offset + length = Whole(V, m)
             /\ Bounded(pos.tree) /\ PrintableTree(pos.tree) => Whole(V, m) <= MaxEnd
<1>. DEFINE m   == Len(crumbs)
            t   == pos.tree
            V   == View(crumbs, t)
            off == pos.tree[Point].offset
            min == MinLength[Current]
            X   == {off + min} \cup {End(Append(Point, k)) : k \in 1 .. Len(Operands[Current])}
<1>1. /\ m \in Nat \ {0} /\ V \in Stacks(m) /\ Point = At(crumbs, m)
      /\ Point \in Seq(Nat) /\ Point \in DOMAIN t
      /\ V[m].ct = Current /\ V[m].off = off /\ off \in Offsets
      /\ Current \in Constructors
      /\ crumbs[m] \in Nat /\ Len(V[m].ends) = crumbs[m] /\ DOMAIN V[m].ends = 1 .. crumbs[m]
      /\ \A k \in 1 .. crumbs[m] :
           /\ V[m].ends[k] = End(Append(Point, k)) /\ V[m].ends[k] \in Nat
           /\ Append(Point, k) \in DOMAIN t
      /\ crumbs[m] <= Len(Operands[Current])
      /\ NextOper = crumbs[m] + 1
  BY Here
<1>2. Len(Operands[Current]) \in Nat /\ min \in Nat /\ off \in Nat /\ off <= 15
  BY <1>1, OperandTypes, BytesIs
<1>. HIDE DEF V, off, min
<1>3. crumbs[m] = Len(Operands[Current])
  BY <1>1, <1>2
<1>4. X = {V[m].off + MinLength[V[m].ct]} \cup {V[m].ends[k] : k \in DOMAIN V[m].ends}
  <2>1. V[m].off + MinLength[V[m].ct] = off + min
    BY <1>1 DEF min
  <2>2. \A k \in 1 .. crumbs[m] : V[m].ends[k] = End(Append(Point, k))
    BY <1>1
  <2>3. {V[m].ends[k] : k \in DOMAIN V[m].ends} = {End(Append(Point, k)) : k \in 1 .. Len(Operands[Current])}
    <3>. DEFINE n == crumbs[m]
                f == V[m].ends
                e(k) == End(Append(Point, k))
    <3>1. DOMAIN f = 1 .. n /\ n = Len(Operands[Current]) /\ \A k \in 1 .. n : f[k] = e(k)
      BY <1>1, <1>3, <2>2
    <3>. HIDE DEF n, f, e
    <3>2. {f[k] : k \in DOMAIN f} = {e(k) : k \in 1 .. Len(Operands[Current])}
      BY <3>1
    <3>. QED  BY <3>2 DEF f, e
  <2>. QED  BY <2>1, <2>3
<1>5. Latest(X) = Whole(V, m)
  BY <1>4 DEF Whole
<1>6. Whole(V, m) \in Nat /\ Whole(V, m) \in X /\ off <= Whole(V, m)
  <2>1. LET Y == {V[m].off + MinLength[V[m].ct]} \cup {V[m].ends[k] : k \in DOMAIN V[m].ends} IN
        /\ Whole(V, m) \in Nat /\ Whole(V, m) \in Y /\ V[m].off <= Whole(V, m)
    BY <1>1, WholeIs
  <2>. HIDE DEF X
  <2>. QED  BY <1>1, <1>4, <2>1
<1>7. CurrentLength(min) = Latest(X) - off
  BY DEF CurrentLength, off
<1>8. ASSUME Bounded(t), PrintableTree(t) PROVE Whole(V, m) <= MaxEnd
  <2>1. CASE Whole(V, m) = off + min
    <3>1. CASE min <= 8
      BY <1>2, <2>1, <3>1, BytesIs DEF MaxEnd
    <3>2. CASE ~(min <= 8)
      <4>1. PICK k \in DOMAIN Operands[Current] :
              /\ Operands[Current][k].table = Leaf /\ Operands[Current][k].base = 0 /\ Operands[Current][k].len > 0
              /\ min <= Operands[Current][k].rel + Operands[Current][k].len
              /\ Operands[Current][k].len <= 8
        BY <1>1, <1>2, <3>2, FieldsAssumption DEF min
      <4>. DEFINE sym == Operands[Current][k]
                  path == Append(Point, k)
      <4>2. k \in 1 .. crumbs[m] /\ k \in Nat /\ k > 0 /\ k <= crumbs[m]
        <5>1. Operands[Current] \in Seq(OperandSymbols)
          BY <1>1, SleighAssumption
        <5>2. DOMAIN Operands[Current] = 1 .. Len(Operands[Current])
          BY <5>1, LenProperties
        <5>. QED  BY <1>1, <1>3, <5>2
      <4>3. sym.rel \in Nat /\ sym.len \in Nat
        BY <1>1, <1>3, <4>2, OperandTypes
      <4>4. path \in DOMAIN t /\ t[path] = Node(Leaf, off + sym.rel, sym.len)
        <5>1. Level(crumbs, t, m) /\ Ended(crumbs, m) = crumbs[m]
          BY <1>1 DEF Walked, Ended
        <5>. QED  BY <1>1, <4>1, <4>2, <5>1 DEF Level, Current, off
      <4>5. off + sym.rel < BufLen
        <5>1. t[path].ct = Leaf /\ t[path].length > 0 /\ t[path].offset = off + sym.rel
          BY <4>1, <4>4 DEF Node
        <5>. QED  BY <1>8, <4>4, <5>1 DEF PrintableTree
      <4>6. min <= sym.rel + sym.len /\ sym.len <= 8
        BY <4>1
      <4>. HIDE DEF sym
      <4>. QED  BY <1>2, <2>1, <4>3, <4>5, <4>6, BytesIs DEF MaxEnd
    <3>. QED  BY <3>1, <3>2
  <2>2. CASE Whole(V, m) # off + min
    <3>1. PICK k \in 1 .. crumbs[m] : Whole(V, m) = End(Append(Point, k))
      BY <1>3, <1>6, <2>2
    <3>2. Append(Point, k) \in DOMAIN t
      BY <1>1
    <3>3. EndOf(t, Append(Point, k)) = End(Append(Point, k))
      BY DEF EndOf, End
    <3>. QED  BY <1>8, <3>1, <3>2, <3>3 DEF Bounded
  <2>. QED  BY <2>1, <2>2
<1>9. CurrentLength(min) \in Nat /\ off + CurrentLength(min) = Whole(V, m)
  BY <1>2, <1>5, <1>6, <1>7
<1>10. Len(V[m].ends) >= Len(Operands[V[m].ct])
  BY <1>1, <1>2, <1>3
<1>. QED  BY <1>6, <1>8, <1>9, <1>10 DEF V, off, min

LEMMA RootPath == ASSUME NEW c \in Seq(Nat), Len(c) > 0
                  PROVE  (At(c, Len(c)) = <<>>) <=> (Len(c) = 1)
<1>1. Len(c) \in 1 .. Len(c) /\ Len(c) \in Nat
  BY LenProperties
<1>. DEFINE m == Len(c)
            p == At(c, m)
<1>2. p \in Seq(Nat) /\ Len(p) = m - 1
  BY <1>1, Path
<1>. HIDE DEF p
<1>3. p = <<>> => m = 1
  BY <1>1, <1>2, EmptySeq
<1>4. m = 1 => p = <<>>
  BY <1>2, EmptySeq
<1>. QED  BY <1>3, <1>4 DEF p

LEMMA StepFinish ==
  ASSUME EngineInv, FinishConstructor
  PROVE  EngineInv'
<1>. DEFINE m == Len(crumbs)
            t == pos.tree
            V == View(crumbs, t)
            length == CurrentLength(MinLength[Current])
            u == Closed(t, Point, length)
            verdict == Instruction(pos.buf).verdict
<1>1. /\ stage = "resolve" /\ context_db' = context_db /\ loader' = loader
      /\ NextOper > Len(Operands[Current])
      /\ pos' = [pos EXCEPT !.tree[Point].length = length,
                            !.state = IF Point = <<>> THEN "disassembly" ELSE @]
      /\ crumbs' = Point
      /\ stage' = IF Point = <<>> THEN "print" ELSE "resolve"
  BY DEF FinishConstructor, Resolving, Popped
<1>2. ResolvingOK(pos, crumbs) /\ ParserOK(pos)
  BY <1>1 DEF EngineInv
<1>3. Walked(crumbs, t) /\ crumbs \in Seq(Nat) /\ Len(crumbs) > 0
  BY <1>2 DEF ResolvingOK, Walked
<1>4. /\ m \in Nat \ {0} /\ V \in Stacks(m) /\ Point = At(crumbs, m)
      /\ Point \in DOMAIN t /\ t[Point].ct \in Constructors
  BY <1>3, Here DEF Current
<1>5. /\ Len(V[m].ends) >= Len(Operands[V[m].ct])
      /\ length \in Nat /\ Whole(V, m) \in Nat
      /\ t[Point].offset + length = Whole(V, m)
      /\ Bounded(t) /\ PrintableTree(t) => Whole(V, m) <= MaxEnd
  BY <1>1, <1>3, HereDone
<1>. HIDE DEF length, V
<1>6. /\ IsTree(t)
      /\ IsTree(u) /\ DOMAIN u = DOMAIN t
      /\ \A x \in DOMAIN t : /\ u[x].ct = t[x].ct /\ u[x].offset = t[x].offset
                             /\ x # Point => u[x] = t[x]
      /\ u[Point].length = length
  <2>1. IsTree(t)
    BY <1>3 DEF Walked
  <2>2. ASSUME NEW q \in DOMAIN t, NEW n \in Nat
        PROVE  LET v == Closed(t, q, n) IN
               /\ IsTree(v) /\ DOMAIN v = DOMAIN t
               /\ \A x \in DOMAIN t : /\ v[x].ct = t[x].ct /\ v[x].offset = t[x].offset
                                      /\ x # q => v[x] = t[x]
               /\ v[q].length = n
    BY <2>1, Closing
  <2>. QED  BY <1>4, <1>5, <2>1, <2>2, Zenon
<1>. HIDE DEF u, t
<1>7. PrintableTree(u) <=> PrintableTree(t)
  <2>1. \A x \in DOMAIN t : u[x].ct = Leaf => u[x] = t[x]
    BY <1>4, <1>6, SleighAssumption
  <2>2. \A x \in DOMAIN t : t[x].ct = Leaf => u[x] = t[x]
    BY <1>4, <1>6, SleighAssumption
  <2>. QED  BY <1>6, <2>1, <2>2 DEF PrintableTree
<1>8. Rooted(u)
  <2>1. Rooted(t)
    BY <1>2 DEF ResolvingOK, t
  <2>. QED  BY <1>6, <2>1 DEF Rooted
<1>9. Bounded(u)
  <2>. SUFFICES ASSUME PrintableTree(u), NEW x \in DOMAIN u PROVE EndOf(u, x) <= MaxEnd
    BY DEF Bounded
  <2>1. Bounded(t) /\ PrintableTree(t)
    BY <1>2, <1>7 DEF ResolvingOK, t
  <2>2. CASE x = Point
    <3>1. EndOf(u, x) = Whole(V, m)
      BY <1>4, <1>5, <1>6, <2>2 DEF EndOf
    <3>. QED  BY <1>5, <2>1, <3>1
  <2>3. CASE x # Point
    <3>1. EndOf(u, x) = EndOf(t, x) /\ x \in DOMAIN t
      BY <1>6, <2>3 DEF EndOf
    <3>. QED  BY <2>1, <3>1 DEF Bounded
  <2>. QED  BY <2>2, <2>3
<1>10. /\ pos'.buf = pos.buf /\ pos'.context = pos.context /\ pos'.tree = u /\ ParserOK(pos')
  <2>. DEFINE s == IF Point = <<>> THEN "disassembly" ELSE pos.state
  <2>1. pos = [state |-> pos.state, buf |-> pos.buf, context |-> pos.context, tree |-> t]
        /\ pos.buf \in Memory /\ pos.context \in Contexts
    BY <1>2 DEF ParserOK, t
  <2>2. pos' = [pos EXCEPT !.tree = u, !.state = s]
    BY <1>1, <2>1 DEF Closed, u, t
  <2>. HIDE DEF s
  <2>3. pos' = [state |-> s, buf |-> pos.buf, context |-> pos.context, tree |-> u]
    BY <2>1, <2>2
  <2>4. pos'.buf = pos.buf /\ pos'.context = pos.context /\ pos'.tree = u /\ pos'.state = s
    BY <2>3
  <2>. QED  BY <2>1, <2>3, <2>4 DEF ParserOK
<1>11. ~PrintableTree(u) => verdict # "ok"
  BY <1>2, <1>7 DEF ResolvingOK, t
<1>12. PrintableTree(u) /\ verdict # "unknown" => Chained(pos.buf, V, m, pos.context)
  BY <1>2, <1>7 DEF ResolvingOK, t, V
<1>13. pos.buf \in Memory /\ pos.context \in Contexts
  BY <1>2 DEF ParserOK
<1>14. (Point = <<>>) <=> (m = 1)
  BY <1>3, <1>4, RootPath
<1>. HIDE DEF m, verdict
<1>15. CASE m = 1
  <2>1. stage' = "print" /\ Point = <<>>
    BY <1>1, <1>14, <1>15
  <2>2. PrintableTree(u) /\ verdict # "unknown" => verdict = "ok" /\ Instruction(pos.buf).end = Whole(V, m)
    BY <1>4, <1>5, <1>12, <1>13, <1>15, ChainEnds DEF verdict
  <2>3. u[<<>>].length = Whole(V, m)
    <3>1. t[Point].offset = 0
      BY <1>2, <2>1 DEF ResolvingOK, Rooted, t
    <3>. QED  BY <1>5, <1>6, <2>1, <3>1
  <2>4. PrintOK(pos')
    BY <1>6, <1>8, <1>9, <1>10, <1>11, <2>2, <2>3 DEF PrintOK, verdict
  <2>. QED  BY <1>1, <1>10, <2>1, <2>4 DEF EngineInv
<1>16. CASE m # 1
  <2>1. stage' = "resolve" /\ m \in Nat \ {0, 1} /\ m > 1
    BY <1>1, <1>4, <1>14, <1>16
  <2>2. /\ Walked(crumbs', u) /\ Len(crumbs') = m - 1
        /\ View(crumbs', u) = Finished(Cut(V, m), m - 1, Whole(V, m))
    <3>1. /\ Walked(Point, u) /\ Len(Point) = Len(crumbs) - 1
          /\ View(Point, u) = Finished(Cut(View(crumbs, t), Len(crumbs)), Len(crumbs) - 1, t[At(crumbs, Len(crumbs))].offset + length)
      <4>1. LET p == At(crumbs, Len(crumbs))
                w == Closed(t, p, length)
            IN  /\ Walked(p, w) /\ Len(p) = Len(crumbs) - 1
                /\ View(p, w) = Finished(Cut(View(crumbs, t), Len(crumbs)), Len(crumbs) - 1, t[p].offset + length)
        BY <1>3, <1>5, <2>1, UpStep DEF m
      <4>. QED  BY <1>4, <4>1 DEF m, u
    <3>. QED  BY <1>1, <1>4, <1>5, <3>1 DEF m, V
  <2>3. PrintableTree(u) /\ verdict # "unknown" => Chained(pos.buf, View(crumbs', u), m - 1, pos.context)
    <3>1. ASSUME Chained(pos.buf, V, m, pos.context)
          PROVE  Chained(pos.buf, Finished(Cut(V, m), m - 1, Whole(V, m)), m - 1, pos.context)
      BY <1>4, <1>5, <1>13, <2>1, <3>1, ChainUp
    <3>. QED  BY <1>12, <2>2, <3>1
  <2>4. ResolvingOK(pos', crumbs')
    BY <1>8, <1>9, <1>10, <1>11, <2>2, <2>3 DEF ResolvingOK, verdict
  <2>. QED  BY <1>1, <1>10, <2>1, <2>4 DEF EngineInv
<1>. QED  BY <1>15, <1>16

\* A tree of its root alone.
LEMMA FirstNode ==
  ASSUME NEW ct \in Constructors
  PROVE  LET t == [path \in {<<>>} |-> Node(ct, 0, 0)]
             c == <<0>>
         IN  /\ Walked(c, t) /\ Rooted(t) /\ Bounded(t) /\ PrintableTree(t) /\ Len(c) = 1
             /\ View(c, t) = [j \in 1 .. 1 |-> [ct |-> ct, off |-> 0, ends |-> <<>>]]
<1>. DEFINE node == Node(ct, 0, 0)
            t == [path \in {<<>>} |-> node]
            c == <<0>>
<1>1. node \in Nodes /\ node.ct = ct /\ node.offset = 0 /\ node.length = 0
  BY DEF Node, Nodes
<1>. HIDE DEF node
<1>2. DOMAIN t = {<<>>} /\ t[<<>>] = node /\ t = [x \in DOMAIN t |-> t[x]]
  OBVIOUS
<1>3. c \in Seq(Nat) /\ Len(c) = 1 /\ c[1] = 0
  OBVIOUS
<1>. HIDE DEF t, c
<1>4. \A p \in Seq(Nat), k \in Nat : Append(p, k) \notin DOMAIN t
  BY <1>2, AppendProperties
<1>5. <<>> \in Seq(Nat) /\ <<>> \in DOMAIN t
  BY <1>2, EmptySeq
<1>6. IsTree(t)
  BY <1>1, <1>2, <1>4, <1>5 DEF IsTree
<1>7. At(c, 1) = <<>>
  <2>1. 1 \in 1 .. Len(c) /\ Len(c) = 1
    BY <1>3
  <2>2. (At(c, Len(c)) = <<>>) <=> (Len(c) = 1)
    <3>1. \A d \in Seq(Nat) : Len(d) > 0 => ((At(d, Len(d)) = <<>>) <=> (Len(d) = 1))
      BY RootPath
    <3>2. Len(c) > 0
      BY <1>3
    <3>. QED  BY <1>3, <3>1, <3>2, Zenon
  <2>. QED  BY <1>3, <2>2
<1>8. Ended(c, 1) = 0
  BY <1>3 DEF Ended
<1>9. Level(c, t, 1)
  <2>1. 0 \in Offsets
    BY SleighAssumption DEF Offsets
  <2>2. Len(Operands[ct]) \in Nat
    BY OperandTypes
  <2>3. c[1] <= Len(Operands[ct]) /\ ~(1 < Len(c)) /\ ~\E k \in Nat : k > 0 /\ k <= Ended(c, 1)
    BY <1>3, <1>8, <2>2
  <2>. QED  BY <1>1, <1>2, <1>4, <1>5, <1>7, <2>1, <2>3 DEF Level
<1>10. Walked(c, t)
  <2>1. \A j \in 1 .. Len(c) : j = 1
    BY <1>3
  <2>. QED  BY <1>3, <1>6, <1>9, <2>1 DEF Walked
<1>11. Rooted(t) /\ PrintableTree(t)
  BY <1>1, <1>2 DEF Rooted, PrintableTree
<1>12. Bounded(t)
  BY <1>1, <1>2, BytesIs DEF Bounded, EndOf, MaxEnd
<1>13. View(c, t) = [j \in 1 .. 1 |-> [ct |-> ct, off |-> 0, ends |-> <<>>]]
  <2>1. /\ EndsAt(c, t, 1) \in Seq(Nat) /\ Len(EndsAt(c, t, 1)) = 0
    <3>1. 1 \in 1 .. Len(c)
      BY <1>3
    <3>. QED  BY <1>8, <1>10, <3>1, ViewIs
  <2>2. EndsAt(c, t, 1) = <<>>
    BY <2>1, EmptySeq
  <2>3. View(c, t) = [j \in 1 .. 1 |-> [ct |-> t[At(c, j)].ct, off |-> t[At(c, j)].offset, ends |-> EndsAt(c, t, j)]]
    BY <1>3 DEF View
  <2>4. \A j \in 1 .. 1 : j = 1
    OBVIOUS
  <2>5. \A j \in 1 .. 1 : [ct |-> t[At(c, j)].ct, off |-> t[At(c, j)].offset, ends |-> EndsAt(c, t, j)]
                          = [ct |-> ct, off |-> 0, ends |-> <<>>]
    BY <1>1, <1>2, <1>7, <2>2, <2>4
  <2>. QED  BY <2>3, <2>5
<1>. QED  BY <1>3, <1>10, <1>11, <1>12, <1>13 DEF t, c, node

LEMMA StepBegin ==
  ASSUME EngineInv, NEW mem \in Memory, NEW length, ObtainContext(mem, length)
  PROVE  EngineInv'
<1>. DEFINE buf == LoadFill(mem, length)
            ct  == Resolved(Root, buf, 0, context_db)
            t   == [path \in {<<>>} |-> Node(ct, 0, 0)]
            context == IF ct = NoMatch THEN context_db ELSE SetsContext[ct][context_db]
<1>1. /\ stage = "ready" /\ loader' = [mem |-> mem, length |-> length] /\ context_db' = context_db
      /\ stage' = IF ct = NoMatch THEN "thrown" ELSE "resolve"
      /\ pos' = [state |-> "uninitialized", buf |-> buf, context |-> context, tree |-> t]
      /\ crumbs' = <<0>>
  BY DEF ObtainContext, CurState
<1>2. context_db = SpecContext /\ SpecContext \in Contexts /\ Root \in Tables
  BY <1>1, SleighAssumption DEF EngineInv
<1>3. buf \in Memory
  <2>1. \A k \in Offsets : mem[k] \in Values /\ 0 \in Values
    BY SleighAssumption DEF Memory
  <2>. QED  BY <2>1 DEF LoadFill, Memory
<1>4. /\ ct \in Constructors \cup {NoMatch}
      /\ ct # NoMatch => ct \in Constructors /\ SetsContext[ct][context_db] \in Contexts
  <2>. HIDE DEF buf
  <2>. QED  BY <1>2, <1>3, Matching
<1>5. /\ Instruction(buf).verdict # "unknown" /\ ct = NoMatch => Instruction(buf).verdict = "refused"
      /\ Instruction(buf).verdict # "unknown" /\ ct # NoMatch =>
           Chained(buf, [j \in 1 .. 1 |-> [ct |-> ct, off |-> 0, ends |-> <<>>]], 1, SetsContext[ct][SpecContext])
  <2>1. ct = Resolved(Root, buf, 0, SpecContext)
    BY <1>2
  <2>. HIDE DEF buf, ct
  <2>. QED  BY <1>3, <2>1, ChainBegins
<1>. HIDE DEF ct, buf
<1>6. context \in Contexts
  BY <1>2, <1>4
<1>. HIDE DEF t, context
<1>7. pos'.buf = buf /\ pos'.context = context /\ pos'.tree = t /\ pos'.state = "uninitialized"
      /\ loader'.mem = mem /\ loader'.length = length
  BY <1>1
<1>8. ParserOK(pos') /\ LoaderOK(loader') /\ pos'.buf = LoadFill(loader'.mem, loader'.length)
  BY <1>1, <1>3, <1>6, <1>7 DEF ParserOK, LoaderOK, buf
<1>9. CASE ct = NoMatch
  <2>1. stage' = "thrown"
    BY <1>1, <1>9
  <2>2. ThrownOK(pos')
    BY <1>5, <1>7, <1>9 DEF ThrownOK
  <2>. QED  BY <1>1, <1>2, <1>8, <2>1, <2>2 DEF EngineInv
<1>10. CASE ct # NoMatch
  <2>1. stage' = "resolve" /\ context = SetsContext[ct][SpecContext]
    BY <1>1, <1>2, <1>10 DEF context
  <2>2. /\ Walked(crumbs', t) /\ Rooted(t) /\ Bounded(t) /\ PrintableTree(t) /\ Len(crumbs') = 1
        /\ View(crumbs', t) = [j \in 1 .. 1 |-> [ct |-> ct, off |-> 0, ends |-> <<>>]]
    <3>1. ct \in Constructors
      BY <1>4, <1>10
    <3>. QED  BY <1>1, <3>1, FirstNode DEF t
  <2>3. Instruction(buf).verdict # "unknown" => Chained(buf, View(crumbs', t), Len(crumbs'), context)
    BY <1>5, <1>10, <2>1, <2>2
  <2>4. ResolvingOK(pos', crumbs')
    BY <1>7, <2>2, <2>3 DEF ResolvingOK
  <2>. QED  BY <1>1, <1>2, <1>8, <2>1, <2>4 DEF EngineInv
<1>. QED  BY <1>9, <1>10
LEMMA InitEngine == SleighInit => EngineInv
<1>. SUFFICES ASSUME SleighInit PROVE EngineInv
  OBVIOUS
<1>1. /\ stage = "ctor" /\ context_db = NoContext /\ loader = NoLoader /\ pos = NewParser
  BY DEF SleighInit
<1>2. NoContext \in Contexts /\ 0 \in Values
  BY SleighAssumption
<1>3. NoLoader.mem \in Memory /\ NewParser.buf \in Memory
  BY <1>2 DEF NoLoader, NewParser, Memory
<1>4. LoaderOK(loader) /\ ParserOK(pos)
  <2>1. NewParser = [state |-> NewParser.state, buf |-> NewParser.buf,
                     context |-> NewParser.context, tree |-> NewParser.tree]
        /\ NewParser.context = NoContext
    BY DEF NewParser
  <2>. QED  BY <1>1, <1>2, <1>3, <2>1 DEF LoaderOK, ParserOK
<1>. QED  BY <1>1, <1>2, <1>4 DEF EngineInv

\* The worker starts, or starts again.
LEMMA StepCtor == EngineInv /\ WorkerCtor => EngineInv'
<1>. SUFFICES ASSUME EngineInv, WorkerCtor PROVE EngineInv'
  OBVIOUS
<1>1. /\ stage' \in {"ready", "aborted"} /\ loader' = loader /\ pos' = pos
      /\ context_db' \in {SpecContext, context_db}
      /\ stage' = "ready" => context_db' = SpecContext
  BY DEF WorkerCtor
<1>2. SpecContext \in Contexts
  BY SleighAssumption
<1>3. context_db' \in Contexts /\ LoaderOK(loader') /\ ParserOK(pos')
  BY <1>1, <1>2 DEF EngineInv
<1>. QED  BY <1>1, <1>3 DEF EngineInv

LEMMA StepReturn == EngineInv /\ Return => EngineInv'
<1>. SUFFICES ASSUME EngineInv, Return PROVE EngineInv'
  OBVIOUS
<1>1. /\ stage \in {"print", "thrown"} /\ stage' = "ready"
      /\ context_db' = context_db /\ loader' = loader /\ pos' = pos
  BY DEF Return, Dumped
<1>2. context_db' = SpecContext /\ context_db' \in Contexts /\ LoaderOK(loader') /\ ParserOK(pos')
  BY <1>1 DEF EngineInv
<1>. QED  BY <1>1, <1>2 DEF EngineInv

LEMMA StepCrash == EngineInv /\ Crash => EngineInv'
<1>. SUFFICES ASSUME Crash PROVE EngineInv'
  OBVIOUS
<1>1. SleighInit => EngineInv
  BY InitEngine
<1>2. SleighInit'
  BY DEF Crash, SleighInit
<1>. QED  BY <1>1, <1>2, InitEngine, PTL

LEMMA StepSame == EngineInv /\ UNCHANGED engine => EngineInv'
<1>. SUFFICES ASSUME EngineInv, UNCHANGED engine PROVE EngineInv'
  OBVIOUS
<1>1. stage' = stage /\ context_db' = context_db /\ loader' = loader /\ pos' = pos /\ crumbs' = crumbs
  BY DEF engine
<1>. QED  BY <1>1 DEF EngineInv

LEMMA NextEngine == EngineInv /\ [GhidraNext]_working => EngineInv'
<1>. SUFFICES ASSUME EngineInv, [GhidraNext]_working PROVE EngineInv'
  OBVIOUS
<1>1. CASE Other
  BY <1>1, StepSame DEF Other
<1>2. CASE Construct
  BY <1>2, StepCtor DEF Construct
<1>3. CASE Begin
  <2>. DEFINE length == slots[(next + NSlots - 1) % NSlots].len
  <2>1. PICK mem \in Held(length) : ObtainContext(mem, length)
    BY <1>3 DEF Begin
  <2>2. mem \in Memory
    BY DEF Held
  <2>. HIDE DEF length
  <2>. QED  BY <2>1, <2>2, StepBegin
<1>4. CASE Step
  BY <1>4, StepLeaf, StepDown, StepFinish DEF Step, Resolve
<1>5. CASE Return
  BY <1>5, StepReturn
<1>6. CASE Crash
  BY <1>6, StepCrash
<1>7. CASE Gone \/ UNCHANGED working
  <2>1. UNCHANGED engine
    BY <1>7 DEF Gone, working
  <2>. QED  BY <2>1, StepSame
<1>. QED  BY <1>1, <1>2, <1>3, <1>4, <1>5, <1>6, <1>7, Zenon DEF GhidraNext

\* The invariant of the engine: while a tree is built, what remains of the answer
\* is what the stack of constructors begun still asks for.
THEOREM EngineInvariant == GhidraSpec => []EngineInv
<1>1. GhidraInit => EngineInv
  BY InitEngine DEF GhidraInit
<1>. QED  BY <1>1, NextEngine, PTL DEF GhidraSpec

-----------------------------------------------------------------------------
(***************************************************************************)
(* GhidraWorker implements Decoders                                        *)
(***************************************************************************)

\* The engine works on a candidate that was taken, for ghidra.
InCall == stage \in {"resolve", "print", "thrown"} => taken /\ InGhidra

LEMMA NextCall == InCall /\ [GhidraNext]_working => InCall'
<1>. SUFFICES ASSUME InCall, [GhidraNext]_working PROVE InCall'
  OBVIOUS
<1>1. CASE Other
  <2>1. stage' = stage /\ adapter' = adapter /\ (~taken \/ ~InGhidra)
    BY <1>1 DEF Other, FillSlot, DecodeSlot, engine
  <2>. QED  BY <2>1 DEF InCall
<1>2. CASE Construct
  BY <1>2 DEF Construct, WorkerCtor, InCall
<1>3. CASE Begin
  <2>1. taken' = taken /\ adapter' = adapter /\ taken /\ InGhidra
    BY <1>3 DEF Begin, decoding
  <2>. QED  BY <2>1 DEF InCall, InGhidra
<1>4. CASE Step
  <2>1. taken' = taken /\ adapter' = adapter /\ InGhidra /\ stage = "resolve"
    BY <1>4 DEF Step, decoding, Resolve, ResolveLeaf, ResolveSubtable, FinishConstructor, Resolving
  <2>. QED  BY <2>1 DEF InCall, InGhidra
<1>5. CASE Return \/ Crash
  BY <1>5 DEF Return, Crash, InCall
<1>6. CASE Gone \/ UNCHANGED working
  <2>1. stage' = stage /\ taken' = taken /\ adapter' = adapter
    BY <1>6 DEF Gone, working, decoding, engine
  <2>. QED  BY <2>1 DEF InCall, InGhidra
<1>. QED  BY <1>1, <1>2, <1>3, <1>4, <1>5, <1>6, Zenon DEF GhidraNext

\* A parse is always one of a candidate that was taken from a slot for ghidra.
THEOREM WorksOnCandidates == GhidraSpec => []InCall
<1>1. GhidraInit => InCall
  BY DEF GhidraInit, SleighInit, InCall
<1>. QED  BY <1>1, NextCall, PTL DEF GhidraSpec

\* The size of a tree that was printed is one that Decoders allows.
LEMMA LengthAllowed ==
  ASSUME EngineInv, stage = "print", Printable
  PROVE  Length \in GhidraSizes
<1>1. PrintOK(pos) /\ PrintableTree(pos.tree)
  BY DEF EngineInv, Printable, PrintableTree
<1>2. /\ pos.tree[<<>>] \in Nodes /\ pos.tree[<<>>].offset = 0
      /\ EndOf(pos.tree, <<>>) <= MaxEnd
  BY <1>1 DEF PrintOK, IsTree, Rooted, Bounded
<1>3. Length \in Nat /\ Length <= MaxEnd
  BY <1>2 DEF Length, Nodes, EndOf
<1>. QED  BY <1>3 DEF GhidraSizes, MaxEnd

LEMMA DumpedAllowed ==
  ASSUME EngineInv, NEW o
  PROVE  Dumped(o) \subseteq Accept(o, Printed, GhidraSizes)
<1>1. CASE stage = "print" /\ Printable
  BY <1>1, LengthAllowed DEF Dumped, Accept
<1>2. CASE ~(stage = "print" /\ Printable)
  BY <1>2 DEF Dumped
<1>. QED  BY <1>1, <1>2

\* What ghidra answers is what Decoders says it may.
LEMMA ReturnAnswers ==
  ASSUME EngineInv, Return, NEW length
  PROVE  output' \in TryDecode(adapter, Cleared(output), length)
<1>. DEFINE o == Cleared(output)
<1>1. adapter = "ghidra"
  BY DEF Return, InGhidra
<1>2. TryDecode(adapter, o, length) = Ghidra(o, length)
  BY <1>1 DEF TryDecode
<1>. SUFFICES output' \in Ghidra(o, length)
  BY <1>2
<1>3. CASE output' = Caught(o)
  BY <1>3 DEF Caught, Ghidra, Reject
<1>4. CASE output' \in Dumped(o)
  <2>. HIDE DEF o
  <2>. QED  BY <1>4, DumpedAllowed DEF Ghidra
<1>. QED  BY <1>3, <1>4 DEF Return

LEMMA MoreCrashes ==
  ASSUME NEW o, NEW S, NEW T, S \subseteq T
  PROVE  Crashes(o, S) \subseteq Crashes(o, T)
BY DEF Crashes

\* So is a crash before or after dump.
LEMMA CrashIsOne ==
  ASSUME EngineInv, Crash, NEW length
  PROVE  output' \in Crashes(Cleared(output), TryDecode(adapter, Cleared(output), length))
<1>. DEFINE o == Cleared(output)
            answers == TryDecode(adapter, o, length)
<1>1. adapter = "ghidra" /\ output' \in Crashes(o, Dumped(o))
  BY DEF Crash, InGhidra
<1>2. answers = Ghidra(o, length)
  BY <1>1 DEF TryDecode
<1>. HIDE DEF o
<1>3. Dumped(o) \subseteq answers
  BY <1>2, DumpedAllowed DEF Ghidra
<1>. HIDE DEF answers
<1>4. output' \in Crashes(o, answers)
  BY <1>1, <1>3, MoreCrashes
<1>. QED  BY <1>4 DEF o, answers

\* Each step of the worker is one of Decoders, or is not seen from worker().
LEMMA StepsMap == EngineInv /\ InCall /\ [GhidraNext]_working => [DecodersNext]_decoding
<1>. SUFFICES ASSUME EngineInv, InCall, [GhidraNext]_working PROVE [DecodersNext]_decoding
  OBVIOUS
<1>1. CASE Other
  BY <1>1 DEF Other, DecodersNext
<1>2. CASE Construct \/ Begin \/ Step
  BY <1>2 DEF Construct, Begin, Step
<1>3. CASE Return
  <2>1. taken /\ taken' = FALSE /\ UNCHANGED <<vars, adapter>>
    BY <1>3 DEF Return, Dumped, InCall
  <2>2. DecodeSlot
    BY <1>3, <2>1, ReturnAnswers DEF DecodeSlot
  <2>. QED  BY <2>2 DEF DecodersNext
<1>4. CASE Crash
  <2>1. taken /\ taken' = FALSE /\ UNCHANGED <<vars, adapter>>
    BY <1>4 DEF Crash, InCall
  <2>2. DecodeSlot
    BY <1>4, <2>1, CrashIsOne DEF DecodeSlot
  <2>. QED  BY <2>2 DEF DecodersNext
<1>5. CASE Gone \/ UNCHANGED working
  BY <1>5 DEF Gone, working
<1>. QED  BY <1>1, <1>2, <1>3, <1>4, <1>5, Zenon DEF GhidraNext

\* Seen from worker(), try_decode of ghidra.cc with its engine is one of the adapters
\* of Decoders: the steps of a parse are not seen, a return or a crash in the middle
\* is one decode, with an answer that Decoders allows and a size of at most 23.
THEOREM GhidraImplementsDecoders == GhidraSpec => DecodersSpec
<1>1. GhidraInit => DecodersInit
  BY DEF GhidraInit
<1>. QED  BY <1>1, StepsMap, EngineInvariant, WorksOnCandidates, PTL DEF GhidraSpec, DecodersSpec

\* The same, as the run checks it.
THEOREM GhidraStepsAreDecodes == GhidraSpec => ImplementsDecoders
<1>1. [DecodersNext]_decoding => [InGhidra => DecodersNext]_decoding
  OBVIOUS
<1>. QED  BY <1>1, GhidraImplementsDecoders, PTL DEF DecodersSpec, ImplementsDecoders

\* What is proved of every adapter holds with ghidra's engine spelled out.
THEOREM GhidraAnswersAreNew ==
  GhidraSpec => [](DecodersTypeOK /\ NothingOld /\ TextFits)
<1>. QED  BY GhidraImplementsDecoders, DecodersTyped, AnswersAreNew, TextsStayInSlot, PTL

LEMMA DecodersImplementMutators == DecodersSpec => Spec
<1>1. DecodersInit => Init
  BY DEF DecodersInit
<1>2. [DecodersNext]_decoding => [Next]_vars
  BY DEF DecodersNext, FillSlot, DecodeSlot, decoding
<1>. QED  BY <1>1, <1>2, PTL DEF DecodersSpec, Spec

\* So does what is proved of the mutators that feed it.
THEOREM GhidraFedWithinBounds ==
  GhidraSpec => [](WithinBuffers /\ OneCandidate /\ SlidesThrough /\ CampaignDrawn)
<1>. QED
  BY GhidraImplementsDecoders, DecodersImplementMutators, BuffersHold,
     SlotsHoldOneCandidate, EveryWindow, CampaignEnds, PTL

-----------------------------------------------------------------------------
(***************************************************************************)
(* SingleShot                                                              *)
(***************************************************************************)

\* An answer to the input in(put).
Shot(input, o) ==
  LET whole == Instruction(input) IN
  CASE whole.verdict = "ok" -> o.status = "S_SUCCESS" /\ o.ndecoded = whole.end
    [] whole.verdict = "refused" -> o.status = "S_FAILURE" /\ o.ndecoded = 0
    [] OTHER -> TRUE

\* A worker that has not been constructed, or not again, has no other answer than
\* its crash.
ShotInv ==
  /\ loader.length \in Nat
  /\ InGhidra /\ stage = "ctor" => output.status \in {"S_NONE", "S_CRASH"}
  /\ InGhidra /\ stage = "ready" /\ Decoded /\ loader.length > 0 /\ output.status # "S_CRASH" =>
       Shot(InputBytes, output)

LEMMA ShotRefused ==
  ASSUME NEW input, NEW o, Instruction(input).verdict # "ok", o.status = "S_FAILURE", o.ndecoded = 0
  PROVE  Shot(input, o)
BY DEF Shot

LEMMA ShotAccepted ==
  ASSUME NEW input, NEW o, o.status = "S_SUCCESS",
         Instruction(input).verdict # "unknown" =>
           Instruction(input).verdict = "ok" /\ o.ndecoded = Instruction(input).end,
         Instruction(input).verdict \in {"ok", "refused", "unknown"}
  PROVE  Shot(input, o)
BY DEF Shot

\* With a byte of input the loader's window ends where the input does.
LEMMA WindowIsInput ==
  ASSUME loader.length \in Nat, loader.length > 0
  PROVE  LoadFill(loader.mem, loader.length) = InputBytes
<1>1. \A k \in Offsets : InWindow(k, loader.length) <=> k < loader.length
  <2>1. \A k \in Offsets : k \in Int
    BY DEF Offsets
  <2>. QED  BY <2>1 DEF InWindow
<1>. QED  BY <1>1 DEF LoadFill, InputBytes

LEMMA InstructionTyped ==
  ASSUME NEW bytes \in Memory
  PROVE  Instruction(bytes).verdict \in {"ok", "refused", "unknown"}
<1>. DEFINE q == [table |-> Root, off |-> 0, context |-> SpecContext]
<1>1. Calls \in 0 .. Calls
  BY GhidraAssumption
<1>2. Disassembling(bytes)[Calls] \in Knowledge
  BY <1>1, KnownType
<1>3. q \in PartQuestions
  BY SleighAssumption DEF PartQuestions
<1>4. Disassembling(bytes)[Calls].part[q] \in Answers
  <2>. HIDE DEF q
  <2>. QED  BY <1>2, <1>3 DEF Knowledge
<1>. QED  BY <1>4 DEF Instruction, Answers

LEMMA ShotReturns ==
  ASSUME EngineInv, DecInv, ShotInv, Return
  PROVE  ShotInv'
<1>. DEFINE o == Cleared(output)
<1>1. /\ stage' = "ready" /\ loader' = loader /\ pos' = pos /\ adapter' = adapter
      /\ stage \in {"print", "thrown"}
  BY DEF Return, Dumped
<1>2. Blank(o)
  BY ClearedIsBlank
<1>3. pos.buf = LoadFill(loader.mem, loader.length) /\ pos.buf \in Memory
  BY <1>1 DEF EngineInv, ParserOK
<1>. HIDE DEF o
<1>4. ASSUME loader.length > 0 PROVE Shot(pos.buf, output')
  <2>1. CASE output' = Caught(o) /\ Instruction(pos.buf).verdict # "ok"
    <3>1. output'.status = "S_FAILURE" /\ output'.ndecoded = 0
      <4>1. "S_FAILURE" \in Statuses /\ o \in OutputSlot /\ o.ndecoded = 0
        BY <1>2 DEF Statuses, Blank
      <4>. QED  BY <2>1, <4>1, SaidFields DEF Caught
    <3>. QED  BY <2>1, <3>1, ShotRefused
  <2>2. CASE stage = "print" /\ Printable /\ output' \in Accept(o, Printed, {Length})
    <3>1. PICK t \in Printed : output' = Stored(o, "S_SUCCESS", t, Length)
      BY <2>2 DEF Accept
    <3>2. output'.status = "S_SUCCESS" /\ output'.ndecoded = Length
      <4>1. "S_SUCCESS" \in Statuses /\ o \in OutputSlot /\ t \in Lengths /\ Length \in Size
        <5>1. Length \in GhidraSizes
          BY <2>2, LengthAllowed
        <5>. QED  BY <1>2, <5>1, TextsFit, RoomNumbers, SizesFit DEF Statuses, Blank
      <4>. QED  BY <3>1, <4>1, StoredFields
    <3>3. Instruction(pos.buf).verdict # "unknown" =>
            Instruction(pos.buf).verdict = "ok" /\ output'.ndecoded = Instruction(pos.buf).end
      <4>1. PrintOK(pos) /\ PrintableTree(pos.tree)
        BY <2>2 DEF EngineInv, Printable, PrintableTree
      <4>. QED  BY <3>2, <4>1 DEF PrintOK, Length
    <3>4. Instruction(pos.buf).verdict \in {"ok", "refused", "unknown"}
      BY <1>3, InstructionTyped
    <3>. QED  BY <3>2, <3>3, <3>4, ShotAccepted
  <2>3. \/ output' = Caught(o) /\ (stage = "thrown" \/ (stage = "print" /\ ~Printable))
        \/ stage = "print" /\ Printable /\ output' \in Accept(o, Printed, {Length})
    BY DEF Return, Dumped, o
  <2>4. stage = "thrown" \/ (stage = "print" /\ ~Printable) => Instruction(pos.buf).verdict # "ok"
    BY DEF EngineInv, ThrownOK, PrintOK, Printable, PrintableTree
  <2>. QED  BY <2>1, <2>2, <2>3, <2>4
<1>5. InputBytes' = InputBytes
  BY <1>1 DEF InputBytes
<1>6. loader.length > 0 => Shot(InputBytes', output')
  BY <1>3, <1>4, <1>5, WindowIsInput DEF ShotInv
<1>. QED  BY <1>1, <1>6 DEF ShotInv

LEMMA ShotSame ==
  ASSUME ShotInv, loader' = loader, stage' = stage, adapter' = adapter,
         output' = output, Decoded' => Decoded
  PROVE  ShotInv'
<1>1. InputBytes' = InputBytes
  BY DEF InputBytes
<1>2. InGhidra' = InGhidra
  BY DEF InGhidra
<1>3. loader'.length = loader.length
  OBVIOUS
<1>. HIDE DEF ShotInv
<1>. QED  BY <1>1, <1>2, <1>3 DEF ShotInv

LEMMA NextShot == DecInv /\ EngineInv /\ ShotInv /\ [GhidraNext]_working => ShotInv'
<1>. SUFFICES ASSUME DecInv, EngineInv, ShotInv, [GhidraNext]_working PROVE ShotInv'
  OBVIOUS
<1>1. CASE Other
  <2>1. stage' = stage /\ loader' = loader /\ adapter' = adapter
    BY <1>1 DEF Other, FillSlot, DecodeSlot, engine
  <2>2. CASE FillSlot
    <3>1. output' = output /\ ~taken
      BY <2>2 DEF FillSlot
    <3>2. Decoded' => Decoded
      BY <3>1 DEF Decoded
    <3>. QED  BY <2>1, <3>1, <3>2, ShotSame
  <2>3. CASE ~InGhidra
    <3>1. ~InGhidra' /\ loader'.length = loader.length
      BY <2>1, <2>3 DEF InGhidra
    <3>. QED  BY <3>1 DEF ShotInv
  <2>. QED  BY <1>1, <2>2, <2>3 DEF Other
<1>2. CASE Construct
  <2>1. /\ InGhidra /\ stage = "ctor" /\ stage' \in {"ready", "aborted"} /\ loader' = loader
        /\ output' = output /\ adapter' = adapter /\ taken' = taken
    BY <1>2 DEF Construct, WorkerCtor, decoding
  <2>2. loader'.length = loader.length /\ output.status \in {"S_NONE", "S_CRASH"}
    BY <2>1 DEF ShotInv
  <2>3. Decoded' /\ output'.status # "S_CRASH" => FALSE
    BY <2>1, <2>2 DEF Decoded
  <2>. QED  BY <2>1, <2>2, <2>3 DEF ShotInv
<1>3. CASE Begin
  <2>. DEFINE length == slots[(next + NSlots - 1) % NSlots].len
  <2>1. PICK mem \in Held(length) : ObtainContext(mem, length)
    BY <1>3 DEF Begin
  <2>2. loader' = [mem |-> mem, length |-> length]
    BY <2>1 DEF ObtainContext
  <2>3. length \in Nat
    BY LengthFits
  <2>. HIDE DEF length
  <2>4. loader'.length \in Nat
    BY <2>2, <2>3
  <2>5. stage' \in {"thrown", "resolve", "print"}
    BY <2>1 DEF ObtainContext
  <2>. QED  BY <2>4, <2>5 DEF ShotInv
<1>4. CASE Step
  <2>1. /\ stage = "resolve" /\ loader' = loader
        /\ stage' \in {"resolve", "print", "thrown"}
    BY <1>4 DEF Step, Resolve, ResolveLeaf, ResolveSubtable, FinishConstructor, Resolving
  <2>2. loader'.length = loader.length
    BY <2>1
  <2>. QED  BY <2>1, <2>2 DEF ShotInv
<1>5. CASE Return
  BY <1>5, ShotReturns
<1>6. CASE Crash
  <2>1. /\ stage' = "ctor" /\ loader' = NoLoader
        /\ output' \in Crashes(Cleared(output), Dumped(Cleared(output)))
    BY <1>6 DEF Crash
  <2>2. output'.status = "S_CRASH"
    <3>. DEFINE o == Cleared(output)
                answers == Dumped(o)
    <3>1. Blank(o) /\ \A a \in answers : NewAnswer(a, "ghidra")
      <4>1. Blank(o)
        BY ClearedIsBlank
      <4>. HIDE DEF o
      <4>. QED  BY <4>1, DumpedAllowed, TextsFit, SizesFit, AcceptAnswers
    <3>2. output' \in Crashes(o, answers)
      BY <2>1
    <3>. HIDE DEF o, answers
    <3>. QED  BY <3>1, <3>2, CrashAnswers
  <2>3. loader'.length = 0
    BY <2>1 DEF NoLoader
  <2>. QED  BY <2>1, <2>2, <2>3 DEF ShotInv
<1>7. CASE Gone \/ UNCHANGED working
  <2>1. stage' = stage /\ loader' = loader /\ adapter' = adapter /\ output' = output /\ taken' = taken
    BY <1>7 DEF Gone, working, decoding, engine
  <2>2. Decoded' => Decoded
    BY <2>1 DEF Decoded
  <2>. QED  BY <2>1, <2>2, ShotSame
<1>. QED  BY <1>1, <1>2, <1>3, <1>4, <1>5, <1>6, <1>7, Zenon DEF GhidraNext

\* "Single instruction disasm. Prevent instructions from messing up future
\* instruction disassembly" (ghidra.cc:170): whatever was decoded before at the one
\* address, and wherever a call of it crashed, ghidra answers an input of a byte or
\* more with what disassembling its bytes means, from the processor's default
\* context: the verdict and the size.
THEOREM OneShotEach == GhidraSpec => []SingleShot
<1>1. GhidraInit => ShotInv
  <2>. SUFFICES ASSUME GhidraInit PROVE ShotInv
    OBVIOUS
  <2>1. stage = "ctor" /\ loader.length = 0 /\ output.status = "S_NONE"
    BY DEF GhidraInit, SleighInit, DecodersInit, NoLoader
  <2>. QED  BY <2>1 DEF ShotInv
<1>2. ShotInv => SingleShot
  BY DEF ShotInv, Shot, SingleShot
<1>3. GhidraSpec => []DecInv
  BY GhidraImplementsDecoders, DecodersInvariant, PTL
<1>. QED  BY <1>1, <1>2, <1>3, NextShot, EngineInvariant, PTL DEF GhidraSpec

=============================================================================
