------------------------------ MODULE Decoders ------------------------------
(***************************************************************************)
(* One worker over candidates of a mutator: the loop of worker()           *)
(* (src/mishegos/mishegos.c) calls the adapter in src/worker, which turns  *)
(* a library's answer into the fields of an output slot used many times    *)
(* before.                                                                 *)
(*                                                                         *)
(* A text is its length.  Libraries are modelled by the answers the        *)
(* adapters tell apart; each may crash instead.                            *)
(***************************************************************************)
EXTENDS Mutators

CONSTANTS
  Adapters,  \* workers to choose from
  TextLens   \* bound: lengths of disassembled texts

DEC_MAXLEN == 248  \* MISHEGOS_DEC_MAXLEN

ASSUME DecodersAssumption ==
  /\ Adapters \subseteq {"bddisasm", "bfd", "capstone", "dynamorio", "fadec", "ghidra",
                         "iced", "llvm", "xed", "yaxpeax-x86", "zydis"}
  /\ TextLens \subseteq Nat \ {0}

VARIABLES
  adapter,
  output,  \* output_slot; said, sized and fresh: the status, ndecoded and how much of
           \* result are of this call
  taken    \* a candidate waits to be decoded

decoding == <<vars, adapter, output, taken>>

Statuses == {"S_NONE", "S_SUCCESS", "S_FAILURE", "S_CRASH", "S_PARTIAL"}

NDecoded == 0 .. 65535  \* uint16_t

DecodersTypeOK ==
  /\ TypeOK
  /\ adapter \in Adapters /\ taken \in BOOLEAN
  /\ output \in [status : Statuses, ndecoded : NDecoded, len : Nat,
                 said : BOOLEAN, sized : BOOLEAN, fresh : 0 .. DEC_MAXLEN]

DecodersInit ==
  /\ Init
  /\ adapter \in Adapters
  /\ output = [status |-> "S_NONE", ndecoded |-> 0, len |-> 0,
               said |-> FALSE, sized |-> FALSE, fresh |-> 0]
  /\ taken = FALSE

-----------------------------------------------------------------------------
(***************************************************************************)
(* The adapters: the slots that try_decode may leave of slot o             *)
(***************************************************************************)

Said(o, status)  == [o EXCEPT !.status = status, !.said = TRUE]
Reject(o, statuses) == {Said(o, s) : s \in statuses}
\* A size was stored.
Sized(o, size) == [o EXCEPT !.ndecoded = size, !.sized = TRUE]
\* A text of len characters, as much of it as there is room for, and a size, were
\* stored with the status.
Stored(o, status, len, size) ==
  [Sized(Said(o, status), size)
    EXCEPT !.len = len, !.fresh = IF len < DEC_MAXLEN THEN len ELSE DEC_MAXLEN]
Accept(o, lens, sizes) == {Stored(o, "S_SUCCESS", t, n) : t \in lens, n \in sizes}

\* The bytes a library says it used; two of them look past the input's end.
Sizes(length) == 1 .. length
AnySize == 1 .. INSN_MAXLEN
\* The last field may begin at the end of a buffer of 16 bytes and be 8 long; that
\* an instruction has a byte is left to the processor's specification.
GhidraSizes == 0 .. 16 - 1 + 8

\* Texts that a string of DEC_MAXLEN bytes holds.  NdToText, xed_format_context and
\* Zydis' formatter refuse others, yaxpeax-x86 asserts that there are none, fadec,
\* llvm and dynamorio cut them (CutToFit).
Fitting == {t \in TextLens : t < DEC_MAXLEN}
CutToFit == {IF t < DEC_MAXLEN THEN t ELSE DEC_MAXLEN - 1 : t \in TextLens}

\* capstone's two strings have room for 192 characters; ghidra's are taken to
\* be no longer.  snprintf's answer, with the blank and the newline, is stored.
Printed == {t + 2 : t \in {u \in TextLens : u <= 192}}

Bddisasm(o, length) == Reject(o, {"S_FAILURE"}) \cup Accept(o, Fitting, Sizes(length))

Capstone(o, length) == Reject(o, {"S_FAILURE"}) \cup Accept(o, Printed, Sizes(length))

\* The length is not passed on.
Dynamorio(o, length) == Reject(o, {"S_FAILURE"}) \cup Accept(o, CutToFit, AnySize)

Fadec(o, length) == Reject(o, {"S_FAILURE", "S_PARTIAL"}) \cup Accept(o, CutToFit, Sizes(length))

\* Zeros follow the input.
Ghidra(o, length) == Reject(o, {"S_FAILURE"}) \cup Accept(o, Printed, GhidraSizes)

Llvm(o, length) == Reject(o, {"S_FAILURE"}) \cup Accept(o, CutToFit, Sizes(length))

Xed(o, length) == Reject(o, {"S_FAILURE", "S_PARTIAL"}) \cup Accept(o, Fitting, Sizes(length))

Zydis(o, length) == Reject(o, {"S_FAILURE", "S_PARTIAL"}) \cup Accept(o, Fitting, Sizes(length))

\* Mutant: ndecoded keeps the width of pc.
AsNDecoded_Wide(pc) == pc

\* Stored in 16 bits.
AsNDecoded(pc) == pc % 65536

\* The text, with a newline, and pc are stored whether or not the text is
\* "(bad)"; a negative pc is a large size_t.  vsnprintf cuts the text, and answers
\* the length that it would have had: disasm_off, the length of what is copied,
\* grows by it (the assertions look before a text is printed, and only in debug
\* builds).
Bfd(o, length) ==
  {Stored(o, IF bad \/ pc = 0 THEN "S_FAILURE" ELSE "S_SUCCESS", t + 1, AsNDecoded(pc)) :
    t \in TextLens, bad \in BOOLEAN, pc \in Sizes(length) \cup {-1, 0}}

\* Mutant: any text is copied.
IcedFits_Always(t) == TRUE

IcedFits(t) == t <= DEC_MAXLEN

\* The size is stored even if the text is refused.
Iced(o, length) ==
  Reject(o, {"S_FAILURE", "S_PARTIAL"})
  \cup Accept(o, {t \in TextLens : IcedFits(t)}, Sizes(length))
  \cup {Said(Sized(o, n), "S_FAILURE") :
          n \in {m \in Sizes(length) : \E t \in TextLens : ~IcedFits(t)}}

\* sigchld_handler's answer for an adapter that crashed.
CrashedAt(o) == Said(o, "S_CRASH")

\* The slot o on its way to the answer a: the length, whose text is there already, the
\* size, or both were stored, or neither was.
OnTheWay(o, a) ==
  {o, [o EXCEPT !.len = a.len, !.fresh = a.fresh],
   [o EXCEPT !.ndecoded = a.ndecoded, !.sized = a.sized],
   [a EXCEPT !.status = o.status, !.said = o.said]}

\* A crash before, between or after the stores: capstone still frees its
\* instructions after the last.
Crashes(o, answers) == {CrashedAt(p) : p \in {o} \cup UNION {OnTheWay(o, a) : a \in answers}}

\* An overlong text fails an assertion, after the size was stored.
Yaxpeax(o, length) ==
  Reject(o, {"S_FAILURE", "S_PARTIAL"})
  \cup Accept(o, Fitting, Sizes(length))
  \cup {CrashedAt(Sized(o, n)) :
          n \in {m \in Sizes(length) : Fitting # TextLens}}

TryDecode(name, o, length) ==
  CASE name = "bddisasm"    -> Bddisasm(o, length)
    [] name = "bfd"         -> Bfd(o, length)
    [] name = "capstone"    -> Capstone(o, length)
    [] name = "dynamorio"   -> Dynamorio(o, length)
    [] name = "fadec"       -> Fadec(o, length)
    [] name = "ghidra"      -> Ghidra(o, length)
    [] name = "iced"        -> Iced(o, length)
    [] name = "llvm"        -> Llvm(o, length)
    [] name = "xed"         -> Xed(o, length)
    [] name = "yaxpeax-x86" -> Yaxpeax(o, length)
    [] name = "zydis"       -> Zydis(o, length)

-----------------------------------------------------------------------------

\* The mutator fills the slot the worker decodes next.
FillSlot ==
  /\ ~taken
  /\ Next
  /\ taken' = ~exhausted'
  /\ UNCHANGED <<adapter, output>>

\* Mutant: the slot goes to the adapter as the last call left it.
Cleared_Not(o) == [o EXCEPT !.said = FALSE, !.sized = FALSE, !.fresh = 0]

\* What worker() resets of the slot: not the status, not the text.
Cleared(o) ==
  [o EXCEPT !.len = 0, !.ndecoded = 0, !.said = FALSE, !.sized = FALSE, !.fresh = 0]

\* The slot filled last is decoded, or its decoding crashes.
DecodeSlot ==
  /\ taken
  /\ LET o == Cleared(output)
         answers == TryDecode(adapter, o, slots[(next + NSlots - 1) % NSlots].len)
     IN  output' \in answers \cup Crashes(o, answers)
  /\ taken' = FALSE
  /\ UNCHANGED <<vars, adapter>>

DecodersNext == FillSlot \/ DecodeSlot

DecodersSpec == DecodersInit /\ [][DecodersNext]_decoding

-----------------------------------------------------------------------------

Decoded == ~taken /\ output.status # "S_NONE"

\* Nothing of an earlier input is reported with a later one: every path through
\* every adapter, and a crash before or after any store of it, leaves a status of
\* this call, no more text than this call wrote (of a text that the slot holds), and
\* a size only if this call stored one.  What is rejected has neither, but for bfd
\* and iced.
NothingOld ==
  Decoded =>
    /\ output.said
    /\ output.len <= DEC_MAXLEN => output.len <= output.fresh
    /\ output.ndecoded # 0 => output.sized
    /\ output.status = "S_PARTIAL" => output.len = 0 /\ output.ndecoded = 0
    /\ output.status = "S_FAILURE" /\ adapter \notin {"bfd", "iced"} =>
         output.len = 0 /\ output.ndecoded = 0

\* process() writes len bytes from a buffer of DEC_MAXLEN: no adapter claims more,
\* except that bfd does of a text that its own buffer had no room for ("disassembly
\* buffer overrun?" asks its assertion, bfd.c:28, before each text but not after the last).
TextFits ==
  output.len > DEC_MAXLEN => adapter = "bfd" /\ output.len - 1 \in TextLens
=============================================================================
