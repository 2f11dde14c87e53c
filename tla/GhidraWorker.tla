---------------------------- MODULE GhidraWorker ----------------------------
(***************************************************************************)
(* Decoders with the inside of one adapter: try_decode of                  *)
(* src/worker/ghidra/ghidra.cc around the engine of Sleigh.  The other     *)
(* adapters decode in one step, as in Decoders.                            *)
(***************************************************************************)
EXTENDS Decoders, Sleigh

CONSTANTS
  Junk,       \* what lies behind the input in memory
  ShortStdin, \* bound: inputs for ghidra, that the engine's buffer has room for
  Calls       \* bound: how deep the calls of Disassembling go

ASSUME GhidraAssumption ==
  /\ Junk \in Values
  /\ ShortStdin \subseteq Stdin
  /\ \A input \in ShortStdin : \A k \in DOMAIN input : input[k] \div 2 < BufLen
  /\ Calls \in Nat

\* What GhidraSizes takes for granted of x86: its fields have at most 8 bytes, and
\* a constructor of more of them ends with a field.
ASSUME FieldsAssumption ==
  /\ BufLen <= 16
  /\ \A ct \in Constructors : \A k \in DOMAIN Operands[ct] :
       /\ Operands[ct][k].len <= 8
       /\ Operands[ct][k].len = 0 => Operands[ct][k].table # Leaf \/ Operands[ct][k].rel = 0
  /\ \A ct \in Constructors : MinLength[ct] > 8 =>
       \E k \in DOMAIN Operands[ct] :
         /\ Operands[ct][k].table = Leaf /\ Operands[ct][k].base = 0 /\ Operands[ct][k].len > 0
         /\ MinLength[ct] <= Operands[ct][k].rel + Operands[ct][k].len

working == <<decoding, engine>>

GhidraInit ==
  /\ DecodersInit /\ SleighInit
  /\ adapter = "ghidra" => mutator = "manual" /\ lines \in ShortStdin

InGhidra == adapter = "ghidra"

\* The slot's bytes, and those behind them: what earlier inputs left, which only
\* matters when there are no bytes of this one.
Held(length) == {mem \in Memory : length > 0 => \A k \in Offsets : k >= length => mem[k] = Junk}

\* Fill the slot, or be ready to: nothing of the engine moves.
Other ==
  /\ FillSlot \/ (~InGhidra /\ DecodeSlot)
  /\ UNCHANGED engine

Construct == InGhidra /\ WorkerCtor /\ UNCHANGED decoding

Begin ==
  /\ InGhidra /\ taken
  /\ LET length == slots[(next + NSlots - 1) % NSlots].len IN
     \E mem \in Held(length) : ObtainContext(mem, length)
  /\ UNCHANGED decoding

Step == InGhidra /\ Resolve /\ UNCHANGED decoding

\* Mutant: an exception leaves the slot as it is.
Caught_Not(o) == o

\* The catch-all of try_decode.
Caught(o) == Said(o, "S_FAILURE")

\* dump is called once all is printed; ndecoded is stored after that.
Dumped(o) == IF stage = "print" /\ Printable THEN Accept(o, Printed, {Length}) ELSE {}

Return ==
  /\ InGhidra
  /\ \/ /\ stage = "thrown" \/ (stage = "print" /\ ~Printable)
        /\ output' = Caught(Cleared(output))
     \/ output' \in Dumped(Cleared(output))
  /\ stage' = "ready" /\ taken' = FALSE
  /\ UNCHANGED <<vars, adapter, context_db, loader, pos, crumbs>>

\* The process dies in the middle of a call, before or after dump, and a new one is
\* started.
Crash ==
  /\ InGhidra /\ stage \in {"resolve", "print"}
  /\ output' \in Crashes(Cleared(output), Dumped(Cleared(output)))
  /\ taken' = FALSE
  /\ stage' = "ctor" /\ context_db' = NoContext
  /\ loader' = NoLoader /\ pos' = NewParser /\ crumbs' = <<>>
  /\ UNCHANGED <<vars, adapter>>

\* worker_ctor has thrown: the worker is gone.
Gone == InGhidra /\ stage = "aborted" /\ taken /\ UNCHANGED working

GhidraNext == Other \/ Construct \/ Begin \/ Step \/ Return \/ Crash \/ Gone

\* One thread of one process, which runs until it returns.
GhidraSpec ==
  /\ GhidraInit /\ [][GhidraNext]_working
  /\ WF_working(Step) /\ WF_working(Return)

-----------------------------------------------------------------------------
(***************************************************************************)
(* What disassembling means: a constructor is matched at its offset in the *)
(* context its predecessors left, its operands follow one another, it ends *)
(* where the last of them does.                                            *)
(***************************************************************************)

\* An answer: the context that the next operand is matched in, and the end.
Answer(verdict, context, end) == [verdict |-> verdict, context |-> context, end |-> end]
Refused == Answer("refused", NoContext, 0)
Unknown == Answer("unknown", NoContext, 0)

\* What may be asked: the part of an instruction that begins at off; the rest of
\* a constructor, its first operands being known to end at ends.
PartQuestions == [table : Tables, off : Nat, context : Contexts]
RestQuestions == [ct : Constructors, off : Nat, ends : Seq(Nat), context : Contexts]

\* The answers, made of those to the questions that come up.
PartFrom(bytes, known) ==
  [q \in PartQuestions |->
     LET ct == Resolved(q.table, bytes, q.off, q.context) IN
     IF ct = NoMatch THEN Refused
     ELSE known.rest[[ct |-> ct, off |-> q.off, ends |-> <<>>, context |-> SetsContext[ct][q.context]]]]

RestFrom(known) ==
  [q \in RestQuestions |->
     IF Len(q.ends) >= Len(Operands[q.ct])
     THEN Answer("ok", q.context, Latest({q.off + MinLength[q.ct]} \cup {q.ends[k] : k \in DOMAIN q.ends}))
     ELSE LET sym  == Operands[q.ct][Len(q.ends) + 1]
              at   == sym.rel + (IF sym.base = 0 THEN q.off ELSE q.ends[sym.base])
              part == IF sym.table # Leaf
                      THEN known.part[[table |-> sym.table, off |-> at, context |-> q.context]]
                      ELSE IF sym.len = 0 \/ at < BufLen THEN Answer("ok", q.context, at + sym.len)
                      ELSE Refused
          IN  IF part.verdict # "ok" THEN part
              ELSE known.rest[[q EXCEPT !.ends = Append(@, part.end), !.context = part.context]]]

\* What is known after n calls.
Disassembling(bytes) ==
  LET known[n \in 0 .. Calls] ==
        IF n = 0 THEN [part |-> [q \in PartQuestions |-> Unknown],
                       rest |-> [q \in RestQuestions |-> Unknown]]
        ELSE [part |-> PartFrom(bytes, known[n - 1]), rest |-> RestFrom(known[n - 1])]
  IN  known

Instruction(bytes) ==
  Disassembling(bytes)[Calls].part[[table |-> Root, off |-> 0, context |-> SpecContext]]

\* The loader's bytes, and zeros.
InputBytes == [k \in Offsets |-> IF k < loader.length THEN loader.mem[k] ELSE 0]

\* "Single instruction disasm. Prevent instructions from messing up future
\* instruction disassembly" (ghidra.cc:170): an answer depends on the bytes of its
\* input, zeros behind them and the processor's default context, whatever was
\* decoded before, or crashed, at the same address.  An input of no bytes is left
\* out: the loader's window wraps around then, and the bytes are left-overs.
SingleShot ==
  InGhidra /\ stage = "ready" /\ Decoded /\ loader.length > 0 /\ output.status # "S_CRASH" =>
    LET whole == Instruction(InputBytes) IN
    CASE whole.verdict = "ok" -> output.status = "S_SUCCESS" /\ output.ndecoded = whole.end
      [] whole.verdict = "refused" -> output.status = "S_FAILURE" /\ output.ndecoded = 0
      [] OTHER -> TRUE

\* Seen from worker(), the adapter takes one step, and leaves what Decoders says
\* of it: a crash in the middle of a parse, or an exception thrown anywhere in it,
\* has written nothing; one while it prints, at most the answer.  (The other adapters' steps are those of Decoders.)
ImplementsDecoders == DecodersInit /\ [][InGhidra => DecodersNext]_decoding

\* Every call comes to an end: the walker goes up from what it has finished.
CallsReturn == stage \in {"resolve", "print", "thrown"} ~> stage \in {"ready", "ctor"}
=============================================================================
