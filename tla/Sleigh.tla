------------------------------- MODULE Sleigh -------------------------------
(***************************************************************************)
(* One call of SleighMishegos::printAssembly after the other, all at one   *)
(* address (src/worker/ghidra/sleighMishegos.cc, with the loader and the   *)
(* constructor of src/worker/ghidra/ghidra.cc).  A parse tree is built     *)
(* from the input by a walker, then printed; either may throw.             *)
(*                                                                         *)
(* The specification of the processor is a constant, and Ghidra's own      *)
(* classes (ParserContext, ParserWalker, the symbols) are modelled by what *)
(* this code relies on.  The tree is a function from the path to a node,   *)
(* the operand numbers from the root, to the node.  Left out: p-code and   *)
(* everything behind it, which oneInstruction never reaches; delay slots,  *)
(* which x86 has not; context commits, which only p-code applies.          *)
(***************************************************************************)
EXTENDS Integers, Sequences

CONSTANTS
  Values,      \* classes of bytes; 0 is one
  BufLen,      \* bytes in the parser's buffer: 16
  Contexts,    \* values of the context words
  SpecContext, \* the one that the .pspec file sets
  NoContext,   \* the one of an empty database
  Tables, Root, Constructors,
  Matches,     \* [Tables \X Values \X Contexts -> Constructors \cup {NoMatch}]
  SetsContext, \* what applyContext does: [Constructors -> [Contexts -> Contexts]]
  Operands,    \* [Constructors -> Seq(OperandSymbols)]
  MinLength    \* [Constructors -> Nat]

NoMatch == "none"
Leaf    == "leaf"

\* base: 0 for the constructor's own offset, else the operand it comes after.
OperandSymbols == [table : Tables \cup {Leaf}, base : Nat, rel : Nat, len : Nat]

ASSUME SleighAssumption ==
  /\ 0 \in Values /\ BufLen \in Nat \ {0}
  /\ {SpecContext, NoContext} \subseteq Contexts /\ Root \in Tables /\ Leaf \notin Tables
  /\ {NoMatch, Leaf} \cap Constructors = {}
  /\ Matches \in [Tables \X Values \X Contexts -> Constructors \cup {NoMatch}]
  /\ SetsContext \in [Constructors -> [Contexts -> Contexts]]
  /\ Operands \in [Constructors -> Seq(OperandSymbols)]
  /\ \A ct \in Constructors : \A k \in DOMAIN Operands[ct] : Operands[ct][k].base < k
  /\ MinLength \in [Constructors -> Nat]

VARIABLES
  stage,      \* where the constructor, or a call, is
  context_db, \* g_context
  loader,     \* g_loader: the memory its data points to, and its length
  pos,        \* the one ParserContext
  crumbs      \* ParserWalker: operands begun at each level, <<>> past the root

engine == <<stage, context_db, loader, pos, crumbs>>

Offsets == 0 .. BufLen - 1
Memory  == [Offsets -> Values]

\* The loader and the parser as their constructors leave them.
NoLoader  == [mem |-> [k \in Offsets |-> 0], length |-> 0]
NewParser == [state |-> "uninitialized", buf |-> [k \in Offsets |-> 0],
              context |-> NoContext, tree |-> [path \in {} |-> 0]]

SleighInit ==
  /\ stage = "ctor" /\ context_db = NoContext
  /\ loader = NoLoader /\ pos = NewParser /\ crumbs = <<>>

\* worker_ctor.  A file that is missing throws; nobody catches it.
WorkerCtor ==
  /\ stage = "ctor"
  /\ \/ stage' = "ready" /\ context_db' = SpecContext
     \/ stage' = "aborted" /\ UNCHANGED context_db
  /\ UNCHANGED <<loader, pos, crumbs>>

-----------------------------------------------------------------------------

\* Byte k is one of the input's.  With length 0 the last address, an unsigned
\* sum, is the largest there is.
InWindow(k, length) == length = 0 \/ k <= length - 1

\* MyLoadImage::loadFill
LoadFill(mem, length) == [k \in Offsets |-> IF InWindow(k, length) THEN mem[k] ELSE 0]

\* The constructor of a table that fits what is at offset off of the buffer.
Resolved(table, buf, off, context) ==
  IF off < BufLen THEN Matches[<<table, buf[off], context>>] ELSE NoMatch

Node(ct, off, len) == [ct |-> ct, offset |-> off, length |-> len]

\* ParserWalker: the path of the current node, its constructor, the operand
\* that comes next, the offset an operand counts from.
Point      == SubSeq(crumbs, 1, Len(crumbs) - 1)
Current    == pos.tree[Point].ct
NextOper   == crumbs[Len(crumbs)] + 1
Begun      == [crumbs EXCEPT ![Len(crumbs)] = NextOper]
End(path)  == pos.tree[path].offset + pos.tree[path].length
Base(oper) == IF oper = 0 THEN pos.tree[Point].offset ELSE End(Append(Point, oper))

\* Mutant: a tree of this address is taken, as upstream's cache does.
CurState_Cached(state) == state

\* obtainContext forgets that the address was parsed before.
CurState(state) == "uninitialized"

\* setData, obtainContext, and resolve up to its loop, which loads the context
\* of the database.
ObtainContext(mem, length) ==
  /\ stage = "ready"
  /\ loader' = [mem |-> mem, length |-> length]
  /\ IF CurState(pos.state) = "disassembly"
     THEN stage' = "print" /\ UNCHANGED <<pos, crumbs>>
     ELSE LET buf == LoadFill(mem, length)
              ct  == Resolved(Root, buf, 0, context_db)
          IN  /\ stage' = IF ct = NoMatch THEN "thrown" ELSE "resolve"
              /\ pos' = [state |-> "uninitialized", buf |-> buf,
                         context |-> IF ct = NoMatch THEN context_db ELSE SetsContext[ct][context_db],
                         tree |-> [path \in {<<>>} |-> Node(ct, 0, 0)]]
              /\ crumbs' = <<0>>
  /\ UNCHANGED context_db

Resolving == stage = "resolve" /\ UNCHANGED <<context_db, loader>>

AddNode(path, node) == [p \in DOMAIN pos.tree \cup {path} |-> IF p = path THEN node ELSE pos.tree[p]]

\* An operand without a subtable takes its minimal length.
ResolveLeaf ==
  /\ Resolving /\ NextOper <= Len(Operands[Current])
  /\ LET sym == Operands[Current][NextOper] IN
     /\ sym.table = Leaf
     /\ pos' = [pos EXCEPT !.tree = AddNode(Append(Point, NextOper),
                                            Node(Leaf, Base(sym.base) + sym.rel, sym.len))]
  /\ crumbs' = Begun
  /\ UNCHANGED stage

\* The walker goes down into the constructor found for an operand, which may
\* change the context; it throws if there is none.
ResolveSubtable ==
  /\ Resolving /\ NextOper <= Len(Operands[Current])
  /\ LET sym == Operands[Current][NextOper]
         off == Base(sym.base) + sym.rel
         ct  == Resolved(sym.table, pos.buf, off, pos.context)
     IN  /\ sym.table # Leaf
         /\ IF ct = NoMatch
            THEN stage' = "thrown" /\ UNCHANGED <<pos, crumbs>>
            ELSE /\ pos' = [pos EXCEPT !.tree = AddNode(Append(Point, NextOper), Node(ct, off, 0)),
                                       !.context = SetsContext[ct][@]]
                 /\ crumbs' = Append(Begun, 0)
                 /\ UNCHANGED stage

Latest(ends) == CHOOSE e \in ends : \A f \in ends : f <= e

\* calcCurrentLength: to the end of the operand that ends last, but at least min.
CurrentLength(min) ==
  LET off == pos.tree[Point].offset IN
  Latest({off + min} \cup {End(Append(Point, k)) : k \in 1 .. Len(Operands[Current])}) - off

\* Mutant: the walker stays at a constructor that is finished.
Popped_Not == crumbs

\* popOperand
Popped == Point

\* All operands are there: up, and past the root the tree is complete.
FinishConstructor ==
  /\ Resolving /\ NextOper > Len(Operands[Current])
  /\ pos' = [pos EXCEPT !.tree[Point].length = CurrentLength(MinLength[Current]),
                        !.state = IF Popped = <<>> THEN "disassembly" ELSE @]
  /\ crumbs' = Popped
  /\ stage' = IF Popped = <<>> THEN "print" ELSE "resolve"

\* printMnemonic and printBody read every operand; one that begins behind the
\* buffer throws.
Printable ==
  \A path \in DOMAIN pos.tree :
    pos.tree[path].ct = Leaf /\ pos.tree[path].length > 0 => pos.tree[path].offset < BufLen

\* What printAssembly returns.
Length == pos.tree[<<>>].length

Resolve == ResolveLeaf \/ ResolveSubtable \/ FinishConstructor
=============================================================================
