SPECIFICATION GhidraSpec
CONSTANTS
  Names = {"sliding", "structured", "havoc", "dummy", "manual"}
  NSlots = 1
  Stdin <- ManyLines
  Adapters = {"bddisasm", "bfd", "capstone", "dynamorio", "fadec", "ghidra", "iced", "llvm", "xed", "yaxpeax-x86", "zydis"}
  TextLens = {192, 247, 248, 249}
  ShortStdin <- TwoShort
  Junk = 1
  Calls = 20
  Values = {0, 1, 2, 3}
  BufLen = 4
  Contexts = {"none", "long", "short"}
  SpecContext = "long"
  NoContext = "none"
  Tables = {"instruction", "rm", "sib"}
  Root = "instruction"
  Constructors <- SmallConstructors
  Matches <- SmallMatches
  SetsContext <- SmallSetsContext
  Operands <- SmallOperands
  MinLength <- SmallMinLength
INVARIANT DecodersTypeOK
INVARIANT WithinBuffers
INVARIANT OneCandidate
INVARIANT SlidesThrough
INVARIANT CampaignDrawn
INVARIANT NothingOld
INVARIANT TextFits
INVARIANT SingleShot
PROPERTY ImplementsDecoders
PROPERTY CallsReturn
