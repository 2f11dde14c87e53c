CONSTANTS
  NWorkers = 3
  MaxNWorkers = 31
  Numbers <- SomeNumbers
  Lengths = {1, 2}
  Empty = Empty
SPECIFICATION Spec
INVARIANTS KeepsExactly OptionsMean FilterInv
