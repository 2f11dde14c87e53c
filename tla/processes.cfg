CONSTANTS
  SpecFiles <- SomeSpecs
  MaxNWorkers = 2
  Pids = {1, 2, 3}
SPECIFICATION Spec
INVARIANTS DeathsAreKnown OneProcessPerWorker NobodyForgotten WorkersAsListed ProcInv
PROPERTIES HandshakeEnds
