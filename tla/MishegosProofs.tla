--------------------------- MODULE MishegosProofs ---------------------------
(***************************************************************************)
(* Proofs about Mishegos, for every number of workers, chunks, slots and   *)
(* inputs and every set of crashes.  RingInv is inductive, and with it the *)
(* ring's accounting is exact.  RecordInv is inductive relative to it, and *)
(* with that the cohorts written are those of the mutator's candidates, in *)
(* their order and all of them, each with the verdicts of the decoders on  *)
(* that candidate.                                                         *)
(*                                                                         *)
(* The order part depends on main only: no step of a worker or of the      *)
(* handler touches it.  The verdict part follows one worker at a time; a   *)
(* step of another one leaves it alone.                                    *)
(***************************************************************************)
EXTENDS Mishegos, FiniteSetTheorems, TLAPS

(***************************************************************************)
(* Counting debtors                                                        *)
(***************************************************************************)

\* Sets of workers are finite, the full one has NWorkers members.
LEMMA WorkersFinite ==
  /\ IsFiniteSet(Workers) /\ Cardinality(Workers) = NWorkers
  /\ \A S \in SUBSET Workers : IsFiniteSet(S) /\ Cardinality(S) \in Nat
<1>1. IsFiniteSet(Workers) /\ Cardinality(Workers) = NWorkers
  BY FS_Interval, ConstantsAssumption DEF Workers
<1>2. ASSUME NEW S \in SUBSET Workers
      PROVE  IsFiniteSet(S) /\ Cardinality(S) \in Nat
  BY <1>1, FS_Subset, FS_CardinalityType
<1>. QED  BY <1>1, <1>2

\* A chunk nobody owes has a count of zero and the other way round.
LEMMA NoDebtors ==
  ASSUME NEW c \in Chunks
  PROVE  Cardinality(Debtors(c)) = 0 <=> \A w \in Workers : ~Owes(w, c)
<1>1. IsFiniteSet(Debtors(c))
  BY WorkersFinite DEF Debtors
<1>2. Cardinality(Debtors(c)) = 0 <=> Debtors(c) = {}
  BY <1>1, FS_EmptySet
<1>. QED  BY <1>2 DEF Debtors

(***************************************************************************)
(* The initial state                                                       *)
(***************************************************************************)

\* RingInv holds before main enters its loop.
LEMMA InitRing == Init => RingInv
<1>. SUFFICES ASSUME Init PROVE RingInv
  OBVIOUS
<1>. USE ConstantsAssumption
<1>1. TypeOK
  <2>1. /\ 0 \in Chunks /\ 0 \in 0 .. NSlots
        /\ [of |-> 0, status |-> "none"] \in OutputSlots
        /\ <<>> \in Seq([input : Nat, outs : [Workers -> OutputSlots]])
    BY DEF Chunks, OutputSlots, Status
  <2>2. outputs \in [Workers -> [Chunks -> [Slots -> OutputSlots]]]
    BY <2>1 DEF Init
  <2>3. ChunkTypes
    BY <2>1 DEF Init, ChunkTypes
  <2>4. OutputTypes
    BY <2>1, <2>2 DEF Init, OutputTypes
  <2>5. ConfigTypes
    BY <2>1 DEF Init, ConfigTypes
  <2>6. MainTypes
    <3>1. mpc \in MainPc
      BY DEF Init, MainPc
    <3>2. gen \in Nat \ {0} /\ i \in Nat /\ supplied \in Nat
      BY DEF Init
    <3>3. worker_restarted \in BOOLEAN
      BY DEF Init
    <3>4. idx \in Chunks /\ exit_idx \in Chunks \cup {NoExit}
      BY <2>1 DEF Init
    <3>. QED  BY <3>1, <3>2, <3>3, <3>4 DEF MainTypes
  <2>7. WorkerTypes
    BY <2>1 DEF Init, WorkerTypes, WorkerPc
  <2>8. HistTypes
    BY <2>1 DEF Init, HistTypes
  <2>. QED  BY <2>3, <2>4, <2>5, <2>6, <2>7, <2>8 DEF TypeOK
<1>2. mpc = "wait"
  BY DEF Init
<1>3. MainInv
  BY DEF Init, MainInv, Filling, Chunks
<1>4. ASSUME NEW w \in Workers
      PROVE  WorkerPosition(w) /\ WorkerRemaining(w) /\ WorkerReaped(w)
  BY DEF Init, WorkerPosition, WorkerRemaining, WorkerReaped, Filling, Chunks
<1>5. RecycledInv
  BY DEF Init, RecycledInv, Recycling
<1>6. RemainingWorkersExact
  <2>1. ASSUME NEW c \in Chunks PROVE \A w \in Workers : ~Owes(w, c)
    BY DEF Init, Owes, Behind, AtFill, Chunks
  <2>. QED  BY <2>1, NoDebtors DEF Init, RemainingWorkersExact
<1>. QED  BY <1>1, <1>2, <1>3, <1>4, <1>5, <1>6 DEF RingInv

(***************************************************************************)
(* The steps of worker()                                                   *)
(***************************************************************************)

\* The counts stay exact in a step of a worker that changes nobody's debts.
LEMMA SameDebts ==
  ASSUME RemainingWorkersExact, mpc # "killed",
         UNCHANGED <<mpc, idx, remaining_workers>>,
         \A c \in Chunks : \A v \in Workers : Owes(v, c)' <=> Owes(v, c)
  PROVE  RemainingWorkersExact'
<1>1. ASSUME NEW c \in Chunks PROVE Debtors(c)' = Debtors(c)
  BY DEF Debtors
<1>. QED  BY <1>1 DEF RemainingWorkersExact

\* Only a worker that is not gone can take a step, so nothing was killed.
LEMMA WorkerNotKilled ==
  ASSUME RingInv, NEW w \in Workers, wpc[w] # "gone"
  PROVE  /\ mpc # "killed" /\ TypeOK /\ MainInv /\ RecycledInv /\ RemainingWorkersExact
         /\ \A v \in Workers : WorkerPosition(v) /\ WorkerRemaining(v) /\ WorkerReaped(v)
BY DEF RingInv, KilledInv

LEMMA LoadStep ==
  ASSUME RingInv, NEW w \in Workers, Load(w)
  PROVE  RingInv'
<1>. USE WorkerNotKilled
<1>. DEFINE pc == wpc'[w]
<1>1. wpc[w] = "load" /\ pc \in {"wait", "failed"} /\ wpc' = [wpc EXCEPT ![w] = pc]
  BY DEF Load, TypeOK, WorkerTypes
<1>2. UNCHANGED <<chunkVars, outputVars, configVars, mainVars, wgen, widx, wi, histVars>>
  BY DEF Load
<1>. USE <1>2 DEF chunkVars, outputVars, configVars, mainVars, histVars
<1>3. TypeOK'
  <2>1. WorkerTypes'
    BY <1>1 DEF TypeOK, WorkerTypes, WorkerPc
  <2>. QED  BY <1>1, <2>1 DEF TypeOK, ChunkTypes, OutputTypes, ConfigTypes, MainTypes, HistTypes
<1>4. MainInv'
  BY <1>1 DEF MainInv, Filling
<1>5. ASSUME NEW v \in Workers
      PROVE  (WorkerPosition(v) /\ WorkerRemaining(v) /\ WorkerReaped(v))'
  BY <1>1 DEF WorkerPosition, WorkerRemaining, WorkerReaped, AtFill, Filling, TypeOK, WorkerTypes
<1>6. \A c \in Chunks : \A v \in Workers : Owes(v, c)' <=> Owes(v, c)
  BY <1>1 DEF Owes, Behind, AtFill, TypeOK, WorkerTypes
<1>7. RecycledInv'
  BY <1>1, <1>6 DEF RecycledInv, Recycling, TypeOK, WorkerTypes, MainTypes
<1>8. RemainingWorkersExact'
  BY <1>1, <1>6, SameDebts
<1>. QED  BY <1>1, <1>3, <1>4, <1>5, <1>7, <1>8 DEF RingInv

\* A worker that finds its chunk published resumes inside that chunk.
LEMMA StartSlotInChunk ==
  ASSUME TypeOK, NEW w \in Workers, WorkerRemaining(w)
  PROVE  StartSlot(w, widx[w]) \in 0 .. input_count[widx[w]]
BY DEF StartSlot, WorkerRemaining, TypeOK, ChunkTypes, OutputTypes, WorkerTypes

LEMMA BeginChunkStep ==
  ASSUME RingInv, NEW w \in Workers, BeginChunk(w)
  PROVE  RingInv'
<1>. USE WorkerNotKilled
<1>. DEFINE c == widx[w]
            start == StartSlot(w, c)
            left == input_count[c] - start
<1>1. /\ wpc[w] = "wait" /\ AtFill(w, c)
      /\ wpc' = [wpc EXCEPT ![w] = "decode"]
      /\ remaining' = [remaining EXCEPT ![w][c] = left]
      /\ wi' = [wi EXCEPT ![w] = start]
  BY DEF BeginChunk, AtFill
<1>2. UNCHANGED <<chunkVars, outputs, configVars, mainVars, wgen, widx, histVars>>
  BY DEF BeginChunk
<1>3. /\ c \in Chunks /\ input_count[c] \in 0 .. NSlots /\ NSlots \in Nat
      /\ start \in 0 .. input_count[c] /\ left \in 0 .. NSlots /\ left = input_count[c] - start
  <2>1. c \in Chunks /\ input_count[c] \in 0 .. NSlots
    BY <1>1 DEF TypeOK, ChunkTypes, WorkerTypes
  <2>2. start \in 0 .. input_count[c]
    BY <1>1, StartSlotInChunk
  <2>. HIDE DEF start
  <2>. QED  BY <2>1, <2>2, ConstantsAssumption
<1>. HIDE DEF start, left
<1>. USE <1>2 DEF chunkVars, configVars, mainVars, histVars
<1>4. TypeOK'
  <2>1. WorkerTypes'
    BY <1>1, <1>3 DEF TypeOK, WorkerTypes, WorkerPc
  <2>2. OutputTypes'
    BY <1>1, <1>3 DEF TypeOK, OutputTypes
  <2>. QED  BY <1>1, <2>1, <2>2 DEF TypeOK, ChunkTypes, ConfigTypes, MainTypes, HistTypes
<1>5. MainInv'
  BY <1>1 DEF MainInv, Filling
<1>6. ASSUME NEW v \in Workers
      PROVE  (WorkerPosition(v) /\ WorkerRemaining(v) /\ WorkerReaped(v))'
  <2>1. (WorkerPosition(v) /\ WorkerReaped(v))'
    BY <1>1 DEF WorkerPosition, WorkerReaped, AtFill, Filling, TypeOK, WorkerTypes
  <2>2. CASE v = w
    BY <1>1, <1>3, <2>1, <2>2 DEF WorkerRemaining, AtFill, TypeOK, WorkerTypes, OutputTypes
  <2>3. CASE v # w
    BY <1>1, <2>1, <2>3 DEF WorkerRemaining, AtFill, TypeOK, WorkerTypes, OutputTypes
  <2>. QED  BY <2>2, <2>3, <2>1
<1>7. \A d \in Chunks : \A v \in Workers : Owes(v, d)' <=> Owes(v, d)
  BY <1>1 DEF Owes, Behind, AtFill, TypeOK, WorkerTypes
<1>8. RecycledInv'
  BY <1>1, <1>7 DEF RecycledInv, Recycling, TypeOK, WorkerTypes, MainTypes
<1>9. RemainingWorkersExact'
  BY <1>1, <1>7, SameDebts
<1>. QED  BY <1>1, <1>4, <1>5, <1>6, <1>8, <1>9 DEF RingInv

LEMMA DecodeStep ==
  ASSUME RingInv, NEW w \in Workers, Decode(w)
  PROVE  RingInv'
<1>. DEFINE c == widx[w]
            verdict == [of |-> inputs[c][wi[w]], status |-> "decoded"]
            left == RemainingAfter(c, wi[w])
<1>1. /\ wpc[w] = "decode" /\ wi[w] < input_count[c]
      /\ outputs' = [outputs EXCEPT ![w][c][wi[w]] = verdict]
      /\ remaining' = [remaining EXCEPT ![w][c] = left]
      /\ wi' = [wi EXCEPT ![w] = @ + 1]
  BY DEF Decode
<1>2. /\ mpc # "killed" /\ TypeOK /\ MainInv /\ RecycledInv /\ RemainingWorkersExact
      /\ \A v \in Workers : WorkerPosition(v) /\ WorkerRemaining(v) /\ WorkerReaped(v)
  BY <1>1, WorkerNotKilled
<1>2a. UNCHANGED <<chunkVars, configVars, mainVars, wpc, wgen, widx, histVars>>
  BY DEF Decode
<1>3. /\ c \in Chunks /\ input_count[c] \in 0 .. NSlots /\ NSlots \in Nat
      /\ wi[w] \in Slots /\ wi[w] + 1 \in 0 .. NSlots
      /\ left \in 0 .. NSlots /\ left = input_count[c] - (wi[w] + 1)
  BY <1>1, <1>2, ConstantsAssumption DEF TypeOK, ChunkTypes, WorkerTypes, Slots, RemainingAfter
<1>4. verdict \in OutputSlots
  BY <1>2, <1>3 DEF OutputSlots, Status, TypeOK, ChunkTypes
<1>5. AtFill(w, c)
  BY <1>1, <1>2 DEF WorkerPosition, AtFill
<1>. HIDE DEF verdict, left
<1>. USE <1>2a DEF chunkVars, configVars, mainVars, histVars
<1>6. TypeOK'
  <2>1. WorkerTypes'
    BY <1>1, <1>2, <1>3 DEF TypeOK, WorkerTypes, WorkerPc
  <2>2. OutputTypes'
    BY <1>1, <1>2, <1>3, <1>4 DEF TypeOK, OutputTypes
  <2>. QED  BY <1>1, <1>2, <2>1, <2>2 DEF TypeOK, ChunkTypes, ConfigTypes, MainTypes, HistTypes
<1>7. MainInv'
  BY <1>1, <1>2 DEF MainInv, Filling
<1>8. ASSUME NEW v \in Workers
      PROVE  (WorkerPosition(v) /\ WorkerRemaining(v) /\ WorkerReaped(v))'
  <2>1. (WorkerPosition(v) /\ WorkerReaped(v))'
    BY <1>1, <1>2 DEF WorkerPosition, WorkerReaped, AtFill, Filling, TypeOK, WorkerTypes
  <2>2. CASE v = w
    <3>1. /\ remaining'[w] = [remaining[w] EXCEPT ![c] = left] /\ wi'[w] = wi[w] + 1
          /\ \A d \in Chunks : d # c => remaining[w][d] = 0
          /\ remaining[w] \in [Chunks -> 0 .. NSlots]
      BY <1>1, <1>2 DEF WorkerRemaining, TypeOK, WorkerTypes, OutputTypes
    <3>. QED  BY <1>1, <1>3, <1>5, <2>1, <2>2, <3>1 DEF WorkerRemaining, AtFill
  <2>3. CASE v # w
    <3>1. remaining'[v] = remaining[v] /\ wi'[v] = wi[v]
      BY <1>1, <1>2, <2>3 DEF TypeOK, WorkerTypes, OutputTypes
    <3>. QED  BY <1>2, <2>1, <2>3, <3>1 DEF WorkerRemaining, AtFill
  <2>. QED  BY <2>1, <2>2, <2>3
<1>9. \A d \in Chunks : \A v \in Workers : Owes(v, d)' <=> Owes(v, d)
  BY <1>1, <1>2 DEF Owes, Behind, AtFill, TypeOK, WorkerTypes
<1>10. RecycledInv'
  BY <1>1, <1>2, <1>9 DEF RecycledInv, Recycling, TypeOK, WorkerTypes, MainTypes
<1>11. RemainingWorkersExact'
  BY <1>1, <1>2, <1>9, SameDebts
<1>. QED  BY <1>1, <1>2, <1>6, <1>7, <1>8, <1>10, <1>11 DEF RingInv

LEMMA CrashStep ==
  ASSUME RingInv, NEW w \in Workers, Crash(w)
  PROVE  RingInv'
<1>. DEFINE c == widx[w]
            n == inputs[c][wi[w]]
<1>1. /\ wpc[w] = "decode" /\ wi[w] < input_count[c]
      /\ outputs' = [outputs EXCEPT ![w][c][wi[w]].of = n]
      /\ crashed' = crashed \cup {<<w, n>>}
  BY DEF Crash
<1>2. /\ mpc # "killed" /\ TypeOK /\ MainInv /\ RecycledInv /\ RemainingWorkersExact
      /\ \A v \in Workers : WorkerPosition(v) /\ WorkerRemaining(v) /\ WorkerReaped(v)
  BY <1>1, WorkerNotKilled
<1>2a. UNCHANGED <<chunkVars, remaining, configVars, gen, idx, exit_idx, i,
                  worker_restarted, supplied, wgen, widx, wi, out>>
  BY DEF Crash
<1>3. c \in Chunks /\ wi[w] \in Slots /\ n \in Nat /\ AtFill(w, c)
  <2>1. c \in Chunks /\ AtFill(w, c)
    BY <1>1, <1>2 DEF TypeOK, WorkerTypes, WorkerPosition, AtFill
  <2>2. wi[w] \in Slots
    BY <1>1, <1>2, ConstantsAssumption DEF TypeOK, ChunkTypes, WorkerTypes, Slots
  <2>. QED  BY <1>2, <2>1, <2>2 DEF TypeOK, ChunkTypes
<1>. HIDE DEF n
<1>. USE <1>2a DEF chunkVars, configVars
<1>4. OutputTypes' /\ HistTypes' /\ ChunkTypes' /\ ConfigTypes'
  <2>1. OutputTypes'
    <3>1. [outputs[w][c][wi[w]] EXCEPT !.of = n] \in OutputSlots
      <4>1. outputs[w][c][wi[w]] \in OutputSlots
        BY <1>2, <1>3 DEF TypeOK, OutputTypes
      <4>. QED  BY <1>3, <4>1 DEF OutputSlots
    <3>2. outputs' = [outputs EXCEPT ![w] = [outputs[w] EXCEPT ![c] =
                        [outputs[w][c] EXCEPT ![wi[w]] =
                          [outputs[w][c][wi[w]] EXCEPT !.of = n]]]]
      BY <1>1
    <3>. QED  BY <1>2, <1>3, <3>1, <3>2 DEF TypeOK, OutputTypes
  <2>. QED  BY <1>1, <1>2, <1>3, <2>1, SMTT(30) DEF TypeOK, HistTypes, ChunkTypes, ConfigTypes
<1>5. CASE ThreadMode
  <2>1. mpc' = "killed" /\ wpc' = [v \in Workers |-> "gone"]
    BY <1>5 DEF Crash
  <2>2. MainTypes' /\ WorkerTypes'
    BY <1>2, <2>1 DEF TypeOK, MainTypes, WorkerTypes, MainPc, WorkerPc
  <2>. QED  BY <1>4, <1>5, <2>1, <2>2 DEF RingInv, TypeOK, KilledInv
<1>6. CASE ~ThreadMode
  <2>1. mpc' = mpc /\ wpc' = [wpc EXCEPT ![w] = "crashed"]
    BY <1>6 DEF Crash
  <2>2. TypeOK'
    BY <1>2, <1>4, <2>1 DEF TypeOK, MainTypes, WorkerTypes, WorkerPc
  <2>3. MainInv'
    BY <1>1, <1>2, <2>1 DEF MainInv, Filling
  <2>4. ASSUME NEW v \in Workers
        PROVE  (WorkerPosition(v) /\ WorkerRemaining(v) /\ WorkerReaped(v))'
    <3>1. (WorkerPosition(v) /\ WorkerReaped(v))'
      BY <1>1, <1>2, <1>6, <2>1 DEF WorkerPosition, WorkerReaped, AtFill, Filling, TypeOK, WorkerTypes
    <3>2. CASE v = w
      <4>1. wpc'[w] = "crashed" /\ remaining[w][c] = input_count[c] - wi[w]
            /\ wi[w] \in Nat /\ input_count[c] \in Nat
        BY <1>1, <1>2, <1>3, <2>1
        DEF WorkerRemaining, TypeOK, WorkerTypes, ChunkTypes, Slots
      <4>. QED  BY <1>1, <1>2, <3>1, <3>2, <4>1 DEF WorkerRemaining, AtFill
    <3>3. CASE v # w
      <4>1. wpc'[v] = wpc[v]
        BY <1>2, <2>1, <3>3 DEF TypeOK, WorkerTypes
      <4>. QED  BY <1>2, <3>1, <3>3, <4>1 DEF WorkerRemaining, AtFill
    <3>. QED  BY <3>1, <3>2, <3>3
  <2>5. \A d \in Chunks : \A v \in Workers : Owes(v, d)' <=> Owes(v, d)
    BY <1>1, <1>2, <2>1 DEF Owes, Behind, AtFill, TypeOK, WorkerTypes
  <2>6. RecycledInv'
    BY <1>1, <1>2, <2>1, <2>5 DEF RecycledInv, Recycling, TypeOK, WorkerTypes, MainTypes
  <2>7. RemainingWorkersExact'
    BY <1>1, <1>2, <2>1, <2>5, SameDebts
  <2>. QED  BY <1>1, <1>2, <2>1, <2>2, <2>3, <2>4, <2>6, <2>7 DEF RingInv
<1>. QED  BY <1>5, <1>6

LEMMA FinishChunkStep ==
  ASSUME RingInv, NEW w \in Workers, FinishChunk(w)
  PROVE  RingInv'
<1>. DEFINE c == widx[w]
<1>1. /\ wpc[w] = "decode" /\ wi[w] >= input_count[c]
      /\ remaining_workers' = [remaining_workers EXCEPT ![c] = @ - 1]
      /\ wpc' = [wpc EXCEPT ![w] = "check"]
  BY DEF FinishChunk
<1>2. /\ mpc # "killed" /\ TypeOK /\ MainInv /\ RecycledInv /\ RemainingWorkersExact
      /\ \A v \in Workers : WorkerPosition(v) /\ WorkerRemaining(v) /\ WorkerReaped(v)
  BY <1>1, WorkerNotKilled
<1>3. UNCHANGED <<generation, input_count, inputs, outputVars, configVars,
                 mainVars, wgen, widx, wi, histVars>>
  BY DEF FinishChunk
<1>4. c \in Chunks /\ AtFill(w, c)
  BY <1>1, <1>2 DEF TypeOK, WorkerTypes, WorkerPosition, AtFill
<1>5. \A d \in Chunks : remaining[w][d] = 0
  <2>1. remaining[w][c] = input_count[c] - wi[w]
    BY <1>1, <1>2 DEF WorkerRemaining
  <2>2. remaining[w][c] = 0
    <3>1. remaining[w][c] \in Nat /\ input_count[c] \in Nat /\ wi[w] \in Nat
      BY <1>2, <1>4, ConstantsAssumption DEF TypeOK, OutputTypes, ChunkTypes, WorkerTypes
    <3>. QED  BY <1>1, <2>1, <3>1
  <2>. QED  BY <1>2, <2>2 DEF WorkerRemaining
<1>. USE <1>3 DEF outputVars, configVars, mainVars, histVars
<1>6. TypeOK'
  <2>1. WorkerTypes'
    BY <1>1, <1>2 DEF TypeOK, WorkerTypes, WorkerPc
  <2>2. ChunkTypes'
    <3>1. remaining_workers \in [Chunks -> Int] /\ remaining_workers[c] - 1 \in Int
      BY <1>2, <1>4 DEF TypeOK, ChunkTypes
    <3>2. remaining_workers' \in [Chunks -> Int]
      BY <1>1, <3>1
    <3>. QED  BY <1>2, <3>2 DEF TypeOK, ChunkTypes
  <2>. QED  BY <1>2, <2>1, <2>2 DEF TypeOK, OutputTypes, ConfigTypes, MainTypes, HistTypes
<1>7. MainInv'
  BY <1>1, <1>2 DEF MainInv, Filling
<1>8. ASSUME NEW v \in Workers
      PROVE  (WorkerPosition(v) /\ WorkerRemaining(v) /\ WorkerReaped(v))'
  <2>1. WorkerPosition(v)'
    BY <1>1, <1>2, <1>4 DEF WorkerPosition, AtFill, Filling, TypeOK, WorkerTypes, ChunkTypes
  <2>2. WorkerRemaining(v)'
    BY <1>1, <1>2, <1>5 DEF WorkerRemaining, AtFill, TypeOK, WorkerTypes
  <2>3. WorkerReaped(v)'
    BY <1>1, <1>2 DEF WorkerReaped, TypeOK, WorkerTypes
  <2>. QED  BY <2>1, <2>2, <2>3
<1>9. /\ Owes(w, c) /\ ~Owes(w, c)'
      /\ \A d \in Chunks : \A v \in Workers :
            (v # w \/ d # c) => (Owes(v, d)' <=> Owes(v, d))
  <2>1. Owes(w, c)
    BY <1>1, <1>4 DEF Owes
  <2>2. ~Owes(w, c)'
    <3>1. wpc'[w] = "check" /\ generation[c] \in Nat /\ c \in Nat
      BY <1>1, <1>2, <1>4, ConstantsAssumption DEF TypeOK, WorkerTypes, ChunkTypes, Chunks
    <3>. QED  BY <1>4, <3>1 DEF Owes, Behind, AtFill
  <2>3. ASSUME NEW d \in Chunks, NEW v \in Workers, v # w
        PROVE  Owes(v, d)' <=> Owes(v, d)
    BY <1>1, <1>2, <2>3 DEF Owes, Behind, AtFill, TypeOK, WorkerTypes
  <2>4. ASSUME NEW d \in Chunks, d # c
        PROVE  Owes(w, d)' <=> Owes(w, d)
    BY <1>1, <1>2, <2>4 DEF Owes, Behind, AtFill, TypeOK, WorkerTypes
  <2>. QED  BY <2>1, <2>2, <2>3, <2>4
<1>10. RecycledInv'
  <2>1. \A d \in Chunks : \A v \in Workers : Owes(v, d)' => Owes(v, d)
    BY <1>9
  <2>. QED  BY <1>1, <1>2, <2>1 DEF RecycledInv, Recycling, TypeOK, WorkerTypes, MainTypes
<1>11. RemainingWorkersExact'
  <2>1. ~(mpc = "publish" /\ c = idx)
    BY <1>2, <1>9 DEF RecycledInv, Recycling
  <2>2. Debtors(c)' = Debtors(c) \ {w} /\ w \in Debtors(c)
    BY <1>9, <1>4 DEF Debtors
  <2>3. Cardinality(Debtors(c)') = Cardinality(Debtors(c)) - 1
    BY <2>2, WorkersFinite, FS_RemoveElement DEF Debtors
  <2>4. ASSUME NEW d \in Chunks, d # c PROVE Debtors(d)' = Debtors(d)
    BY <1>9, <2>4 DEF Debtors
  <2>5. remaining_workers'[c] = Cardinality(Debtors(c)')
    BY <1>1, <1>2, <1>4, <2>1, <2>3 DEF RemainingWorkersExact, TypeOK, ChunkTypes
  <2>6. ASSUME NEW d \in Chunks, d # c PROVE remaining_workers'[d] = remaining_workers[d]
    BY <1>1, <1>2, <2>6 DEF TypeOK, ChunkTypes
  <2>. QED  BY <1>2, <2>1, <2>4, <2>5, <2>6 DEF RemainingWorkersExact
<1>. QED  BY <1>2, <1>6, <1>7, <1>8, <1>10, <1>11 DEF RingInv

\* The fill after (g, c) is in the next chunk, or in chunk 0 of the next round.
LEMMA NextInRing ==
  ASSUME NEW c \in Chunks, NEW g \in Nat
  PROVE  /\ NextIdx(c) \in Chunks /\ NextGen(g, c) \in Nat
         /\ \/ NextGen(g, c) = g /\ NextIdx(c) = c + 1
            \/ NextGen(g, c) = g + 1 /\ NextIdx(c) = 0 /\ c = NChunks - 1
<1>1. c \in 0 .. NChunks - 1 /\ NChunks \in Nat /\ Chunks = 0 .. NChunks - 1
  BY ConstantsAssumption DEF Chunks
<1>2. CASE c + 1 = NChunks
  BY <1>1, <1>2 DEF NextIdx, NextGen
<1>3. CASE c + 1 # NChunks
  BY <1>1, <1>3 DEF NextIdx, NextGen
<1>. QED  BY <1>2, <1>3

LEMMA CheckExitStep ==
  ASSUME RingInv, NEW w \in Workers, CheckExit(w)
  PROVE  RingInv'
<1>. DEFINE c == widx[w]
<1>1. /\ wpc[w] = "check"
      /\ UNCHANGED <<chunkVars, outputVars, configVars, mainVars, wi, histVars>>
  BY DEF CheckExit
<1>2. /\ mpc # "killed" /\ TypeOK /\ MainInv /\ RecycledInv /\ RemainingWorkersExact
      /\ \A v \in Workers : WorkerPosition(v) /\ WorkerRemaining(v) /\ WorkerReaped(v)
  BY <1>1, WorkerNotKilled
<1>. USE <1>1 DEF chunkVars, outputVars, configVars, mainVars, histVars
<1>3. c \in Chunks /\ wgen[w] \in Nat /\ NChunks \in Nat /\ Chunks = 0 .. NChunks - 1
      /\ idx \in Chunks /\ gen \in Nat /\ generation \in [Chunks -> Nat]
  BY <1>2, ConstantsAssumption DEF TypeOK, WorkerTypes, MainTypes, ChunkTypes, Chunks
<1>4. \A d \in Chunks : remaining[w][d] = 0
  BY <1>2 DEF WorkerRemaining
<1>5. \/ wpc' = [wpc EXCEPT ![w] = "exited"] /\ wgen' = wgen /\ widx' = widx
      \/ /\ wpc' = [wpc EXCEPT ![w] = "wait"]
         /\ widx' = [widx EXCEPT ![w] = NextIdx(c)]
         /\ wgen' = [wgen EXCEPT ![w] = NextGen(wgen[w], c)]
  BY DEF CheckExit
<1>6. /\ wgen'[w] \in Nat /\ widx'[w] \in Chunks /\ wpc'[w] \in {"exited", "wait"}
      /\ wgen' = [wgen EXCEPT ![w] = wgen'[w]] /\ widx' = [widx EXCEPT ![w] = widx'[w]]
      /\ wpc' = [wpc EXCEPT ![w] = wpc'[w]]
      /\ wpc'[w] = "exited" => wgen'[w] = wgen[w] /\ widx'[w] = c
      /\ wpc'[w] = "wait" =>
           \/ wgen'[w] = wgen[w] /\ widx'[w] = c + 1
           \/ wgen'[w] = wgen[w] + 1 /\ widx'[w] = 0 /\ c = NChunks - 1
  <2>1. wpc \in [Workers -> WorkerPc] /\ wgen \in [Workers -> Nat] /\ widx \in [Workers -> Chunks]
    BY <1>2 DEF TypeOK, WorkerTypes
  <2>2. /\ NextIdx(c) \in Chunks /\ NextGen(wgen[w], c) \in Nat
        /\ \/ NextGen(wgen[w], c) = wgen[w] /\ NextIdx(c) = c + 1
           \/ NextGen(wgen[w], c) = wgen[w] + 1 /\ NextIdx(c) = 0 /\ c = NChunks - 1
    BY <1>3, NextInRing
  <2>3. CASE wpc' = [wpc EXCEPT ![w] = "exited"] /\ wgen' = wgen /\ widx' = widx
    <3>1. wpc'[w] = "exited" /\ widx'[w] = c /\ wgen'[w] = wgen[w]
      BY <2>1, <2>3
    <3>2. wgen' = [wgen EXCEPT ![w] = wgen'[w]]
      BY <2>1, <2>3
    <3>3. widx' = [widx EXCEPT ![w] = widx'[w]]
      BY <2>1, <2>3
    <3>4. wpc' = [wpc EXCEPT ![w] = wpc'[w]]
      BY <2>3, <3>1
    <3>. QED  BY <1>3, <3>1, <3>2, <3>3, <3>4
  <2>4. CASE /\ wpc' = [wpc EXCEPT ![w] = "wait"]
             /\ widx' = [widx EXCEPT ![w] = NextIdx(c)]
             /\ wgen' = [wgen EXCEPT ![w] = NextGen(wgen[w], c)]
    <3>1. wpc'[w] = "wait" /\ widx'[w] = NextIdx(c) /\ wgen'[w] = NextGen(wgen[w], c)
      BY <2>1, <2>4
    <3>2. /\ wgen' = [wgen EXCEPT ![w] = wgen'[w]] /\ widx' = [widx EXCEPT ![w] = widx'[w]]
          /\ wpc' = [wpc EXCEPT ![w] = wpc'[w]]
      BY <2>4, <3>1
    <3>3. wgen'[w] \in Nat /\ widx'[w] \in Chunks
      BY <2>2, <3>1
    <3>4. \/ wgen'[w] = wgen[w] /\ widx'[w] = c + 1
          \/ wgen'[w] = wgen[w] + 1 /\ widx'[w] = 0 /\ c = NChunks - 1
      BY <2>2, <3>1
    <3>. QED  BY <3>1, <3>2, <3>3, <3>4
  <2>. QED  BY <1>5, <2>3, <2>4
<1>7. TypeOK'
  <2>1. WorkerTypes'
    BY <1>2, <1>6 DEF TypeOK, WorkerTypes, WorkerPc
  <2>. QED  BY <1>2, <2>1 DEF TypeOK, ChunkTypes, OutputTypes, ConfigTypes, MainTypes, HistTypes
<1>8. MainInv'
  BY <1>2 DEF MainInv, Filling
<1>9. ASSUME NEW v \in Workers
      PROVE  (WorkerPosition(v) /\ WorkerRemaining(v) /\ WorkerReaped(v))'
  <2>1. CASE v = w
    <3>1. Filling => wgen'[w] < gen \/ (wgen'[w] = gen /\ widx'[w] <= idx)
      BY <1>2, <1>3, <1>6 DEF WorkerPosition, MainInv
    <3>2. wpc'[w] = "exited" => generation[widx'[w]] >= wgen'[w]
      BY <1>2, <1>6 DEF WorkerPosition
    <3>3. WorkerPosition(w)'
      BY <1>6, <3>1, <3>2 DEF WorkerPosition, Filling
    <3>4. WorkerRemaining(w)'
      BY <1>4, <1>6 DEF WorkerRemaining
    <3>5. WorkerReaped(w)'
      BY <1>2, <1>6 DEF WorkerReaped
    <3>. QED  BY <2>1, <3>3, <3>4, <3>5
  <2>2. CASE v # w
    <3>1. wpc'[v] = wpc[v] /\ wgen'[v] = wgen[v] /\ widx'[v] = widx[v]
      BY <1>2, <1>6, <2>2 DEF TypeOK, WorkerTypes
    <3>. QED  BY <1>2, <3>1 DEF WorkerPosition, WorkerRemaining, WorkerReaped, AtFill, Filling
  <2>. QED  BY <2>1, <2>2
<1>10. \A d \in Chunks : \A v \in Workers : Owes(v, d)' <=> Owes(v, d)
  <2>1. ASSUME NEW d \in Chunks PROVE Owes(w, d)' <=> Owes(w, d)
    <3>1. generation[d] \in Nat
      BY <1>3
    <3>. QED  BY <1>3, <1>6, <3>1 DEF Owes, Behind, AtFill
  <2>2. ASSUME NEW d \in Chunks, NEW v \in Workers, v # w
        PROVE  Owes(v, d)' <=> Owes(v, d)
    BY <1>2, <1>6, <2>2 DEF Owes, Behind, AtFill, TypeOK, WorkerTypes
  <2>. QED  BY <2>1, <2>2
<1>11. RecycledInv'
  <2>1. \A v \in Workers : wpc'[v] = "reaped" => wpc[v] = "reaped" /\ widx'[v] = widx[v]
    BY <1>2, <1>6 DEF TypeOK, WorkerTypes
  <2>. QED  BY <1>2, <1>3, <1>10, <2>1 DEF RecycledInv, Recycling
<1>12. RemainingWorkersExact'
  BY <1>2, <1>10, SameDebts
<1>. QED  BY <1>2, <1>7, <1>8, <1>9, <1>11, <1>12 DEF RingInv

(***************************************************************************)
(* The SIGCHLD handler                                                     *)
(***************************************************************************)

\* The handler's search through `remaining' finds the one chunk a crashed
\* worker was in, and the slot it was at.
LEMMA CrashFound ==
  ASSUME TypeOK, NEW w \in FoundCrashed, WorkerRemaining(w)
  PROVE  /\ w \in Workers /\ wpc[w] \in {"crashed", "failed"}
         /\ Unfinished(w) = {widx[w]} /\ CrashChunk(w) = widx[w]
         /\ AtFill(w, widx[w]) /\ widx[w] \in Chunks
         /\ CrashSlot(w) \in Slots /\ CrashSlot(w) = wi[w]
<1>1. w \in Workers /\ wpc[w] \in {"crashed", "exited", "failed"} /\ Unfinished(w) # {}
  BY DEF FoundCrashed, Zombies
<1>2. widx[w] \in Chunks /\ NSlots \in Nat /\ Chunks \subseteq Int
  BY <1>1, ConstantsAssumption DEF TypeOK, WorkerTypes, Chunks
<1>3. PICK c \in Chunks : remaining[w][c] # 0
  BY <1>1 DEF Unfinished
<1>4. c = widx[w] /\ AtFill(w, c) /\ wpc[w] # "exited" /\ remaining[w][c] = input_count[c] - wi[w]
  BY <1>3 DEF WorkerRemaining
<1>5. Unfinished(w) = {widx[w]}
  BY <1>2, <1>3, <1>4 DEF Unfinished, WorkerRemaining
<1>6. CrashChunk(w) = widx[w]
  BY <1>2, <1>5 DEF CrashChunk
<1>7. input_count[c] \in 0 .. NSlots /\ remaining[w][c] \in 0 .. NSlots /\ wi[w] \in 0 .. NSlots
  BY <1>1, <1>3 DEF TypeOK, ChunkTypes, OutputTypes, WorkerTypes
<1>8. wi[w] \in Slots /\ wi[w] = input_count[c] - remaining[w][c]
  BY <1>2, <1>3, <1>4, <1>7 DEF Slots
<1>. QED  BY <1>1, <1>2, <1>4, <1>5, <1>6, <1>8 DEF CrashSlot

LEMMA SigchldHandlerStep ==
  ASSUME RingInv, SigchldHandler
  PROVE  RingInv'
<1>1. ~ThreadMode /\ mpc \notin {"done", "killed"}
  BY DEF SigchldHandler, MainAlive
<1>2. /\ TypeOK /\ MainInv /\ RecycledInv /\ RemainingWorkersExact
      /\ \A v \in Workers : WorkerPosition(v) /\ WorkerRemaining(v) /\ WorkerReaped(v)
  BY <1>1 DEF RingInv
<1>3. UNCHANGED <<generation, input_count, inputs, remaining, mainVars, wgen, widx, wi, histVars>>
  BY DEF SigchldHandler
<1>. USE <1>3 DEF mainVars, histVars
<1>4. ASSUME NEW w \in FoundCrashed
      PROVE  /\ wpc[w] \in {"crashed", "failed"} /\ CrashChunk(w) = widx[w] /\ w \in Workers
             /\ AtFill(w, widx[w]) /\ CrashSlot(w) \in Slots /\ widx[w] \in Chunks
             /\ remaining[w][widx[w]] # 0
  BY <1>2, CrashFound DEF FoundCrashed, Zombies, Unfinished
<1>5. ASSUME NEW w \in Workers, w \notin FoundCrashed
      PROVE  wpc[w] # "crashed"
  BY <1>2, <1>5 DEF FoundCrashed, Zombies, Unfinished, WorkerRemaining, TypeOK, WorkerTypes
<1>6. \A w \in FoundCrashed :
        /\ wpc'[w] = "reaped" /\ sigchld'[w] = TRUE
        /\ start_gen'[w] = generation[widx[w]] /\ start_idx'[w] = widx[w]
  BY <1>4 DEF SigchldHandler, RestartGen
<1>7. \A w \in Workers \ FoundCrashed :
        /\ wpc'[w] = IF wpc[w] = "failed" THEN "lost" ELSE IF wpc[w] = "exited" THEN "gone" ELSE wpc[w]
        /\ sigchld'[w] = sigchld[w] /\ start_gen'[w] = start_gen[w] /\ start_idx'[w] = start_idx[w]
  <2>1. ASSUME NEW w \in Workers, w \notin FoundCrashed
        PROVE  wpc'[w] = IF wpc[w] = "failed" THEN "lost" ELSE IF wpc[w] = "exited" THEN "gone" ELSE wpc[w]
    <3>1. wpc'[w] = IF w \in Zombies THEN IF wpc[w] = "failed" THEN "lost" ELSE "gone" ELSE wpc[w]
      BY <2>1 DEF SigchldHandler
    <3>. QED  BY <1>5, <2>1, <3>1 DEF Zombies
  <2>2. ASSUME NEW w \in Workers, w \notin FoundCrashed
        PROVE  sigchld'[w] = sigchld[w] /\ start_gen'[w] = start_gen[w] /\ start_idx'[w] = start_idx[w]
    BY <1>2, <2>2 DEF SigchldHandler, TypeOK, ConfigTypes
  <2>. QED  BY <2>1, <2>2
<1>8. TypeOK'
  <2>1. OutputTypes'
    <3>1. ASSUME NEW w \in FoundCrashed
          PROVE  [outputs[w] EXCEPT ![CrashChunk(w)][CrashSlot(w)].status = "crash"]
                   \in [Chunks -> [Slots -> OutputSlots]]
      <4>. DEFINE c == widx[w]
                  slot == CrashSlot(w)
                  verdict == [outputs[w][c][slot] EXCEPT !.status = "crash"]
      <4>1. outputs[w] \in [Chunks -> [Slots -> OutputSlots]] /\ outputs[w][c][slot] \in OutputSlots
        BY <1>2, <1>4 DEF TypeOK, OutputTypes
      <4>2. verdict \in OutputSlots
        BY <4>1 DEF OutputSlots, Status
      <4>3. [outputs[w] EXCEPT ![CrashChunk(w)][CrashSlot(w)].status = "crash"]
              = [outputs[w] EXCEPT ![c] = [outputs[w][c] EXCEPT ![slot] = verdict]]
        BY <1>4
      <4>4. c \in Chunks /\ slot \in Slots
        BY <1>4
      <4>. HIDE DEF verdict, slot, c
      <4>5. [outputs[w][c] EXCEPT ![slot] = verdict] \in [Slots -> OutputSlots]
        BY <4>1, <4>2, <4>4
      <4>. QED  BY <4>1, <4>3, <4>4, <4>5
    <3>2. outputs' \in [Workers -> [Chunks -> [Slots -> OutputSlots]]]
      BY <1>2, <3>1 DEF SigchldHandler, TypeOK, OutputTypes
    <3>. QED  BY <1>2, <3>2 DEF TypeOK, OutputTypes
  <2>2. ConfigTypes'
    <3>1. start_gen' \in [Workers -> Nat]
      <4>1. ASSUME NEW w \in FoundCrashed PROVE RestartGen(CrashChunk(w)) \in Nat
        BY <1>2, <1>4 DEF TypeOK, ChunkTypes, RestartGen
      <4>. QED  BY <1>2, <4>1 DEF SigchldHandler, TypeOK, ConfigTypes
    <3>2. start_idx' \in [Workers -> Chunks]
      BY <1>2, <1>4 DEF SigchldHandler, TypeOK, ConfigTypes
    <3>3. sigchld' \in [Workers -> BOOLEAN]
      BY <1>2 DEF SigchldHandler, TypeOK, ConfigTypes
    <3>. QED  BY <3>1, <3>2, <3>3 DEF ConfigTypes
  <2>3. ChunkTypes'
    <3>1. ASSUME NEW c \in Chunks PROVE remaining_workers[c] - Cardinality(CrashedIn(c)) \in Int
      <4>1. CrashedIn(c) \in SUBSET Workers
        BY DEF CrashedIn, FoundCrashed, Zombies
      <4>. QED  BY <1>2, <4>1, WorkersFinite DEF TypeOK, ChunkTypes
    <3>2. remaining_workers' \in [Chunks -> Int]
      BY <3>1 DEF SigchldHandler
    <3>. QED  BY <1>2, <3>2 DEF TypeOK, ChunkTypes
  <2>4. WorkerTypes'
    <3>1. ASSUME NEW w \in Workers PROVE wpc'[w] \in WorkerPc
      BY <1>2, <1>6, <1>7 DEF TypeOK, WorkerTypes, WorkerPc
    <3>2. wpc' \in [Workers -> WorkerPc]
      BY <3>1 DEF SigchldHandler
    <3>. QED  BY <1>2, <3>2 DEF TypeOK, WorkerTypes
  <2>. QED  BY <1>2, <2>1, <2>2, <2>3, <2>4 DEF TypeOK, MainTypes, HistTypes
<1>9. MainInv'
  BY <1>2 DEF MainInv, Filling
<1>10. ASSUME NEW w \in Workers
       PROVE  (WorkerPosition(w) /\ WorkerRemaining(w) /\ WorkerReaped(w))'
  <2>1. CASE w \in FoundCrashed
    <3>1. WorkerPosition(w)'
      BY <1>1, <1>2, <1>4, <1>6, <2>1 DEF WorkerPosition, AtFill, Filling
    <3>2. WorkerRemaining(w)'
      BY <1>2, <1>4, <1>6, <2>1 DEF WorkerRemaining, AtFill
    <3>3. WorkerReaped(w)'
      BY <1>4, <1>6, <2>1 DEF WorkerReaped, AtFill
    <3>. QED  BY <3>1, <3>2, <3>3
  <2>2. CASE w \notin FoundCrashed
    <3>1. WorkerPosition(w)'
      BY <1>1, <1>2, <1>7, <2>2 DEF WorkerPosition, Filling
    <3>2. \A c \in Chunks : remaining[w][c] # 0 => wpc[w] # "failed"
      BY <2>2 DEF FoundCrashed, Zombies, Unfinished
    <3>3. WorkerRemaining(w)'
      BY <1>2, <1>5, <1>7, <2>2, <3>2 DEF WorkerRemaining, AtFill
    <3>4. WorkerReaped(w)'
      BY <1>2, <1>7, <2>2 DEF WorkerReaped
    <3>. QED  BY <3>1, <3>3, <3>4
  <2>. QED  BY <2>1, <2>2
<1>11. ASSUME NEW c \in Chunks, NEW w \in Workers
       PROVE  /\ Owes(w, c)' <=> (Owes(w, c) /\ w \notin CrashedIn(c))
              /\ w \in CrashedIn(c) => Owes(w, c)
  <2>1. CASE w \in FoundCrashed
    <3>1. Owes(w, c) <=> Behind(w, c) \/ AtFill(w, c)
      BY <1>4, <2>1 DEF Owes
    <3>2. Owes(w, c)' <=> Behind(w, c)
      BY <1>6, <2>1 DEF Owes, Behind, AtFill
    <3>3. w \in CrashedIn(c) <=> widx[w] = c
      BY <1>4, <2>1 DEF CrashedIn
    <3>4. widx[w] = c => AtFill(w, c) /\ ~Behind(w, c)
      BY <1>2, <1>4, <2>1, ConstantsAssumption DEF AtFill, Behind, TypeOK, ChunkTypes, WorkerTypes, Chunks
    <3>5. AtFill(w, c) => widx[w] = c
      BY DEF AtFill
    <3>. QED  BY <3>1, <3>2, <3>3, <3>4, <3>5
  <2>2. CASE w \notin FoundCrashed
    <3>1. w \notin CrashedIn(c)
      BY <2>2 DEF CrashedIn
    <3>2. Owes(w, c)' <=> Owes(w, c)
      BY <1>7, <2>2 DEF Owes, Behind, AtFill
    <3>. QED  BY <3>1, <3>2
  <2>. QED  BY <2>1, <2>2
<1>12. RecycledInv'
  <2>1. ASSUME NEW w \in Workers, wpc'[w] = "reaped", wpc[w] # "reaped", widx[w] = idx
        PROVE  Owes(w, idx)
    <3>1. w \in FoundCrashed
      BY <1>7, <2>1
    <3>. QED  BY <1>4, <2>1, <3>1 DEF Owes
  <2>2. \A w \in Workers : Owes(w, idx)' => Owes(w, idx)
    BY <1>2, <1>11 DEF TypeOK, MainTypes
  <2>. QED  BY <1>2, <2>1, <2>2 DEF RecycledInv, Recycling
<1>13. RemainingWorkersExact'
  <2>1. ASSUME NEW c \in Chunks
        PROVE  remaining_workers'[c] = IF mpc = "publish" /\ c = idx THEN NWorkers
                                                                  ELSE Cardinality(Debtors(c)')
    <3>1. CrashedIn(c) \subseteq Debtors(c) /\ Debtors(c)' = Debtors(c) \ CrashedIn(c)
      BY <1>11 DEF Debtors, CrashedIn, FoundCrashed, Zombies
    <3>2. /\ IsFiniteSet(Debtors(c)) /\ Cardinality(Debtors(c)) \in Nat
          /\ Cardinality(CrashedIn(c)) \in Nat
      BY <3>1, WorkersFinite DEF Debtors
    <3>3. Cardinality(Debtors(c)') = Cardinality(Debtors(c)) - Cardinality(CrashedIn(c))
      <4>1. Debtors(c) \cap CrashedIn(c) = CrashedIn(c)
        BY <3>1
      <4>. QED  BY <3>1, <3>2, <4>1, WorkersFinite, FS_Difference DEF Debtors
    <3>4. remaining_workers'[c] = remaining_workers[c] - Cardinality(CrashedIn(c))
      BY DEF SigchldHandler
    <3>5. CASE mpc = "publish" /\ c = idx
      <4>1. CrashedIn(c) = {}
        BY <1>2, <1>11, <3>1, <3>5 DEF RecycledInv, Recycling, Debtors
      <4>2. Cardinality(CrashedIn(c)) = 0
        BY <4>1, FS_EmptySet
      <4>. QED  BY <1>2, <1>1, <3>4, <3>5, <4>2, ConstantsAssumption DEF RemainingWorkersExact
    <3>6. CASE ~(mpc = "publish" /\ c = idx)
      BY <1>1, <1>2, <3>3, <3>4, <3>6 DEF RemainingWorkersExact
    <3>. QED  BY <3>5, <3>6
  <2>. QED  BY <2>1 DEF RemainingWorkersExact
<1>. QED  BY <1>1, <1>8, <1>9, <1>10, <1>12, <1>13 DEF RingInv

(***************************************************************************)
(* The steps of main()                                                     *)
(***************************************************************************)

\* Workers keep their part of the invariant in a step of main that leaves
\* workers, flags, chunk contents and generations alone.
LEMMA SameWorkers ==
  ASSUME \A v \in Workers : WorkerPosition(v) /\ WorkerRemaining(v) /\ WorkerReaped(v),
         UNCHANGED <<generation, input_count, remaining, configVars, workerVars>>,
         Filling' => Filling /\ gen' = gen /\ idx' = idx
  PROVE  \A v \in Workers : (WorkerPosition(v) /\ WorkerRemaining(v) /\ WorkerReaped(v))'
BY DEF WorkerPosition, WorkerRemaining, WorkerReaped, AtFill, configVars, workerVars

\* ... and so do their debts.
LEMMA SameOwes ==
  ASSUME UNCHANGED <<generation, workerVars>>
  PROVE  \A c \in Chunks : \A v \in Workers : Owes(v, c)' <=> Owes(v, c)
BY DEF Owes, Behind, AtFill, workerVars

\* The counts stay exact when neither they nor the debts change.
LEMMA SameCounts ==
  ASSUME RemainingWorkersExact, mpc \notin {"killed", "publish"}, mpc' # "publish",
         UNCHANGED <<generation, remaining_workers, workerVars>>
  PROVE  RemainingWorkersExact'
<1>1. ASSUME NEW c \in Chunks PROVE Debtors(c)' = Debtors(c)
  BY SameOwes DEF Debtors
<1>. QED  BY <1>1 DEF RemainingWorkersExact

LEMMA WaitForWorkersStep ==
  ASSUME RingInv, WaitForWorkers
  PROVE  RingInv'
<1>1. /\ mpc = "wait" /\ remaining_workers[idx] = 0
      /\ mpc' = IF ThreadMode THEN "process" ELSE "restart"
      /\ i' = 0 /\ worker_restarted' = FALSE
      /\ UNCHANGED <<chunkVars, outputVars, configVars, gen, idx, exit_idx, supplied,
                     workerVars, histVars>>
  BY DEF WaitForWorkers
<1>2. /\ TypeOK /\ MainInv /\ RecycledInv /\ RemainingWorkersExact
      /\ \A v \in Workers : WorkerPosition(v) /\ WorkerRemaining(v) /\ WorkerReaped(v)
  BY <1>1 DEF RingInv
<1>. USE <1>1 DEF chunkVars, outputVars, configVars, workerVars, histVars
<1>3. TypeOK'
  BY <1>2 DEF TypeOK, ChunkTypes, OutputTypes, ConfigTypes, WorkerTypes, HistTypes, MainTypes, MainPc
<1>4. MainInv'
  BY <1>2 DEF MainInv, Filling
<1>5. \A v \in Workers : (WorkerPosition(v) /\ WorkerRemaining(v) /\ WorkerReaped(v))'
  BY <1>2, SameWorkers DEF Filling
<1>6. RecycledInv'
  <2>1. idx \in Chunks /\ Cardinality(Debtors(idx)) = 0
    BY <1>2 DEF RemainingWorkersExact, TypeOK, MainTypes
  <2>2. \A w \in Workers : ~Owes(w, idx)'
    BY <2>1, NoDebtors, SameOwes
  <2>3. \A w \in Workers : ~(w < 0)
    BY ConstantsAssumption DEF Workers
  <2>4. ThreadMode => \A w \in Workers : wpc[w] # "reaped"
    BY <1>2 DEF WorkerPosition
  <2>. QED  BY <2>2, <2>3, <2>4 DEF RecycledInv, Recycling
<1>7. RemainingWorkersExact'
  BY <1>2, SameCounts
<1>. QED  BY <1>3, <1>4, <1>5, <1>6, <1>7 DEF RingInv

LEMMA EndRestartsStep ==
  ASSUME RingInv, EndRestarts
  PROVE  RingInv'
<1>1. /\ mpc = "restart" /\ i >= NWorkers
      /\ mpc' = IF worker_restarted THEN "wait" ELSE "process"
      /\ i' = 0
      /\ UNCHANGED <<chunkVars, outputVars, configVars, gen, idx, exit_idx,
                     worker_restarted, supplied, workerVars, histVars>>
  BY DEF EndRestarts, AfterRestarts, RestartBound
<1>2. /\ TypeOK /\ MainInv /\ RecycledInv /\ RemainingWorkersExact
      /\ \A v \in Workers : WorkerPosition(v) /\ WorkerRemaining(v) /\ WorkerReaped(v)
  BY <1>1 DEF RingInv
<1>. USE <1>1 DEF chunkVars, outputVars, configVars, workerVars, histVars
<1>3. TypeOK'
  BY <1>2 DEF TypeOK, ChunkTypes, OutputTypes, ConfigTypes, WorkerTypes, HistTypes, MainTypes, MainPc
<1>4. MainInv'
  BY <1>2 DEF MainInv, Filling
<1>5. \A v \in Workers : (WorkerPosition(v) /\ WorkerRemaining(v) /\ WorkerReaped(v))'
  BY <1>2, SameWorkers DEF Filling
<1>6. RecycledInv'
  <2>1. \A w \in Workers : w < i
    BY <1>2, ConstantsAssumption DEF Workers, TypeOK, MainTypes
  <2>2. idx \in Chunks
    BY <1>2 DEF TypeOK, MainTypes
  <2>. QED  BY <1>2, <2>1, <2>2, SameOwes DEF RecycledInv, Recycling
<1>7. RemainingWorkersExact'
  BY <1>2, SameCounts
<1>. QED  BY <1>3, <1>4, <1>5, <1>6, <1>7 DEF RingInv

LEMMA ProcessSlotStep ==
  ASSUME RingInv, ProcessSlot
  PROVE  RingInv'
<1>1. /\ mpc = "process" /\ i < input_count[idx] /\ i' = i + 1
      /\ out' = Append(out, [input |-> inputs[idx][i],
                             outs |-> [w \in Workers |-> outputs[w][idx][i]]])
      /\ UNCHANGED <<chunkVars, outputVars, configVars, mpc, gen, idx, exit_idx,
                     worker_restarted, supplied, workerVars, crashed>>
  BY DEF ProcessSlot, Reportable
<1>2. /\ TypeOK /\ MainInv /\ RecycledInv /\ RemainingWorkersExact
      /\ \A v \in Workers : WorkerPosition(v) /\ WorkerRemaining(v) /\ WorkerReaped(v)
  BY <1>1 DEF RingInv
<1>3. idx \in Chunks /\ i \in Slots
  BY <1>1, <1>2, ConstantsAssumption DEF TypeOK, MainTypes, ChunkTypes, Slots
<1>. USE DEF chunkVars, outputVars, configVars, workerVars
<1>4. TypeOK'
  <2>1. HistTypes'
    <3>. DEFINE Cohort == [input : Nat, outs : [Workers -> OutputSlots]]
                cohort == [input |-> inputs[idx][i], outs |-> [w \in Workers |-> outputs[w][idx][i]]]
    <3>1. cohort \in Cohort
      BY <1>2, <1>3 DEF TypeOK, ChunkTypes, OutputTypes
    <3>2. out \in Seq(Cohort) /\ out' = Append(out, cohort)
      BY <1>1, <1>2 DEF TypeOK, HistTypes
    <3>. HIDE DEF Cohort, cohort
    <3>3. out' \in Seq(Cohort)
      BY <3>1, <3>2
    <3>. QED  BY <1>1, <1>2, <3>3 DEF TypeOK, HistTypes, Cohort
  <2>2. MainTypes'
    BY <1>1, <1>2 DEF TypeOK, MainTypes
  <2>. QED  BY <1>1, <1>2, <2>1, <2>2 DEF TypeOK, ChunkTypes, OutputTypes, ConfigTypes, WorkerTypes
<1>5. MainInv'
  BY <1>1, <1>2 DEF MainInv, Filling
<1>6. \A v \in Workers : (WorkerPosition(v) /\ WorkerRemaining(v) /\ WorkerReaped(v))'
  BY <1>1, <1>2, SameWorkers DEF Filling
<1>7. RecycledInv'
  BY <1>1, <1>2, <1>3, SameOwes DEF RecycledInv, Recycling
<1>8. RemainingWorkersExact'
  BY <1>1, <1>2, SameCounts
<1>. QED  BY <1>1, <1>4, <1>5, <1>6, <1>7, <1>8 DEF RingInv

LEMMA RestartWorkerStep ==
  ASSUME RingInv, RestartWorker
  PROVE  RingInv'
<1>1. /\ mpc = "restart" /\ i < NWorkers /\ i' = i + 1
      /\ UNCHANGED <<generation, input_count, inputs, outputVars, start_gen, start_idx,
                     mpc, gen, idx, exit_idx, supplied, wi, histVars>>
  BY DEF RestartWorker, RestartBound
<1>2. /\ TypeOK /\ MainInv /\ RecycledInv /\ RemainingWorkersExact
      /\ \A v \in Workers : WorkerPosition(v) /\ WorkerRemaining(v) /\ WorkerReaped(v)
  BY <1>1 DEF RingInv
<1>3. i \in Workers /\ idx \in Chunks
  BY <1>1, <1>2, ConstantsAssumption DEF Workers, TypeOK, MainTypes
<1>. USE <1>1 DEF outputVars, histVars
<1>4. MainInv'
  BY <1>2 DEF MainInv, Filling
<1>5. OutputTypes' /\ HistTypes'
  BY <1>2 DEF TypeOK, OutputTypes, HistTypes
<1>6. CASE ~sigchld[i]
  <2>1. UNCHANGED <<remaining_workers, sigchld, wpc, wgen, widx, worker_restarted>>
    BY <1>6 DEF RestartWorker
  <2>. USE <2>1 DEF configVars, workerVars
  <2>2. TypeOK'
    BY <1>2, <1>5 DEF TypeOK, ChunkTypes, ConfigTypes, WorkerTypes, MainTypes
  <2>3. \A v \in Workers : (WorkerPosition(v) /\ WorkerRemaining(v) /\ WorkerReaped(v))'
    BY <1>2, SameWorkers DEF Filling
  <2>4. RecycledInv'
    <3>1. wpc[i] # "reaped"
      BY <1>2, <1>3, <1>6 DEF WorkerReaped
    <3>2. \A w \in Workers : w < i + 1 => w < i \/ w = i
      BY <1>3, ConstantsAssumption DEF Workers
    <3>. QED  BY <1>2, <1>3, <3>1, <3>2, SameOwes DEF RecycledInv, Recycling
  <2>5. RemainingWorkersExact'
    BY <1>2, SameCounts
  <2>. QED  BY <1>4, <2>2, <2>3, <2>4, <2>5 DEF RingInv
<1>7. CASE sigchld[i]
  <2>0. PICK u \in Workers, c \in Chunks : u = i /\ c = widx[u]
    BY <1>2, <1>3 DEF TypeOK, WorkerTypes
  <2>1. /\ wpc[u] = "reaped" /\ start_gen[u] = wgen[u] /\ start_idx[u] = c
        /\ c \in Chunks /\ AtFill(u, c)
    BY <1>2, <1>7, <2>0 DEF WorkerReaped, WorkerPosition, AtFill, TypeOK, WorkerTypes
  <2>2. /\ remaining_workers' = [remaining_workers EXCEPT ![c] = @ + 1]
        /\ sigchld' = [sigchld EXCEPT ![u] = FALSE]
        /\ wpc' = [wpc EXCEPT ![u] = "load"]
        /\ wgen' = [wgen EXCEPT ![u] = start_gen[u]] /\ widx' = [widx EXCEPT ![u] = start_idx[u]]
        /\ worker_restarted' = TRUE
    BY <1>7, <2>0, <2>1 DEF RestartWorker, UndoHack
  <2>3. wgen' = wgen /\ widx' = widx
    BY <1>2, <2>0, <2>1, <2>2 DEF TypeOK, WorkerTypes
  <2>4. TypeOK'
    <3>1. ChunkTypes'
      <4>1. remaining_workers \in [Chunks -> Int] /\ remaining_workers[c] + 1 \in Int
        BY <1>2, <2>1 DEF TypeOK, ChunkTypes
      <4>2. remaining_workers' \in [Chunks -> Int]
        BY <2>2, <4>1
      <4>. QED  BY <1>2, <4>2 DEF TypeOK, ChunkTypes
    <3>2. WorkerTypes'
      BY <1>2, <2>2, <2>3 DEF TypeOK, WorkerTypes, WorkerPc
    <3>3. ConfigTypes' /\ MainTypes'
      BY <1>2, <2>2 DEF TypeOK, ConfigTypes, MainTypes, Workers
    <3>. QED  BY <1>5, <3>1, <3>2, <3>3 DEF TypeOK
  <2>5. ASSUME NEW v \in Workers
        PROVE  (WorkerPosition(v) /\ WorkerRemaining(v) /\ WorkerReaped(v))'
    <3>1. CASE v = u
      <4>1. wpc'[u] = "load" /\ sigchld'[u] = FALSE
        BY <1>2, <2>2 DEF TypeOK, WorkerTypes, ConfigTypes
      <4>2. WorkerPosition(u)'
        BY <1>2, <2>3, <4>1 DEF WorkerPosition, Filling
      <4>3. WorkerRemaining(u)'
        BY <1>2, <2>3, <4>1 DEF WorkerRemaining, AtFill
      <4>4. WorkerReaped(u)'
        BY <4>1 DEF WorkerReaped
      <4>. QED  BY <3>1, <4>2, <4>3, <4>4
    <3>2. CASE v # u
      <4>1. wpc'[v] = wpc[v] /\ sigchld'[v] = sigchld[v]
        BY <1>2, <2>2, <3>2 DEF TypeOK, WorkerTypes, ConfigTypes
      <4>. QED  BY <1>2, <2>3, <4>1 DEF WorkerPosition, WorkerRemaining, WorkerReaped, AtFill, Filling
    <3>. QED  BY <3>1, <3>2
  <2>6. RecycledInv'
    BY <2>2 DEF RecycledInv, Recycling
  <2>7. ASSUME NEW d \in Chunks
        PROVE  Debtors(d)' = IF d = c THEN Debtors(c) \cup {u} ELSE Debtors(d)
    <3>1. ASSUME NEW v \in Workers, v # u PROVE Owes(v, d)' <=> Owes(v, d)
      <4>1. wpc'[v] = wpc[v]
        BY <1>2, <2>2, <3>1 DEF TypeOK, WorkerTypes
      <4>. QED  BY <2>3, <4>1 DEF Owes, Behind, AtFill
    <3>2. wpc'[u] = "load"
      BY <1>2, <2>2 DEF TypeOK, WorkerTypes
    <3>3. d = c => Owes(u, d)'
      BY <2>1, <2>3, <3>2 DEF Owes, AtFill
    <3>4. d # c => (Owes(u, d)' <=> Owes(u, d))
      BY <2>1, <2>3, <3>2 DEF Owes, Behind, AtFill
    <3>. QED  BY <3>1, <3>3, <3>4 DEF Debtors
  <2>8. u \notin Debtors(c)
    <3>1. wgen[u] = generation[c] /\ wgen[u] \in Nat /\ c \in Int
      BY <1>2, <2>1, ConstantsAssumption DEF AtFill, TypeOK, WorkerTypes, Chunks
    <3>. QED  BY <2>0, <2>1, <3>1 DEF Debtors, Owes, Behind
  <2>9. RemainingWorkersExact'
    <3>1. Cardinality(Debtors(c) \cup {u}) = Cardinality(Debtors(c)) + 1
      BY <2>8, WorkersFinite, FS_AddElement DEF Debtors
    <3>2. \A d \in Chunks : remaining_workers[d] = Cardinality(Debtors(d))
      BY <1>2 DEF RemainingWorkersExact
    <3>3. \A d \in Chunks : remaining_workers'[d] =
                             IF d = c THEN remaining_workers[c] + 1 ELSE remaining_workers[d]
      BY <1>2, <2>2 DEF TypeOK, ChunkTypes
    <3>. QED  BY <2>1, <2>7, <3>1, <3>2, <3>3 DEF RemainingWorkersExact
  <2>. QED  BY <1>4, <2>4, <2>5, <2>6, <2>9 DEF RingInv
<1>. QED  BY <1>6, <1>7

LEMMA EndProcessStep ==
  ASSUME RingInv, EndProcess
  PROVE  RingInv'
<1>1. /\ mpc = "process"
      /\ \/ mpc' = (IF ThreadMode THEN "join" ELSE "done") /\ UNCHANGED <<gen, idx>>
         \/ exit_idx = NoExit /\ mpc' = "fill" /\ UNCHANGED <<gen, idx>>
         \/ exit_idx # NoExit /\ mpc' = "wait" /\ idx' = NextIdx(idx) /\ gen' = NextGen(gen, idx)
      /\ UNCHANGED <<chunkVars, outputVars, configVars, exit_idx, i, worker_restarted,
                     supplied, workerVars, histVars>>
  BY DEF EndProcess, AdvanceIdx
<1>2. /\ TypeOK /\ MainInv /\ RecycledInv /\ RemainingWorkersExact
      /\ \A v \in Workers : WorkerPosition(v) /\ WorkerRemaining(v) /\ WorkerReaped(v)
  BY <1>1 DEF RingInv
<1>. USE DEF chunkVars, outputVars, configVars, workerVars, histVars
<1>3. mpc' \in {"join", "done", "fill", "wait"}
  BY <1>1
<1>4. TypeOK'
  <2>1. gen' \in Nat \ {0} /\ idx' \in Chunks
    BY <1>1, <1>2, ConstantsAssumption DEF TypeOK, MainTypes, NextGen, NextIdx, Chunks
  <2>2. MainTypes'
    BY <1>1, <1>2, <1>3, <2>1 DEF TypeOK, MainTypes, MainPc
  <2>. QED  BY <1>1, <1>2, <2>2
       DEF TypeOK, ChunkTypes, OutputTypes, ConfigTypes, WorkerTypes, HistTypes
<1>5. Filling' => Filling /\ gen' = gen /\ idx' = idx
  BY <1>1 DEF Filling
<1>6. MainInv'
  BY <1>1, <1>2, <1>3, <1>5 DEF MainInv
<1>7. \A v \in Workers : (WorkerPosition(v) /\ WorkerRemaining(v) /\ WorkerReaped(v))'
  BY <1>1, <1>2, <1>5, SameWorkers
<1>8. RecycledInv'
  <2>1. idx \in Chunks
    BY <1>2 DEF TypeOK, MainTypes
  <2>. QED  BY <1>1, <1>2, <1>3, <2>1, SameOwes DEF RecycledInv, Recycling
<1>9. RemainingWorkersExact'
  BY <1>1, <1>2, <1>3, SameCounts
<1>. QED  BY <1>3, <1>4, <1>6, <1>7, <1>8, <1>9 DEF RingInv

\* What the mutator fills fits the chunk and is taken from what it has left.
LEMMA FillCountBound ==
  ASSUME supplied \in Nat, supplied <= TotalInputs
  PROVE  FillCount \in 0 .. NSlots /\ supplied + FillCount <= TotalInputs /\ supplied + FillCount \in Nat
BY ConstantsAssumption DEF FillCount

\* While main recycles a chunk no worker is in it: none has slots left in it
\* and none is at its published fill, except past the chunk.
LEMMA NobodyInside ==
  ASSUME TypeOK, RecycledInv, Recycling, NEW w \in Workers,
         WorkerPosition(w), WorkerRemaining(w)
  PROVE  /\ AtFill(w, idx) => wpc[w] \in {"check", "exited", "gone"}
         /\ remaining[w][idx] = 0
         /\ widx[w] = idx => wpc[w] \notin {"decode", "crashed", "reaped"}
         /\ ~Behind(w, idx)
<1>1. ~Owes(w, idx) /\ ~(wpc[w] = "reaped" /\ widx[w] = idx)
  BY DEF RecycledInv
<1>2. AtFill(w, idx) => wpc[w] \in {"check", "exited", "gone"}
  BY <1>1 DEF Owes, AtFill
<1>3. idx \in Chunks
  BY DEF TypeOK, MainTypes
<1>. QED  BY <1>1, <1>2, <1>3 DEF WorkerRemaining, WorkerPosition, AtFill, Owes

LEMMA FillStep ==
  ASSUME RingInv, Fill
  PROVE  RingInv'
<1>1. /\ mpc = "fill" /\ mpc' = "arm"
      /\ inputs' = [inputs EXCEPT ![idx] =
                      [s \in Slots |-> IF s < FillCount THEN supplied + s + 1 ELSE @[s]]]
      /\ input_count' = [input_count EXCEPT ![idx] = FillCount]
      /\ supplied' = supplied + FillCount
      /\ exit_idx' = IF FillCount < NSlots THEN idx ELSE exit_idx
      /\ UNCHANGED <<generation, remaining_workers, outputVars, configVars, gen, idx, i,
                     worker_restarted, workerVars, histVars>>
  BY DEF Fill, NewCount
<1>2. /\ TypeOK /\ MainInv /\ RecycledInv /\ RemainingWorkersExact
      /\ \A v \in Workers : WorkerPosition(v) /\ WorkerRemaining(v) /\ WorkerReaped(v)
  BY <1>1 DEF RingInv
<1>3. idx \in Chunks /\ supplied \in Nat /\ exit_idx = NoExit /\ Recycling /\ Filling
  BY <1>1, <1>2 DEF TypeOK, MainTypes, MainInv, Recycling, Filling
<1>4. FillCount \in 0 .. NSlots /\ supplied' <= TotalInputs /\ supplied' \in Nat
  BY <1>1, <1>2, <1>3, FillCountBound DEF MainInv
<1>. USE DEF outputVars, configVars, workerVars, histVars
<1>5. TypeOK'
  <2>1. ChunkTypes'
    <3>1. inputs' \in [Chunks -> [Slots -> Nat]]
      <4>1. [s \in Slots |-> IF s < FillCount THEN supplied + s + 1 ELSE inputs[idx][s]]
              \in [Slots -> Nat]
        BY <1>2, <1>3, ConstantsAssumption DEF TypeOK, ChunkTypes, Slots
      <4>. QED  BY <1>1, <1>2, <1>3, <4>1 DEF TypeOK, ChunkTypes
    <3>2. input_count' \in [Chunks -> 0 .. NSlots]
      BY <1>1, <1>2, <1>4 DEF TypeOK, ChunkTypes
    <3>. QED  BY <1>1, <1>2, <3>1, <3>2 DEF TypeOK, ChunkTypes
  <2>2. MainTypes'
    <3>1. exit_idx' \in Chunks \cup {NoExit}
      BY <1>1, <1>3
    <3>2. mpc' \in MainPc
      BY <1>1 DEF MainPc
    <3>. QED  BY <1>1, <1>2, <1>4, <3>1, <3>2 DEF TypeOK, MainTypes
  <2>. QED  BY <1>1, <1>2, <2>1, <2>2 DEF TypeOK, OutputTypes, ConfigTypes, WorkerTypes, HistTypes
<1>6. MainInv'
  BY <1>1, <1>2, <1>3, <1>4 DEF MainInv
<1>7. ASSUME NEW v \in Workers
      PROVE  (WorkerPosition(v) /\ WorkerRemaining(v) /\ WorkerReaped(v))'
  <2>1. WorkerPosition(v)'
    BY <1>1, <1>2, <1>3 DEF WorkerPosition
  <2>2. WorkerRemaining(v)'
    <3>1. remaining[v][idx] = 0 /\ (widx[v] = idx => wpc[v] \notin {"decode", "crashed", "reaped"})
      BY <1>2, <1>3, NobodyInside
    <3>2. \A c \in Chunks : c # idx => input_count'[c] = input_count[c]
      BY <1>1, <1>2 DEF TypeOK, ChunkTypes
    <3>3. widx[v] \in Chunks
      BY <1>2 DEF TypeOK, WorkerTypes
    <3>. QED  BY <1>1, <1>2, <3>1, <3>2, <3>3 DEF WorkerRemaining, AtFill
  <2>3. WorkerReaped(v)'
    BY <1>1, <1>2 DEF WorkerReaped
  <2>. QED  BY <2>1, <2>2, <2>3
<1>8. RecycledInv'
  BY <1>1, <1>2, <1>3, SameOwes DEF RecycledInv, Recycling
<1>9. RemainingWorkersExact'
  BY <1>1, <1>2, SameCounts
<1>. QED  BY <1>1, <1>5, <1>6, <1>7, <1>8, <1>9 DEF RingInv

LEMMA ArmStep ==
  ASSUME RingInv, Arm
  PROVE  RingInv'
<1>1. /\ mpc = "arm" /\ mpc' = "publish"
      /\ remaining_workers' = [remaining_workers EXCEPT ![idx] = NWorkers]
      /\ UNCHANGED <<generation, input_count, inputs, outputVars, configVars, gen, idx,
                     exit_idx, i, worker_restarted, supplied, workerVars, histVars>>
  BY DEF Arm
<1>2. /\ TypeOK /\ MainInv /\ RecycledInv /\ RemainingWorkersExact
      /\ \A v \in Workers : WorkerPosition(v) /\ WorkerRemaining(v) /\ WorkerReaped(v)
  BY <1>1 DEF RingInv
<1>. USE DEF outputVars, configVars, workerVars, histVars
<1>3. TypeOK'
  <2>1. remaining_workers' \in [Chunks -> Int]
    <3>1. remaining_workers \in [Chunks -> Int] /\ NWorkers \in Int
      BY <1>2, ConstantsAssumption DEF TypeOK, ChunkTypes
    <3>. QED  BY <1>1, <3>1
  <2>2. ChunkTypes' /\ MainTypes'
    BY <1>1, <1>2, <2>1 DEF TypeOK, ChunkTypes, MainTypes, MainPc
  <2>. QED  BY <1>1, <1>2, <2>2 DEF TypeOK, OutputTypes, ConfigTypes, WorkerTypes, HistTypes
<1>4. Filling /\ Filling' /\ Recycling /\ idx \in Chunks
  BY <1>1, <1>2 DEF Filling, Recycling, TypeOK, MainTypes
<1>5. MainInv'
  BY <1>1, <1>2, <1>4 DEF MainInv
<1>6. \A v \in Workers : (WorkerPosition(v) /\ WorkerRemaining(v) /\ WorkerReaped(v))'
  BY <1>1, <1>2, <1>4, SameWorkers
<1>7. RecycledInv'
  BY <1>1, <1>2, <1>4, SameOwes DEF RecycledInv, Recycling
<1>8. RemainingWorkersExact'
  <2>1. ASSUME NEW c \in Chunks PROVE Debtors(c)' = Debtors(c)
    BY <1>1, SameOwes DEF Debtors
  <2>. QED  BY <1>1, <1>2, <2>1 DEF RemainingWorkersExact, TypeOK, ChunkTypes
<1>. QED  BY <1>1, <1>3, <1>5, <1>6, <1>7, <1>8 DEF RingInv

LEMMA PublishStep ==
  ASSUME RingInv, Publish
  PROVE  RingInv'
<1>1. /\ mpc = "publish" /\ mpc' = "wait"
      /\ generation' = [generation EXCEPT ![idx] = gen]
      /\ idx' = NextIdx(idx) /\ gen' = NextGen(gen, idx)
      /\ UNCHANGED <<remaining_workers, input_count, inputs, outputVars, configVars,
                     exit_idx, i, worker_restarted, supplied, workerVars, histVars>>
  BY DEF Publish, AdvanceIdx
<1>2. /\ TypeOK /\ MainInv /\ RecycledInv /\ RemainingWorkersExact
      /\ \A v \in Workers : WorkerPosition(v) /\ WorkerRemaining(v) /\ WorkerReaped(v)
  BY <1>1 DEF RingInv
<1>. USE DEF outputVars, configVars, workerVars, histVars
\* The state before: idx is unpublished, everybody has yet to come to it.
<1>3. PICK c \in Chunks, g \in Nat : c = idx /\ g = gen /\ g > 0
  BY <1>2 DEF TypeOK, MainTypes
<1>4. Filling /\ Recycling /\ Chunks = 0 .. NChunks - 1 /\ NChunks \in Nat
  BY <1>1, ConstantsAssumption DEF Filling, Recycling, Chunks
<1>5. /\ generation \in [Chunks -> Nat]
      /\ \A d \in Chunks : generation[d] = IF d < c THEN g ELSE g - 1
      /\ generation' = [generation EXCEPT ![c] = g]
  BY <1>1, <1>2, <1>3, <1>4 DEF TypeOK, ChunkTypes, MainInv
<1>6. /\ generation'[c] = g /\ generation[c] = g - 1
      /\ \A d \in Chunks : d # c => generation'[d] = generation[d]
  BY <1>3, <1>4, <1>5
<1>7. /\ idx' \in Chunks /\ gen' \in Nat \ {0}
      /\ \/ idx' = c + 1 /\ gen' = g
         \/ idx' = 0 /\ gen' = g + 1 /\ c = NChunks - 1
  BY <1>1, <1>3, <1>4 DEF NextIdx, NextGen
<1>8. ASSUME NEW v \in Workers
      PROVE  /\ wgen[v] \in Nat /\ widx[v] \in Chunks
             /\ AtFill(v, c) => wpc[v] \in {"check", "exited", "gone"}
             /\ remaining[v][c] = 0
             /\ widx[v] = c => wpc[v] \notin {"decode", "crashed", "reaped"}
             /\ ~Behind(v, c)
             /\ wgen[v] < g \/ (wgen[v] = g /\ widx[v] <= c)
  <2>1. wgen[v] \in Nat /\ widx[v] \in Chunks
    BY <1>2 DEF TypeOK, WorkerTypes
  <2>. QED  BY <1>2, <1>3, <1>4, <2>1, NobodyInside DEF WorkerPosition
<1>9. TypeOK'
  <2>1. ChunkTypes'
    BY <1>1, <1>2, <1>3, <1>5 DEF TypeOK, ChunkTypes
  <2>2. MainTypes'
    BY <1>1, <1>2, <1>7 DEF TypeOK, MainTypes, MainPc
  <2>. QED  BY <1>1, <1>2, <2>1, <2>2 DEF TypeOK, OutputTypes, ConfigTypes, WorkerTypes, HistTypes
<1>10. MainInv'
  <2>1. ASSUME NEW d \in Chunks PROVE generation'[d] = IF d < idx' THEN gen' ELSE gen' - 1
    BY <1>3, <1>4, <1>5, <1>6, <1>7
  <2>. QED  BY <1>1, <1>2, <2>1 DEF MainInv
<1>11. ASSUME NEW v \in Workers
       PROVE  (WorkerPosition(v) /\ WorkerRemaining(v) /\ WorkerReaped(v))'
  <2>1. WorkerPosition(v)'
    <3>1. wgen[v] < gen' \/ (wgen[v] = gen' /\ widx[v] <= idx')
      BY <1>3, <1>4, <1>7, <1>8
    <3>2. wpc[v] \in {"decode", "crashed", "reaped"} => generation'[widx[v]] = wgen[v]
      BY <1>2, <1>6, <1>8 DEF WorkerPosition
    <3>3. wpc[v] \in {"check", "exited", "gone"} => generation'[widx[v]] >= wgen[v]
      <4>1. CASE widx[v] = c
        BY <1>6, <1>8, <1>2, <1>3, <4>1 DEF WorkerPosition
      <4>2. CASE widx[v] # c
        BY <1>6, <1>8, <1>2, <4>2 DEF WorkerPosition
      <4>. QED  BY <4>1, <4>2
    <3>4. ThreadMode => wpc[v] \notin {"crashed", "reaped"}
      BY <1>2 DEF WorkerPosition
    <3>. QED  BY <1>1, <3>1, <3>2, <3>3, <3>4 DEF WorkerPosition
  <2>2. WorkerRemaining(v)'
    BY <1>1, <1>2, <1>6, <1>8 DEF WorkerRemaining, AtFill
  <2>3. WorkerReaped(v)'
    BY <1>1, <1>2 DEF WorkerReaped
  <2>. QED  BY <2>1, <2>2, <2>3
<1>12. RecycledInv'
  BY <1>1 DEF RecycledInv, Recycling
\* Everybody owes the fill that was published, debts in other chunks stay.
<1>13. ASSUME NEW v \in Workers PROVE Owes(v, c)'
  <2>1. (wgen[v] < g \/ (wgen[v] = g /\ widx[v] < c)) => Owes(v, c)'
    BY <1>1, <1>6 DEF Owes, Behind
  <2>2. CASE wgen[v] = g /\ widx[v] = c
    <3>1. wpc[v] \notin {"check", "exited", "gone", "reaped"}
      BY <1>2, <1>3, <1>6, <1>8, <2>2 DEF WorkerPosition
    <3>. QED  BY <1>1, <1>6, <2>2, <3>1 DEF Owes, AtFill
  <2>. QED  BY <1>4, <1>8, <2>1, <2>2
<1>14. RemainingWorkersExact'
  <2>1. Debtors(c)' = Workers
    BY <1>13 DEF Debtors
  <2>2. ASSUME NEW d \in Chunks, d # c PROVE Debtors(d)' = Debtors(d)
    BY <1>1, <1>6, <2>2 DEF Debtors, Owes, Behind, AtFill
  <2>. QED  BY <1>1, <1>2, <1>3, <2>1, <2>2, WorkersFinite DEF RemainingWorkersExact
<1>. QED  BY <1>1, <1>9, <1>10, <1>11, <1>12, <1>14 DEF RingInv

LEMMA JoinThreadsStep ==
  ASSUME RingInv, JoinThreads
  PROVE  RingInv'
<1>1. /\ mpc = "join" /\ mpc' = "done"
      /\ UNCHANGED <<chunkVars, outputVars, configVars, gen, idx, exit_idx, i,
                     worker_restarted, supplied, workerVars, histVars>>
  BY DEF JoinThreads
<1>2. /\ TypeOK /\ MainInv /\ RecycledInv /\ RemainingWorkersExact
      /\ \A v \in Workers : WorkerPosition(v) /\ WorkerRemaining(v) /\ WorkerReaped(v)
  BY <1>1 DEF RingInv
<1>. USE <1>1 DEF chunkVars, outputVars, configVars, workerVars, histVars
<1>3. TypeOK'
  BY <1>2 DEF TypeOK, ChunkTypes, OutputTypes, ConfigTypes, WorkerTypes, HistTypes, MainTypes, MainPc
<1>4. MainInv'
  BY <1>2 DEF MainInv, Filling
<1>5. \A v \in Workers : (WorkerPosition(v) /\ WorkerRemaining(v) /\ WorkerReaped(v))'
  BY <1>2, SameWorkers DEF Filling
<1>6. RecycledInv'
  BY DEF RecycledInv, Recycling
<1>7. RemainingWorkersExact'
  BY <1>2, SameCounts
<1>. QED  BY <1>3, <1>4, <1>5, <1>6, <1>7 DEF RingInv

(***************************************************************************)
(* The theorems                                                            *)
(***************************************************************************)

\* RingInv speaks of the variables only, so it survives a stuttering step.
LEMMA StutterStep ==
  ASSUME RingInv, UNCHANGED vars
  PROVE  RingInv'
<1>. USE DEF vars, chunkVars, outputVars, configVars, mainVars, workerVars, histVars
<1>1. TypeOK' /\ (mpc' = "killed" => KilledInv')
  BY DEF RingInv, TypeOK, ChunkTypes, OutputTypes, ConfigTypes, MainTypes, WorkerTypes,
         HistTypes, KilledInv
<1>2. ASSUME mpc # "killed"
      PROVE  /\ MainInv' /\ RecycledInv' /\ RemainingWorkersExact'
             /\ \A w \in Workers : (WorkerPosition(w) /\ WorkerRemaining(w) /\ WorkerReaped(w))'
  <2>1. /\ TypeOK /\ MainInv /\ RecycledInv /\ RemainingWorkersExact
        /\ \A v \in Workers : WorkerPosition(v) /\ WorkerRemaining(v) /\ WorkerReaped(v)
    BY <1>2 DEF RingInv
  <2>2. MainInv'
    BY <2>1 DEF MainInv, Filling
  <2>3. RecycledInv'
    BY <2>1, SameOwes DEF RecycledInv, Recycling, TypeOK, MainTypes
  <2>4. RemainingWorkersExact'
    BY <1>2, <2>1, SameOwes, SameDebts
  <2>5. \A w \in Workers : (WorkerPosition(w) /\ WorkerRemaining(w) /\ WorkerReaped(w))'
    BY <2>1, SameWorkers DEF Filling
  <2>. QED  BY <2>2, <2>3, <2>4, <2>5
<1>. QED  BY <1>1, <1>2 DEF RingInv

\* The inductive invariant holds: no step of main, of a worker or of the signal
\* handler breaks the ring's accounting.
THEOREM RingInvariant == Spec => []RingInv
<1>1. ASSUME RingInv, [Next]_vars
      PROVE  RingInv'
  <2>1. ASSUME NEW w \in Workers, Worker(w) PROVE RingInv'
    BY <1>1, <2>1, LoadStep, BeginChunkStep, DecodeStep, CrashStep, FinishChunkStep,
       CheckExitStep DEF Worker
  <2>2. CASE SigchldHandler
    BY <1>1, <2>2, SigchldHandlerStep
  <2>3. CASE Main
    <3>1. CASE WaitForWorkers \/ RestartWorker \/ EndRestarts
      BY <1>1, <3>1, WaitForWorkersStep, RestartWorkerStep, EndRestartsStep
    <3>2. CASE ProcessSlot \/ EndProcess \/ Fill
      BY <1>1, <3>2, ProcessSlotStep, EndProcessStep, FillStep
    <3>3. CASE Arm \/ Publish \/ JoinThreads
      BY <1>1, <3>3, ArmStep, PublishStep, JoinThreadsStep
    <3>. QED  BY <2>3, <3>1, <3>2, <3>3 DEF Main
  <2>4. CASE Terminated \/ UNCHANGED vars
    BY <1>1, <2>4, StutterStep DEF Terminated
  <2>. QED  BY <1>1, <2>1, <2>2, <2>3, <2>4 DEF Next
<1>. QED  BY InitRing, <1>1, PTL DEF Spec

\* Every variable keeps its range: in particular the `remaining' counters that
\* tell the handler where a worker died never leave 0 .. NSlots.
THEOREM TypeCorrect == Spec => []TypeOK
<1>1. RingInv => TypeOK
  BY DEF RingInv
<1>. QED  BY RingInvariant, <1>1, PTL

\* remaining_workers counts the workers that owe the chunk, however crashes,
\* the handler's decrement and main's restarts interleave.
THEOREM CountsCorrect == Spec => []RemainingWorkersExact
<1>1. RingInv => RemainingWorkersExact
  BY DEF RingInv, RemainingWorkersExact
<1>. QED  BY RingInvariant, <1>1, PTL

\* Main never reads or overwrites a chunk some worker is in or may enter.
THEOREM ExclusionCorrect == Spec => []ChunkExclusive
<1>1. RingInv => ChunkExclusive
  <2>. SUFFICES ASSUME RingInv, Recycling, NEW w \in Workers PROVE ~Holds(w, idx)
    BY DEF ChunkExclusive, Recycling
  <2>1. mpc # "killed"
    BY DEF Recycling
  <2>. QED  BY <2>1, NobodyInside DEF RingInv, Holds, AtFill
<1>. QED  BY RingInvariant, <1>1, PTL

\* The handler never blames a slot the worker did not die at, nor a worker that
\* finished its work.
THEOREM CrashPositionCorrect == Spec => []CrashPositionExact
<1>1. RingInv => CrashPositionExact
  <2>. SUFFICES ASSUME RingInv, NEW w \in Zombies
                PROVE  /\ wpc[w] = "crashed" => Unfinished(w) # {}
                       /\ wpc[w] = "exited" => Unfinished(w) = {}
                       /\ Unfinished(w) # {} => Unfinished(w) = {widx[w]} /\ CrashSlot(w) = wi[w]
    BY DEF CrashPositionExact
  <2>1. w \in Workers /\ wpc[w] \in {"crashed", "exited", "failed"}
    BY DEF Zombies
  <2>2. TypeOK /\ WorkerRemaining(w) /\ widx[w] \in Chunks
    BY <2>1 DEF RingInv, KilledInv, TypeOK, WorkerTypes
  <2>3. wpc[w] = "crashed" => Unfinished(w) # {}
    BY <2>2 DEF WorkerRemaining, Unfinished
  <2>4. wpc[w] = "exited" => Unfinished(w) = {}
    BY <2>2 DEF WorkerRemaining, Unfinished
  <2>5. Unfinished(w) # {} => Unfinished(w) = {widx[w]} /\ CrashSlot(w) = wi[w]
    BY <2>2, CrashFound DEF FoundCrashed
  <2>. QED  BY <2>3, <2>4, <2>5
<1>. QED  BY RingInvariant, <1>1, PTL

\* A worker goes through the fills of the ring one by one: a restart puts it
\* back exactly where it died.
THEOREM OneByOne == Spec => ChunksOneByOne
<1>. DEFINE Stays(w) == wgen'[w] = wgen[w] /\ widx'[w] = widx[w]
            Advances(w) == /\ wgen'[w] = IF widx[w] = NChunks - 1 THEN wgen[w] + 1 ELSE wgen[w]
                           /\ widx'[w] = IF widx[w] = NChunks - 1 THEN 0 ELSE widx[w] + 1
            Step == \A w \in Workers :
                      <<wgen[w], widx[w]>>' \in {<<wgen[w], widx[w]>>,
                                                 IF widx[w] = NChunks - 1 THEN <<wgen[w] + 1, 0>>
                                                                          ELSE <<wgen[w], widx[w] + 1>>}
<1>1. ASSUME RingInv, [Next]_vars
      PROVE  Step
  <2>. SUFFICES ASSUME NEW v \in Workers PROVE Stays(v) \/ Advances(v)
    OBVIOUS
  <2>1. /\ wgen \in [Workers -> Nat] /\ widx \in [Workers -> Chunks]
        /\ NChunks \in Nat /\ Chunks = 0 .. NChunks - 1
    BY <1>1, ConstantsAssumption DEF RingInv, TypeOK, WorkerTypes, Chunks
  <2>2. ASSUME NEW w \in Workers, CheckExit(w) PROVE Stays(v) \/ Advances(v)
    <3>1. CASE wgen' = wgen /\ widx' = widx
      BY <3>1
    <3>2. CASE /\ wgen' = [wgen EXCEPT ![w] = NextGen(@, widx[w])]
               /\ widx' = [widx EXCEPT ![w] = NextIdx(widx[w])]
      <4>1. CASE v = w
        BY <2>1, <3>2, <4>1 DEF NextGen, NextIdx
      <4>2. CASE v # w
        BY <2>1, <3>2, <4>2
      <4>. QED  BY <4>1, <4>2
    <3>. QED  BY <2>2, <3>1, <3>2 DEF CheckExit
  <2>3. CASE RestartWorker
    <3>1. CASE ~sigchld[i]
      BY <2>3, <3>1 DEF RestartWorker
    <3>2. CASE sigchld[i]
      <4>1. i \in Workers /\ mpc # "killed"
        BY <1>1, <2>3, ConstantsAssumption
        DEF RestartWorker, RestartBound, RingInv, TypeOK, MainTypes, Workers
      <4>2. start_gen[i] = wgen[i] /\ start_idx[i] = widx[i]
        BY <1>1, <3>2, <4>1 DEF RingInv, WorkerReaped
      <4>3. wgen' = [wgen EXCEPT ![i] = start_gen[i]] /\ widx' = [widx EXCEPT ![i] = start_idx[i]]
        BY <2>3, <3>2 DEF RestartWorker
      <4>. QED  BY <2>1, <4>1, <4>2, <4>3
    <3>. QED  BY <3>1, <3>2
  <2>4. CASE \/ \E w \in Workers : Worker(w) /\ ~CheckExit(w)
             \/ SigchldHandler \/ (Main /\ ~RestartWorker) \/ Terminated \/ UNCHANGED vars
    <3>1. wgen' = wgen /\ widx' = widx
      BY <2>4 DEF Worker, Load, BeginChunk, Decode, Crash, FinishChunk, SigchldHandler, Main,
         WaitForWorkers, EndRestarts, ProcessSlot, EndProcess, Fill, Arm, Publish, JoinThreads,
         Terminated, vars, workerVars
    <3>. QED  BY <3>1
  <2>. QED  BY <1>1, <2>2, <2>3, <2>4 DEF Next, Worker, Main
<1>2. Spec => [][Step]_vars
  BY RingInvariant, <1>1, PTL DEF Spec
<1>. QED  BY <1>2 DEF ChunksOneByOne


(***************************************************************************)
(* Where a fill is in the campaign                                         *)
(***************************************************************************)

\* Products by a natural number, the only arithmetic that is not linear.
LEMMA Products ==
  ASSUME NEW a \in Int, NEW b \in Int, NEW n \in Nat
  PROVE  /\ a * n \in Int
         /\ (a + b) * n = a * n + b * n
         /\ a <= b => a * n <= b * n
         /\ 0 * n = 0 /\ 1 * n = n
<1>1. a * n \in Int /\ b * n \in Int /\ (a + b) * n = a * n + b * n
  OBVIOUS
<1>2. ASSUME a <= b PROVE a * n <= b * n
  <2>1. PICK d \in Nat : b = a + d
    <3>1. b - a \in Nat /\ b = a + (b - a)
      BY <1>2
    <3>. QED  BY <3>1
  <2>2. d * n \in Nat
    OBVIOUS
  <2>3. b * n = a * n + d * n
    BY <2>1
  <2>. QED  BY <1>1, <2>2, <2>3
<1>3. 0 * n = 0 /\ 1 * n = n
  OBVIOUS
<1>. QED  BY <1>1, <1>2, <1>3

\* The candidates before a fill are a number.
LEMMA PrecedingType ==
  ASSUME NEW g \in Int, NEW c \in Chunks
  PROVE  Preceding(g, c) \in Int
<1>1. NChunks \in Nat /\ NSlots \in Nat /\ c \in Int /\ g - 1 \in Int
  BY ConstantsAssumption DEF Chunks
<1>2. (g - 1) * NChunks \in Int
  BY <1>1, Products
<1>3. (g - 1) * NChunks + c \in Int
  BY <1>1, <1>2
<1>. QED  BY <1>1, <1>3, Products DEF Preceding

\* Nothing comes before the first fill.
LEMMA PrecedingFirst == Preceding(1, 0) = 0
<1>1. NChunks \in Nat /\ NSlots \in Nat
  BY ConstantsAssumption
<1>2. (1 - 1) * NChunks + 0 = 0
  BY <1>1, Products
<1>. QED  BY <1>1, <1>2, Products DEF Preceding

\* The next fill starts where a full one ends, across the end of the ring too.
LEMMA PrecedingNext ==
  ASSUME NEW g \in Int, NEW c \in Chunks
  PROVE  Preceding(NextGen(g, c), NextIdx(c)) = Preceding(g, c) + NSlots
<1>. DEFINE a == (g - 1) * NChunks
            b == (NextGen(g, c) - 1) * NChunks
<1>1. NChunks \in Nat /\ NSlots \in Nat /\ c \in Int /\ g - 1 \in Int
  BY ConstantsAssumption DEF Chunks
<1>2. a \in Int /\ (g - 1 + 1) * NChunks = a + NChunks /\ g + 1 - 1 = g - 1 + 1
  <2>1. a \in Int
    BY <1>1, Products
  <2>2. (g - 1 + 1) * NChunks = a + 1 * NChunks
    BY <1>1, Products
  <2>3. 1 * NChunks = NChunks
    BY <1>1, Products
  <2>. QED  BY <2>1, <2>2, <2>3
<1>3. b + NextIdx(c) = (a + c) + 1
  <2>1. CASE c + 1 = NChunks
    <3>1. b = (g - 1 + 1) * NChunks /\ NextIdx(c) = 0
      BY <1>2, <2>1 DEF NextGen, NextIdx
    <3>. HIDE DEF a, b
    <3>. QED  BY <1>1, <1>2, <2>1, <3>1
  <2>2. CASE c + 1 # NChunks
    <3>1. b = a /\ NextIdx(c) = c + 1
      BY <2>2 DEF NextGen, NextIdx
    <3>. HIDE DEF a, b
    <3>. QED  BY <1>1, <1>2, <2>2, <3>1
  <2>. QED  BY <2>1, <2>2
<1>4. a + c \in Int
  <2>. HIDE DEF a
  <2>. QED  BY <1>1, <1>2
<1>5. ((a + c) + 1) * NSlots = (a + c) * NSlots + NSlots
  <2>. HIDE DEF a
  <2>1. ((a + c) + 1) * NSlots = (a + c) * NSlots + 1 * NSlots
    BY <1>1, <1>4, Products
  <2>2. 1 * NSlots = NSlots
    BY <1>1, Products
  <2>. QED  BY <2>1, <2>2
<1>6. /\ Preceding(g, c) = (a + c) * NSlots
      /\ Preceding(NextGen(g, c), NextIdx(c)) = (b + NextIdx(c)) * NSlots
  BY DEF Preceding
<1>. HIDE DEF a, b
<1>. QED  BY <1>3, <1>5, <1>6

\* A fill ends before any later one starts.
LEMMA PrecedingGrows ==
  ASSUME NEW g \in Int, NEW c \in Chunks, NEW h \in Int, NEW d \in Chunks,
         g < h \/ (g = h /\ c < d)
  PROVE  Preceding(g, c) + NSlots <= Preceding(h, d)
<1>. DEFINE a == (g - 1) * NChunks
            b == (h - 1) * NChunks
<1>1. /\ NChunks \in Nat /\ NSlots \in Nat /\ c \in 0 .. NChunks - 1 /\ d \in 0 .. NChunks - 1
      /\ g - 1 \in Int /\ h - 1 \in Int /\ a \in Int /\ b \in Int
  <2>1. NChunks \in Nat /\ NSlots \in Nat /\ c \in 0 .. NChunks - 1 /\ d \in 0 .. NChunks - 1
        /\ g - 1 \in Int /\ h - 1 \in Int
    BY ConstantsAssumption DEF Chunks
  <2>. QED  BY <2>1, Products
<1>2. (a + c) + 1 <= b + d
  <2>1. CASE g < h
    <3>1. g - 1 + 1 <= h - 1 /\ g - 1 + 1 \in Int
      BY <2>1
    <3>2. (g - 1 + 1) * NChunks <= b
      BY <1>1, <3>1, Products
    <3>3. (g - 1 + 1) * NChunks = a + 1 * NChunks
      BY <1>1, Products
    <3>4. 1 * NChunks = NChunks
      BY <1>1, Products
    <3>5. a + NChunks <= b
      <4>. HIDE DEF a, b
      <4>. QED  BY <3>2, <3>3, <3>4
    <3>. HIDE DEF a, b
    <3>. QED  BY <1>1, <3>5
  <2>2. CASE g = h /\ c < d
    <3>1. a = b
      BY <2>2
    <3>. HIDE DEF a, b
    <3>. QED  BY <1>1, <2>2, <3>1
  <2>. QED  BY <2>1, <2>2
<1>3. a + c \in Int /\ b + d \in Int
  <2>. HIDE DEF a, b
  <2>. QED  BY <1>1
<1>4. ((a + c) + 1) * NSlots <= (b + d) * NSlots
  <2>. HIDE DEF a, b
  <2>1. (a + c) + 1 \in Int
    BY <1>3
  <2>. QED  BY <1>1, <1>2, <1>3, <2>1, Products
<1>5. ((a + c) + 1) * NSlots = (a + c) * NSlots + NSlots
  <2>. HIDE DEF a, b
  <2>1. ((a + c) + 1) * NSlots = (a + c) * NSlots + 1 * NSlots
    BY <1>1, <1>3, Products
  <2>2. 1 * NSlots = NSlots
    BY <1>1, Products
  <2>. QED  BY <2>1, <2>2
<1>6. Preceding(g, c) = (a + c) * NSlots /\ Preceding(h, d) = (b + d) * NSlots
  BY DEF Preceding
<1>. HIDE DEF a, b
<1>. QED  BY <1>4, <1>5, <1>6

(***************************************************************************)
(* Order: the initial state, and steps that touch no input                 *)
(***************************************************************************)

\* The record is empty and in order at the start.
LEMMA InitOrder == Init => OrderInv
<1>. SUFFICES ASSUME Init PROVE OrderInv
  OBVIOUS
<1>1. 0 \in Chunks /\ NChunks \in Nat \ {0}
  BY ConstantsAssumption DEF Chunks
<1>2. CohortsInOrder
  BY DEF Init, CohortsInOrder
<1>3. ContentInv
  BY DEF Init, ContentInv, FillOf, Refilling
<1>4. SuppliedInv
  BY PrecedingFirst DEF Init, SuppliedInv, Refilling
<1>5. ReportedInv
  BY DEF Init, ReportedInv, Reported
<1>. QED  BY <1>2, <1>3, <1>4, <1>5 DEF OrderInv

\* What the chunks hold does not depend on where main is outside its refilling.
LEMMA SameContent ==
  ASSUME ContentInv, SuppliedInv, Refilling' <=> Refilling,
         UNCHANGED <<generation, input_count, inputs, gen, idx, exit_idx, supplied>>
  PROVE  ContentInv' /\ SuppliedInv'
<1>1. \A c \in Chunks : FillOf(c)' = FillOf(c)
  BY DEF FillOf
<1>2. ContentInv'
  BY <1>1 DEF ContentInv, Preceding
<1>3. SuppliedInv'
  <2>1. FillOf(exit_idx)' = FillOf(exit_idx)
    BY DEF FillOf
  <2>. QED  BY <2>1 DEF SuppliedInv, Preceding
<1>. QED  BY <1>2, <1>3

\* No step of a worker or of the signal handler has to do with the order.
LEMMA OrderKept ==
  ASSUME OrderInv, mpc # "killed", mpc' = mpc \/ mpc' = "killed",
         UNCHANGED <<generation, input_count, inputs, gen, idx, exit_idx, supplied, i, out>>
  PROVE  OrderInv'
<1>1. CohortsInOrder'
  BY DEF OrderInv, CohortsInOrder
<1>2. CASE mpc' = mpc
  <2>1. ContentInv' /\ SuppliedInv'
    BY <1>2, SameContent DEF OrderInv, Refilling
  <2>2. ReportedInv'
    BY <1>2 DEF OrderInv, ReportedInv, Reported, Preceding
  <2>. QED  BY <1>1, <2>1, <2>2 DEF OrderInv
<1>. QED  BY <1>1, <1>2 DEF OrderInv

\* Before main refills its chunk, it holds the fill of a generation ago.
LEMMA FillOfIdx ==
  ASSUME TypeOK, MainInv, SuppliedInv, ~Refilling
  PROVE  FillOf(idx) = gen - 1 /\ generation[idx] = gen - 1
<1>1. idx \in Chunks /\ idx \in Int /\ gen \in Int /\ generation \in [Chunks -> Nat]
  BY DEF TypeOK, MainTypes, ChunkTypes, Chunks
<1>2. CASE exit_idx = NoExit
  BY <1>1, <1>2 DEF MainInv, Filling, FillOf
<1>3. CASE exit_idx # NoExit
  <2>1. exit_idx \in Chunks
    BY <1>3 DEF TypeOK, MainTypes
  <2>. QED  BY <1>1, <1>3, <2>1 DEF SuppliedInv, FillOf
<1>. QED  BY <1>2, <1>3

(***************************************************************************)
(* Order: the steps of main                                                *)
(***************************************************************************)

\* Outside thread mode's kill every part of both invariants is at hand.
LEMMA OrderParts ==
  ASSUME RingInv, OrderInv, mpc # "killed"
  PROVE  /\ TypeOK /\ MainInv /\ RecycledInv /\ CohortsInOrder
         /\ ContentInv /\ SuppliedInv /\ ReportedInv
         /\ idx \in Chunks /\ gen \in Nat \ {0} /\ i \in Nat /\ supplied \in Nat
         /\ input_count[idx] \in 0 .. NSlots /\ NSlots \in Nat /\ Reported \in Int
<1>1. TypeOK /\ idx \in Chunks /\ gen \in Nat \ {0} /\ i \in Nat /\ supplied \in Nat
  BY DEF RingInv, TypeOK, MainTypes
<1>2. input_count[idx] \in 0 .. NSlots /\ NSlots \in Nat
  BY <1>1, ConstantsAssumption DEF TypeOK, ChunkTypes
<1>3. Reported \in Int
  <2>1. gen - 1 \in Int
    BY <1>1
  <2>. QED  BY <1>1, <2>1, PrecedingType DEF Reported
<1>. QED  BY <1>1, <1>2, <1>3 DEF RingInv, OrderInv

\* Main starts to look at a chunk.
LEMMA WaitForWorkersOrder ==
  ASSUME RingInv, OrderInv, WaitForWorkers
  PROVE  OrderInv'
<1>1. /\ mpc = "wait" /\ mpc' \in {"process", "restart"} /\ i' = 0
      /\ UNCHANGED <<generation, input_count, inputs, gen, idx, exit_idx, supplied, out>>
  BY DEF WaitForWorkers, chunkVars, histVars
<1>2. ContentInv' /\ SuppliedInv'
  BY <1>1, OrderParts, SameContent DEF Refilling
<1>3. ReportedInv'
  BY <1>1, OrderParts DEF ReportedInv, Reported, Preceding
<1>4. CohortsInOrder'
  BY <1>1, OrderParts DEF CohortsInOrder
<1>. QED  BY <1>2, <1>3, <1>4 DEF OrderInv

LEMMA RestartWorkerOrder ==
  ASSUME RingInv, OrderInv, RestartWorker
  PROVE  OrderInv'
<1>1. /\ mpc = "restart" /\ mpc' = "restart"
      /\ UNCHANGED <<generation, input_count, inputs, gen, idx, exit_idx, supplied, out>>
  BY DEF RestartWorker, histVars
<1>2. ContentInv' /\ SuppliedInv'
  BY <1>1, OrderParts, SameContent DEF Refilling
<1>3. ReportedInv'
  BY <1>1, OrderParts DEF ReportedInv, Reported, Preceding
<1>4. CohortsInOrder'
  BY <1>1, OrderParts DEF CohortsInOrder
<1>. QED  BY <1>2, <1>3, <1>4 DEF OrderInv

LEMMA EndRestartsOrder ==
  ASSUME RingInv, OrderInv, EndRestarts
  PROVE  OrderInv'
<1>1. /\ mpc = "restart" /\ mpc' \in {"wait", "process"} /\ i' = 0
      /\ UNCHANGED <<generation, input_count, inputs, gen, idx, exit_idx, supplied, out>>
  BY DEF EndRestarts, AfterRestarts, chunkVars, histVars
<1>2. ContentInv' /\ SuppliedInv'
  BY <1>1, OrderParts, SameContent DEF Refilling
<1>3. ReportedInv'
  BY <1>1, OrderParts DEF ReportedInv, Reported, Preceding
<1>4. CohortsInOrder'
  BY <1>1, OrderParts DEF CohortsInOrder
<1>. QED  BY <1>2, <1>3, <1>4 DEF OrderInv

\* The cohort main writes next is that of the candidate after the last one.
LEMMA NextReported ==
  ASSUME RingInv, OrderInv, mpc = "process", Reportable
  PROVE  /\ i \in Slots /\ FillOf(idx) = gen - 1 /\ generation[idx] = gen - 1 /\ gen - 1 > 0
         /\ inputs[idx][i] = Len(out) + 1
         /\ Len(out) = Preceding(gen - 1, idx) + i
<1>1. mpc # "killed" /\ ~Refilling
  BY DEF Refilling
<1>2. gen > 1 /\ i < input_count[idx] /\ i \in Slots
  BY <1>1, OrderParts DEF Reportable, Slots
<1>3. FillOf(idx) = gen - 1 /\ generation[idx] = gen - 1 /\ gen - 1 > 0 /\ gen # 1
  BY <1>1, <1>2, OrderParts, FillOfIdx
<1>4. inputs[idx][i] = Preceding(gen - 1, idx) + i + 1
  BY <1>1, <1>2, <1>3, OrderParts DEF ContentInv
<1>5. Len(out) = Preceding(gen - 1, idx) + i
  BY <1>1, <1>3, OrderParts DEF ReportedInv, Reported
<1>. QED  BY <1>2, <1>3, <1>4, <1>5

\* Main writes one cohort: the next one.
LEMMA ProcessSlotOrder ==
  ASSUME RingInv, OrderInv, ProcessSlot
  PROVE  OrderInv'
<1>. DEFINE cohort == [input |-> inputs[idx][i], outs |-> [w \in Workers |-> outputs[w][idx][i]]]
<1>1. /\ mpc = "process" /\ mpc' = "process" /\ i' = i + 1 /\ Reportable
      /\ out' = Append(out, cohort)
      /\ UNCHANGED <<generation, input_count, inputs, gen, idx, exit_idx, supplied>>
  BY DEF ProcessSlot, chunkVars
<1>2. ContentInv' /\ SuppliedInv'
  BY <1>1, OrderParts, SameContent DEF Refilling
<1>3. out \in Seq([input : Nat, outs : [Workers -> OutputSlots]])
  BY <1>1, OrderParts DEF TypeOK, HistTypes
<1>4. cohort.input = Len(out) + 1
  BY <1>1, NextReported
<1>. HIDE DEF cohort
<1>5. /\ Len(out') = Len(out) + 1 /\ Len(out) \in Nat /\ out'[Len(out) + 1] = cohort
      /\ \A k \in 1 .. Len(out) : out'[k] = out[k]
  BY <1>1, <1>3
<1>6. CohortsInOrder'
  <2>. SUFFICES ASSUME NEW k \in 1 .. Len(out) + 1 PROVE out'[k].input = k
    BY <1>5 DEF CohortsInOrder
  <2>1. CASE k = Len(out) + 1
    BY <1>4, <1>5, <2>1
  <2>2. CASE k # Len(out) + 1
    <3>1. k \in 1 .. Len(out)
      BY <1>5, <2>2
    <3>. QED  BY <1>1, <1>5, <3>1, OrderParts DEF CohortsInOrder
  <2>. QED  BY <2>1, <2>2
<1>7. ReportedInv'
  <2>1. gen > 1 /\ i < input_count[idx]
    BY <1>1 DEF Reportable
  <2>2. Reported' = Reported
    BY <1>1 DEF Reported, Preceding
  <2>3. Len(out) = Reported + i
    BY <1>1, OrderParts DEF ReportedInv
  <2>4. mpc # "killed"
    BY <1>1
  <2>. QED  BY <1>1, <1>5, <2>1, <2>2, <2>3, <2>4, OrderParts DEF ReportedInv
<1>. QED  BY <1>2, <1>6, <1>7 DEF OrderInv

\* Going on to the next chunk counts the reported fill in.
LEMMA ReportedAdvances ==
  ASSUME gen \in Nat \ {0}, idx \in Chunks, AdvanceIdx
  PROVE  Reported' = IF gen = 1 THEN 0 ELSE Reported + NSlots
<1>1. idx' = NextIdx(idx) /\ gen' = NextGen(gen, idx)
  BY DEF AdvanceIdx
<1>2. NChunks \in Nat \ {0} /\ Chunks = 0 .. NChunks - 1
  BY ConstantsAssumption DEF Chunks
<1>3. CASE gen = 1
  <2>1. CASE idx + 1 = NChunks
    <3>1. gen' = 2 /\ idx' = 0
      BY <1>1, <1>3, <2>1 DEF NextIdx, NextGen
    <3>. QED  BY <1>3, <3>1, PrecedingFirst DEF Reported, Preceding
  <2>2. CASE idx + 1 # NChunks
    BY <1>1, <1>3, <2>2 DEF NextGen, Reported
  <2>. QED  BY <2>1, <2>2
<1>4. CASE gen # 1
  <2>1. gen - 1 \in Int /\ NextGen(gen, idx) - 1 = NextGen(gen - 1, idx) /\ gen' # 1
    BY <1>1, <1>4 DEF NextGen
  <2>2. Reported = Preceding(gen - 1, idx)
    BY <1>4 DEF Reported
  <2>3. Reported' = Preceding(NextGen(gen - 1, idx), NextIdx(idx))
    BY <1>1, <2>1 DEF Reported, Preceding
  <2>. QED  BY <1>4, <2>1, <2>2, <2>3, PrecedingNext
<1>. QED  BY <1>3, <1>4

\* Main is through with a chunk: all its candidates were written.
LEMMA EndProcessOrder ==
  ASSUME RingInv, OrderInv, EndProcess
  PROVE  OrderInv'
<1>1. /\ mpc = "process" /\ ~Reportable
      /\ UNCHANGED <<generation, input_count, inputs, exit_idx, supplied, i, out>>
  BY DEF EndProcess, chunkVars, histVars
<1>2. ~Refilling /\ mpc # "killed" /\ Len(out) = Reported + i
  BY <1>1, OrderParts DEF Refilling, ReportedInv
<1>3. CohortsInOrder'
  BY <1>1, <1>2, OrderParts DEF CohortsInOrder
\* Everything of the chunk is written.
<1>4. /\ gen = 1 => i = 0 /\ Len(out) = 0
      /\ gen # 1 => i = input_count[idx] /\ Len(out) = Preceding(gen - 1, idx) + i
                    /\ FillOf(idx) > 0 /\ FillOf(idx) = gen - 1
  <2>1. gen = 1 => i = 0 /\ Reported = 0
    BY <1>1, <1>2, OrderParts DEF ReportedInv, Reported
  <2>2. gen # 1 => i = input_count[idx] /\ Reported = Preceding(gen - 1, idx)
    BY <1>1, <1>2, OrderParts DEF ReportedInv, Reported, Reportable
  <2>3. FillOf(idx) = gen - 1
    BY <1>2, OrderParts, FillOfIdx
  <2>. QED  BY <1>2, <2>1, <2>2, <2>3, OrderParts
\* It was a full chunk unless it is the last.
<1>5. idx # exit_idx => Len(out) = IF gen = 1 THEN 0 ELSE Reported + NSlots
  <2>1. idx # exit_idx /\ gen # 1 => input_count[idx] = NSlots
    BY <1>2, <1>4, OrderParts DEF ContentInv
  <2>. QED  BY <1>2, <1>4, <2>1
<1>6. CASE AtExit /\ mpc' \in {"join", "done"} /\ UNCHANGED <<gen, idx>>
  <2>1. ContentInv' /\ SuppliedInv'
    BY <1>1, <1>2, <1>6, OrderParts, SameContent DEF Refilling
  <2>2. exit_idx = idx /\ exit_idx # NoExit
    BY <1>2, <1>6, OrderParts, ConstantsAssumption DEF AtExit, NoExit, Chunks
  <2>3. Len(out) = TotalInputs
    <3>1. FillOf(idx) > 0 /\ TotalInputs = Preceding(FillOf(idx), idx) + input_count[idx]
      BY <1>2, <2>2, OrderParts DEF SuppliedInv
    <3>2. FillOf(idx) = gen - 1
      BY <1>2, OrderParts, FillOfIdx
    <3>3. gen # 1
      BY <3>1, <3>2
    <3>. QED  BY <1>4, <3>1, <3>2, <3>3
  <2>4. ReportedInv'
    BY <1>1, <1>6, <2>3 DEF ReportedInv
  <2>. QED  BY <1>3, <2>1, <2>4 DEF OrderInv
<1>7. CASE ~AtExit /\ exit_idx = NoExit /\ mpc' = "fill" /\ UNCHANGED <<gen, idx>>
  <2>1. ContentInv' /\ SuppliedInv'
    BY <1>1, <1>2, <1>7, OrderParts, SameContent DEF Refilling
  <2>2. ReportedInv'
    <3>1. Reported' = Reported
      BY <1>7 DEF Reported, Preceding
    <3>. QED  BY <1>1, <1>5, <1>7, <3>1 DEF ReportedInv, AtExit
  <2>. QED  BY <1>3, <2>1, <2>2 DEF OrderInv
<1>8. CASE ~AtExit /\ exit_idx # NoExit /\ mpc' = "wait" /\ AdvanceIdx
  <2>1. /\ exit_idx \in Chunks /\ idx # exit_idx /\ Chunks = 0 .. NChunks - 1 /\ NChunks \in Nat
        /\ ~Refilling'
    BY <1>2, <1>8, OrderParts, ConstantsAssumption DEF AtExit, TypeOK, MainTypes, Chunks, Refilling
  <2>2. ContentInv'
    <3>1. \A c \in Chunks : FillOf(c)' = FillOf(c)
      BY <1>1, <1>2, <2>1 DEF FillOf
    <3>. QED  BY <1>1, <1>2, <3>1, OrderParts DEF ContentInv, Preceding
  <2>3. SuppliedInv'
    <3>1. FillOf(exit_idx)' = FillOf(exit_idx)
      BY <1>1, <1>2, <2>1 DEF FillOf
    <3>2. gen' = generation[exit_idx] + IF idx' <= exit_idx THEN 1 ELSE 0
      <4>1. gen = generation[exit_idx] + IF idx <= exit_idx THEN 1 ELSE 0
        BY <1>2, <1>8, OrderParts DEF SuppliedInv
      <4>2. generation[exit_idx] \in Nat
        BY <1>2, <2>1, OrderParts DEF TypeOK, ChunkTypes
      <4>3. CASE idx + 1 = NChunks
        <5>1. gen' = gen + 1 /\ idx' = 0
          BY <1>8, <4>3 DEF AdvanceIdx, NextIdx, NextGen
        <5>2. idx \in Chunks
          BY <1>2, OrderParts
        <5>. QED  BY <2>1, <4>1, <4>2, <4>3, <5>1, <5>2
      <4>4. CASE idx + 1 # NChunks
        <5>1. gen' = gen /\ idx' = idx + 1
          BY <1>8, <4>4 DEF AdvanceIdx, NextIdx, NextGen
        <5>2. idx \in Chunks
          BY <1>2, OrderParts
        <5>. QED  BY <2>1, <4>1, <4>2, <4>4, <5>1, <5>2
      <4>. QED  BY <4>3, <4>4
    <3>. QED  BY <1>1, <1>2, <1>8, <2>1, <3>1, <3>2, OrderParts DEF SuppliedInv, Preceding
  <2>4. ReportedInv'
    <3>1. Reported' = IF gen = 1 THEN 0 ELSE Reported + NSlots
      BY <1>2, <1>8, OrderParts, ReportedAdvances
    <3>. QED  BY <1>1, <1>5, <1>8, <2>1, <3>1 DEF ReportedInv
  <2>. QED  BY <1>3, <2>2, <2>3, <2>4 DEF OrderInv
<1>9. \/ AtExit /\ mpc' \in {"join", "done"} /\ UNCHANGED <<gen, idx>>
      \/ ~AtExit /\ exit_idx = NoExit /\ mpc' = "fill" /\ UNCHANGED <<gen, idx>>
      \/ ~AtExit /\ exit_idx # NoExit /\ mpc' = "wait" /\ AdvanceIdx
  BY DEF EndProcess
<1>. QED  BY <1>6, <1>7, <1>8, <1>9

\* Main fills a chunk with the candidates after those of the chunk before.
LEMMA FillOrder ==
  ASSUME RingInv, OrderInv, Fill
  PROVE  OrderInv'
<1>1. /\ mpc = "fill" /\ mpc' = "arm"
      /\ inputs' = [inputs EXCEPT ![idx] =
                      [s \in Slots |-> IF s < FillCount THEN supplied + s + 1 ELSE @[s]]]
      /\ input_count' = [input_count EXCEPT ![idx] = FillCount]
      /\ supplied' = supplied + FillCount
      /\ exit_idx' = IF FillCount < NSlots THEN idx ELSE exit_idx
      /\ UNCHANGED <<generation, gen, idx, i, out>>
  BY DEF Fill, NewCount, histVars
<1>2. /\ ~Refilling /\ Refilling' /\ mpc # "killed" /\ exit_idx = NoExit
      /\ supplied = Preceding(gen, idx) /\ supplied <= TotalInputs
  <2>1. ~Refilling /\ Refilling' /\ mpc # "killed"
    BY <1>1 DEF Refilling
  <2>2. exit_idx = NoExit /\ supplied <= TotalInputs
    BY <1>1, <2>1, OrderParts DEF MainInv
  <2>3. supplied = Preceding(gen, idx) + 0 /\ supplied \in Nat
    BY <2>1, <2>2, OrderParts DEF SuppliedInv
  <2>4. Preceding(gen, idx) \in Int
    BY <2>1, OrderParts, PrecedingType
  <2>. QED  BY <2>1, <2>2, <2>3, <2>4
<1>3. FillCount \in 0 .. NSlots /\ (FillCount < NSlots => supplied' = TotalInputs)
  <2>1. FillCount \in 0 .. NSlots
    BY <1>2, OrderParts, FillCountBound
  <2>. QED  BY <1>1, <1>2, <2>1, OrderParts, ConstantsAssumption DEF FillCount
<1>. HIDE DEF FillCount
<1>4. /\ gen > 0 /\ idx \in Chunks /\ idx # NoExit
      /\ \A c \in Chunks : FillOf(c)' = IF c = idx THEN gen ELSE FillOf(c)
  <2>1. \A c \in Chunks : FillOf(c)' = IF c = idx THEN gen ELSE FillOf(c)
    BY <1>1, <1>2 DEF FillOf
  <2>. QED  BY <1>2, <2>1, OrderParts, ConstantsAssumption DEF NoExit, Chunks
<1>5. /\ input_count'[idx] = FillCount
      /\ inputs'[idx] = [s \in Slots |-> IF s < FillCount THEN supplied + s + 1 ELSE inputs[idx][s]]
      /\ \A c \in Chunks : c # idx => input_count'[c] = input_count[c] /\ inputs'[c] = inputs[c]
  BY <1>1, <1>2, <1>4, OrderParts DEF TypeOK, ChunkTypes
<1>6. ContentInv'
  <2>. SUFFICES ASSUME NEW c \in Chunks
                PROVE  /\ FillOf(c)' = 0 => input_count'[c] = 0
                       /\ FillOf(c)' > 0 =>
                            /\ \A s \in Slots : s < input_count'[c] =>
                                 inputs'[c][s] = Preceding(FillOf(c)', c) + s + 1
                            /\ c # exit_idx' => input_count'[c] = NSlots
    BY DEF ContentInv, Preceding
  <2>1. CASE c = idx
    <3>1. \A s \in Slots : s < FillCount => inputs'[idx][s] = Preceding(gen, idx) + s + 1
      BY <1>2, <1>5
    <3>2. idx # exit_idx' => FillCount = NSlots
      BY <1>1, <1>3, OrderParts, <1>2
    <3>. QED  BY <1>4, <1>5, <2>1, <3>1, <3>2
  <2>2. CASE c # idx
    <3>1. c # exit_idx
      BY <1>2, ConstantsAssumption DEF NoExit, Chunks
    <3>2. FillOf(c)' = FillOf(c) /\ input_count'[c] = input_count[c] /\ inputs'[c] = inputs[c]
      BY <1>4, <1>5, <2>2
    <3>. QED  BY <1>2, <3>1, <3>2, OrderParts DEF ContentInv
  <2>. QED  BY <2>1, <2>2
<1>7. SuppliedInv'
  <2>1. Preceding(gen, idx)' = Preceding(gen, idx)
    BY <1>1 DEF Preceding
  <2>2. CASE FillCount = NSlots
    <3>1. exit_idx' = NoExit /\ supplied' = Preceding(gen, idx) + NSlots
      BY <1>1, <1>2, <2>2, OrderParts
    <3>. QED  BY <1>2, <2>1, <3>1 DEF SuppliedInv, NoExit
  <2>3. CASE FillCount # NSlots
    <3>1. exit_idx' = idx /\ supplied' = Preceding(gen, idx) + FillCount /\ supplied' = TotalInputs
      BY <1>1, <1>2, <1>3, <2>3, OrderParts
    <3>2. exit_idx' # NoExit' /\ FillOf(exit_idx)' = gen /\ input_count'[exit_idx'] = FillCount
      BY <1>1, <1>2, <1>4, <1>5, <3>1 DEF FillOf, NoExit
    <3>3. Preceding(FillOf(exit_idx), exit_idx)' = Preceding(gen, idx)
      BY <3>1, <3>2 DEF Preceding
    <3>. QED  BY <1>1, <1>2, <1>4, <3>1, <3>2, <3>3 DEF SuppliedInv
  <2>. QED  BY <2>2, <2>3
<1>8. ReportedInv'
  BY <1>1, OrderParts DEF ReportedInv, Reported, Preceding
<1>9. CohortsInOrder'
  BY <1>1, OrderParts DEF CohortsInOrder
<1>. QED  BY <1>6, <1>7, <1>8, <1>9 DEF OrderInv

LEMMA ArmOrder ==
  ASSUME RingInv, OrderInv, Arm
  PROVE  OrderInv'
<1>1. /\ mpc = "arm" /\ mpc' = "publish"
      /\ UNCHANGED <<generation, input_count, inputs, gen, idx, exit_idx, supplied, i, out>>
  BY DEF Arm, histVars
<1>2. ContentInv' /\ SuppliedInv'
  BY <1>1, OrderParts, SameContent DEF Refilling
<1>3. ReportedInv'
  BY <1>1, OrderParts DEF ReportedInv, Reported, Preceding
<1>4. CohortsInOrder'
  BY <1>1, OrderParts DEF CohortsInOrder
<1>. QED  BY <1>2, <1>3, <1>4 DEF OrderInv

\* The fill becomes the chunk's, and main goes on.
LEMMA PublishOrder ==
  ASSUME RingInv, OrderInv, Publish
  PROVE  OrderInv'
<1>1. /\ mpc = "publish" /\ mpc' = "wait" /\ AdvanceIdx
      /\ generation' = [generation EXCEPT ![idx] = gen]
      /\ idx' = NextIdx(idx) /\ gen' = NextGen(gen, idx)
      /\ UNCHANGED <<input_count, inputs, exit_idx, supplied, i, out>>
  BY DEF Publish, AdvanceIdx, histVars
<1>2. /\ mpc # "killed" /\ Refilling /\ ~Refilling' /\ Filling
      /\ Chunks = 0 .. NChunks - 1 /\ NChunks \in Nat
  BY <1>1, ConstantsAssumption DEF Refilling, Filling, Chunks
<1>3. /\ \A c \in Chunks : generation[c] = IF c < idx THEN gen ELSE gen - 1
      /\ \A c \in Chunks : generation'[c] = IF c = idx THEN gen ELSE generation[c]
  BY <1>1, <1>2, OrderParts DEF MainInv, TypeOK, ChunkTypes
<1>4. \A c \in Chunks : FillOf(c)' = FillOf(c)
  BY <1>1, <1>2, <1>3 DEF FillOf
<1>5. ContentInv'
  BY <1>1, <1>2, <1>4, OrderParts DEF ContentInv, Preceding
<1>6. SuppliedInv'
  <2>1. CASE exit_idx = NoExit
    <3>1. supplied = Preceding(gen, idx) + NSlots
      BY <1>2, <2>1, OrderParts DEF SuppliedInv
    <3>2. supplied = Preceding(NextGen(gen, idx), NextIdx(idx))
      BY <1>2, <3>1, OrderParts, PrecedingNext
    <3>3. supplied' = Preceding(gen, idx)' /\ supplied' \in Nat
      BY <1>1, <1>2, <3>2, OrderParts DEF Preceding
    <3>. QED  BY <1>1, <1>2, <2>1, <3>3 DEF SuppliedInv, NoExit
  <2>2. CASE exit_idx # NoExit
    <3>1. /\ exit_idx = idx /\ supplied = TotalInputs /\ idx \in Chunks
          /\ FillOf(exit_idx) > 0
          /\ supplied = Preceding(FillOf(exit_idx), exit_idx) + input_count[exit_idx]
      BY <1>2, <2>2, OrderParts DEF SuppliedInv
    <3>2. FillOf(exit_idx)' = FillOf(exit_idx)
      BY <1>1, <1>2, <1>3, <3>1 DEF FillOf
    <3>3. gen' = gen + IF idx' <= idx THEN 1 ELSE 0
      <4>1. CASE idx + 1 = NChunks
        BY <1>1, <1>2, <3>1, <4>1 DEF NextIdx, NextGen
      <4>2. CASE idx + 1 # NChunks
        BY <1>1, <1>2, <3>1, <4>2, OrderParts DEF NextIdx, NextGen
      <4>. QED  BY <4>1, <4>2
    <3>4. generation'[exit_idx'] = gen /\ exit_idx' = idx
      BY <1>1, <1>3, <3>1
    <3>5. \A c \in Chunks : generation'[c] = gen - IF c <= idx THEN 0 ELSE 1
      <4>. SUFFICES ASSUME NEW c \in Chunks PROVE generation'[c] = gen - IF c <= idx THEN 0 ELSE 1
        OBVIOUS
      <4>1. c \in Int /\ idx \in Int /\ gen \in Int
        BY <1>2, <3>1, OrderParts
      <4>. QED  BY <1>3, <4>1
    <3>6. Preceding(FillOf(exit_idx), exit_idx)' = Preceding(FillOf(exit_idx), exit_idx)
      BY <1>1, <3>2 DEF Preceding
    <3>7. exit_idx' # NoExit' /\ supplied' = TotalInputs /\ FillOf(exit_idx)' > 0
          /\ supplied' = Preceding(FillOf(exit_idx), exit_idx)' + input_count'[exit_idx']
      BY <1>1, <2>2, <3>1, <3>2, <3>6 DEF NoExit
    <3>. QED  BY <1>2, <3>3, <3>4, <3>5, <3>7 DEF SuppliedInv
  <2>. QED  BY <2>1, <2>2
<1>7. ReportedInv'
  <2>1. Reported' = IF gen = 1 THEN 0 ELSE Reported + NSlots
    BY <1>1, <1>2, OrderParts, ReportedAdvances
  <2>. QED  BY <1>1, <1>2, <2>1, OrderParts DEF ReportedInv
<1>8. CohortsInOrder'
  BY <1>1, <1>2, OrderParts DEF CohortsInOrder
<1>. QED  BY <1>5, <1>6, <1>7, <1>8 DEF OrderInv

LEMMA JoinThreadsOrder ==
  ASSUME RingInv, OrderInv, JoinThreads
  PROVE  OrderInv'
<1>1. /\ mpc = "join" /\ mpc' = "done"
      /\ UNCHANGED <<generation, input_count, inputs, gen, idx, exit_idx, supplied, out>>
  BY DEF JoinThreads, chunkVars, histVars
<1>2. ContentInv' /\ SuppliedInv'
  BY <1>1, OrderParts, SameContent DEF Refilling
<1>3. ReportedInv'
  BY <1>1, OrderParts DEF ReportedInv
<1>4. CohortsInOrder'
  BY <1>1, OrderParts DEF CohortsInOrder
<1>. QED  BY <1>2, <1>3, <1>4 DEF OrderInv

\* Steps of the workers, of the handler and of a program that was killed.
LEMMA OthersOrder ==
  ASSUME RingInv, OrderInv,
         (\E w \in Workers : Worker(w)) \/ SigchldHandler \/ Terminated \/ UNCHANGED vars
  PROVE  OrderInv'
<1>1. /\ UNCHANGED <<generation, input_count, inputs, gen, idx, exit_idx, supplied, i, out>>
      /\ mpc' = mpc \/ mpc' = "killed"
  <2>1. ASSUME NEW w \in Workers, Worker(w)
        PROVE  /\ UNCHANGED <<generation, input_count, inputs, gen, idx, exit_idx, supplied, i, out>>
               /\ mpc' = mpc \/ mpc' = "killed"
    BY <2>1 DEF Worker, Load, BeginChunk, Decode, Crash, FinishChunk, CheckExit,
                chunkVars, mainVars, histVars
  <2>2. CASE SigchldHandler
    BY <2>2 DEF SigchldHandler, mainVars, histVars
  <2>3. CASE Terminated \/ UNCHANGED vars
    BY <2>3 DEF Terminated, vars, chunkVars, mainVars, histVars
  <2>. QED  BY <2>1, <2>2, <2>3
<1>2. CASE mpc = "killed"
  BY <1>1, <1>2 DEF OrderInv, CohortsInOrder
<1>3. CASE mpc # "killed"
  BY <1>1, <1>3, OrderKept
<1>. QED  BY <1>2, <1>3

\* Every step keeps the order.
LEMMA OrderStep ==
  ASSUME RingInv, OrderInv, [Next]_vars
  PROVE  OrderInv'
<1>1. CASE Main
  <2>1. CASE WaitForWorkers \/ RestartWorker \/ EndRestarts
    BY <2>1, WaitForWorkersOrder, RestartWorkerOrder, EndRestartsOrder
  <2>2. CASE ProcessSlot \/ EndProcess \/ Fill
    BY <2>2, ProcessSlotOrder, EndProcessOrder, FillOrder
  <2>3. CASE Arm \/ Publish \/ JoinThreads
    BY <2>3, ArmOrder, PublishOrder, JoinThreadsOrder
  <2>. QED  BY <1>1, <2>1, <2>2, <2>3 DEF Main
<1>2. CASE (\E w \in Workers : Worker(w)) \/ SigchldHandler \/ Terminated \/ UNCHANGED vars
  BY <1>2, OthersOrder
<1>. QED  BY <1>1, <1>2 DEF Next

\* The fills of the ring hold consecutive candidates and are reported one by one.
THEOREM OrderInvariant == Spec => []OrderInv
<1>1. ASSUME RingInv, OrderInv, [Next]_vars PROVE OrderInv'
  BY <1>1, OrderStep
<1>. QED  BY InitOrder, RingInvariant, <1>1, PTL DEF Spec

\* Cohorts are written in the order of their inputs, none twice and none left
\* out, however often the ring is reused and whichever decoders crash.
THEOREM CohortsOrdered == Spec => []CohortsInOrder
<1>1. OrderInv => CohortsInOrder
  BY DEF OrderInv
<1>. QED  BY OrderInvariant, <1>1, PTL

\* A campaign that ends has written all it was given.
THEOREM OutputComplete == Spec => []CompleteOutput
<1>1. OrderInv => CompleteOutput
  BY DEF OrderInv, ReportedInv, CompleteOutput
<1>. QED  BY OrderInvariant, <1>1, PTL

\* Main refills only a chunk whose cohorts are all written.
THEOREM NothingOverwritten == Spec => NoUnreportedOverwrite
<1>. DEFINE Step == \A c \in Chunks : inputs'[c] # inputs[c] =>
                      \A s \in 0 .. input_count[c] - 1 : inputs[c][s] <= Len(out)
<1>1. ASSUME RingInv, OrderInv, [Next]_vars
      PROVE  Step
  <2>1. CASE Fill
    <3>1. mpc = "fill" /\ mpc # "killed" /\ ~Refilling /\ exit_idx = NoExit
      <4>1. mpc = "fill" /\ mpc # "killed"
        BY <2>1 DEF Fill
      <4>. QED  BY <1>1, <4>1, OrderParts DEF Refilling, MainInv
    <3>2. \A c \in Chunks : c # idx => inputs'[c] = inputs[c]
      BY <1>1, <2>1, <3>1, OrderParts DEF Fill, TypeOK, ChunkTypes
    <3>3. ASSUME NEW s \in 0 .. input_count[idx] - 1
          PROVE  inputs[idx][s] <= Len(out)
      <4>1. FillOf(idx) = gen - 1 /\ gen \in Nat \ {0} /\ input_count[idx] \in 0 .. NSlots
            /\ NSlots \in Nat /\ idx \in Chunks
        BY <1>1, <3>1, OrderParts, FillOfIdx
      <4>2. FillOf(idx) # 0 /\ FillOf(idx) > 0 /\ gen # 1
        BY <1>1, <3>1, <3>3, <4>1, OrderParts DEF ContentInv
      <4>3. s \in Slots /\ s < input_count[idx]
        BY <4>1 DEF Slots
      <4>4. inputs[idx][s] = Preceding(gen - 1, idx) + s + 1
        BY <1>1, <3>1, <4>1, <4>2, <4>3, OrderParts DEF ContentInv
      <4>5. Len(out) = Reported + NSlots /\ Reported = Preceding(gen - 1, idx)
        BY <1>1, <3>1, <4>2, OrderParts DEF ReportedInv, Reported
      <4>6. Preceding(gen - 1, idx) \in Int
        BY <4>1, PrecedingType
      <4>. QED  BY <4>1, <4>4, <4>5, <4>6
    <3>. QED  BY <3>2, <3>3
  <2>2. CASE \/ (\E w \in Workers : Worker(w)) \/ SigchldHandler \/ Terminated \/ UNCHANGED vars
             \/ (Main /\ ~Fill)
    <3>1. inputs' = inputs
      BY <2>2 DEF Worker, Load, BeginChunk, Decode, Crash, FinishChunk, CheckExit, SigchldHandler,
         Main, WaitForWorkers, RestartWorker, EndRestarts, ProcessSlot, EndProcess, Arm, Publish,
         JoinThreads, Terminated, vars, chunkVars
    <3>. QED  BY <3>1
  <2>. QED  BY <1>1, <2>1, <2>2 DEF Next, Main
<1>2. Spec => [][Step]_vars
  BY RingInvariant, OrderInvariant, <1>1, PTL DEF Spec
<1>. QED  BY <1>2 DEF NoUnreportedOverwrite

(***************************************************************************)
(* Verdicts                                                                *)
(***************************************************************************)

\* No verdict is due at the start.
LEMMA InitVerdicts == Init => VerdictInv
<1>. SUFFICES ASSUME Init PROVE VerdictInv
  OBVIOUS
<1>1. VerdictsMatchInput
  BY DEF Init, VerdictsMatchInput
<1>2. ASSUME NEW w \in Workers PROVE WorkerVerdicts(w)
  <2>1. 0 \in Chunks
    BY ConstantsAssumption DEF Chunks
  <2>2. VerdictsKept(w) /\ DeathNoted(w) /\ NoCrashAhead(w)
    BY <2>1 DEF Init, VerdictsKept, DeathNoted, NoCrashAhead
  <2>3. NotOvertaken(w)
    BY PrecedingFirst DEF Init, NotOvertaken
  <2>. QED  BY <2>2, <2>3 DEF WorkerVerdicts
<1>. QED  BY <1>1, <1>2 DEF VerdictInv, WorkerVerdicts

\* What is known of a worker before any step.
LEMMA VerdictParts ==
  ASSUME RingInv, OrderInv, VerdictInv, mpc # "killed", NEW w \in Workers
  PROVE  /\ TypeOK /\ MainInv /\ RecycledInv /\ ContentInv
         /\ WorkerPosition(w) /\ WorkerRemaining(w) /\ WorkerReaped(w) /\ WorkerVerdicts(w)
         /\ widx[w] \in Chunks /\ wgen[w] \in Nat /\ NSlots \in Nat
         /\ wi[w] \in 0 .. NSlots /\ input_count[widx[w]] \in 0 .. NSlots
         /\ Preceding(wgen[w], widx[w]) \in Int /\ Len(out) \in Nat
         /\ generation \in [Chunks -> Nat] /\ input_count \in [Chunks -> 0 .. NSlots]
         /\ remaining[w] \in [Chunks -> 0 .. NSlots]
         /\ outputs[w] \in [Chunks -> [Slots -> OutputSlots]]
         /\ crashed \subseteq Workers \X Nat
<1>1. TypeOK /\ MainInv /\ RecycledInv /\ WorkerPosition(w) /\ WorkerRemaining(w) /\ WorkerReaped(w)
  BY DEF RingInv
<1>2. WorkerVerdicts(w)
  BY DEF VerdictInv, WorkerVerdicts
<1>3. /\ widx[w] \in Chunks /\ wgen[w] \in Nat /\ NSlots \in Nat /\ wi[w] \in 0 .. NSlots
      /\ generation \in [Chunks -> Nat] /\ input_count \in [Chunks -> 0 .. NSlots]
      /\ remaining[w] \in [Chunks -> 0 .. NSlots]
      /\ outputs[w] \in [Chunks -> [Slots -> OutputSlots]]
      /\ crashed \subseteq Workers \X Nat /\ Len(out) \in Nat
  BY <1>1, ConstantsAssumption, SMTT(30) DEF TypeOK, ChunkTypes, OutputTypes, WorkerTypes, HistTypes
<1>4. Preceding(wgen[w], widx[w]) \in Int
  BY <1>3, PrecedingType
<1>5. input_count[widx[w]] \in 0 .. NSlots
  BY <1>3
<1>6. ContentInv
  BY DEF OrderInv
<1>. QED  BY <1>1, <1>2, <1>3, <1>4, <1>5, <1>6

\* A step that changes nothing a worker's verdicts depend on, whether main's, of
\* another worker, or one that only moves the worker on.
LEMMA VerdictsUntouched ==
  ASSUME RingInv, OrderInv, VerdictInv, mpc # "killed", NEW v \in Workers,
         UNCHANGED <<generation, input_count, inputs>>,
         outputs'[v] = outputs[v], remaining'[v] = remaining[v],
         wgen'[v] = wgen[v], widx'[v] = widx[v], wi'[v] = wi[v],
         wpc'[v] \in {"check", "exited", "gone"} <=> wpc[v] \in {"check", "exited", "gone"},
         wpc'[v] = "decode" <=> wpc[v] = "decode",
         wpc'[v] = "crashed" <=> wpc[v] = "crashed",
         \A p \in crashed' : p[1] = v => p \in crashed,
         crashed \subseteq crashed',
         Refilling => Refilling' /\ idx' = idx,
         Len(out') = Len(out)
  PROVE  WorkerVerdicts(v)'
<1>1. VerdictsKept(v) /\ DeathNoted(v) /\ NoCrashAhead(v) /\ NotOvertaken(v)
  BY VerdictParts DEF WorkerVerdicts
<1>2. Preceding(wgen[v], widx[v])' = Preceding(wgen[v], widx[v])
  BY DEF Preceding
<1>3. Resume(v)' = Resume(v) /\ Reached(v)' = Reached(v)
  <2>1. Resume(v)' = Resume(v)
    BY DEF Resume
  <2>2. wpc'[v] \in {"decode", "check", "exited", "gone"}
          <=> wpc[v] \in {"decode", "check", "exited", "gone"}
    OBVIOUS
  <2>3. Reached(v)' = Reached(v)
    BY <1>2, <2>2 DEF Reached
  <2>. QED  BY <2>1, <2>3
<1>4. \A n : Verdict(v, n)' = Verdict(v, n)
  <2>. SUFFICES ASSUME NEW n PROVE <<v, n>> \in crashed' <=> <<v, n>> \in crashed
    BY DEF Verdict
  <2>1. <<v, n>>[1] = v
    OBVIOUS
  <2>. QED  BY <2>1
<1>5. \A c \in Chunks : \A s \in Slots : Through(v, c, s)' <=> Through(v, c, s)
  BY <1>3 DEF Through, Ahead, AtFill
<1>6. VerdictsKept(v)'
  BY <1>1, <1>4, <1>5 DEF VerdictsKept
<1>7. DeathNoted(v)'
  BY <1>1 DEF DeathNoted
<1>8. NoCrashAhead(v)'
  BY <1>1, <1>3 DEF NoCrashAhead
<1>9. NotOvertaken(v)'
  BY <1>1, <1>2 DEF NotOvertaken
<1>. QED  BY <1>6, <1>7, <1>8, <1>9 DEF WorkerVerdicts

\* Verdicts that were written stay what they are as long as no decoder crashes.
LEMMA WrittenKept ==
  ASSUME VerdictsMatchInput, UNCHANGED <<out, crashed>>
  PROVE  VerdictsMatchInput'
BY DEF VerdictsMatchInput

(***************************************************************************)
(* Verdicts: the steps of worker()                                         *)
(***************************************************************************)

\* A worker inside its chunk finds there the candidates of its own fill.
LEMMA InsideFill ==
  ASSUME RingInv, OrderInv, VerdictInv, NEW w \in Workers, wpc[w] = "decode"
  PROVE  /\ mpc # "killed" /\ AtFill(w, widx[w]) /\ ~(Refilling /\ widx[w] = idx)
         /\ remaining[w][widx[w]] = input_count[widx[w]] - wi[w]
         /\ \A s \in Slots : s < input_count[widx[w]] =>
              /\ inputs[widx[w]][s] = Preceding(wgen[w], widx[w]) + s + 1
              /\ generation[widx[w]] > 0
<1>1. mpc # "killed"
  BY WorkerNotKilled
<1>2. AtFill(w, widx[w]) /\ remaining[w][widx[w]] = input_count[widx[w]] - wi[w]
  BY <1>1, VerdictParts DEF WorkerPosition, WorkerRemaining, AtFill
<1>3. ~(Refilling /\ widx[w] = idx)
  <2>. SUFFICES ASSUME Refilling PROVE widx[w] # idx
    OBVIOUS
  <2>1. Recycling
    BY DEF Refilling, Recycling
  <2>. QED  BY <1>1, <2>1, VerdictParts, NobodyInside
<1>4. FillOf(widx[w]) = wgen[w]
  BY <1>2, <1>3 DEF FillOf, AtFill
<1>5. ASSUME NEW s \in Slots, s < input_count[widx[w]]
      PROVE  inputs[widx[w]][s] = Preceding(wgen[w], widx[w]) + s + 1 /\ generation[widx[w]] > 0
  <2>1. s \in Int /\ s >= 0 /\ input_count[widx[w]] # 0
    BY <1>1, <1>5, VerdictParts DEF Slots
  <2>2. FillOf(widx[w]) > 0
    BY <1>1, <1>4, <2>1, VerdictParts DEF ContentInv
  <2>. QED  BY <1>1, <1>2, <1>4, <1>5, <2>2, VerdictParts DEF ContentInv, AtFill
<1>. QED  BY <1>1, <1>2, <1>3, <1>5

\* What it is through with came before what it has reached.
LEMMA ThroughIsReached ==
  ASSUME RingInv, OrderInv, VerdictInv, NEW w \in Workers, wpc[w] = "decode",
         NEW c \in Chunks, generation[c] > 0, ~(Refilling /\ c = idx),
         NEW s \in Slots, s < input_count[c], Through(w, c, s)
  PROVE  inputs[c][s] <= Preceding(wgen[w], widx[w]) + wi[w]
<1>1. mpc # "killed" /\ FillOf(c) = generation[c] /\ generation[c] \in Nat /\ s \in 0 .. NSlots - 1
  BY InsideFill, VerdictParts DEF FillOf, Slots
<1>2. inputs[c][s] = Preceding(generation[c], c) + s + 1
  BY <1>1, VerdictParts DEF ContentInv
<1>3. Preceding(generation[c], c) \in Int
  BY <1>1, PrecedingType
<1>4. CASE Ahead(w, c)
  <2>1. Preceding(generation[c], c) + NSlots <= Preceding(wgen[w], widx[w])
    <3>1. generation[c] < wgen[w] \/ (generation[c] = wgen[w] /\ c < widx[w])
      BY <1>4 DEF Ahead
    <3>2. generation[c] \in Int /\ wgen[w] \in Int /\ widx[w] \in Chunks
      BY <1>1, VerdictParts
    <3>. QED  BY <3>1, <3>2, PrecedingGrows
  <2>. QED  BY <1>1, <1>2, <1>3, <2>1, VerdictParts
<1>5. CASE ~Ahead(w, c)
  <2>1. c = widx[w] /\ generation[c] = wgen[w] /\ s < wi[w]
    BY <1>5 DEF Through, AtFill, Resume
  <2>. QED  BY <1>1, <1>2, <1>3, <2>1, VerdictParts
<1>. QED  BY <1>4, <1>5

\* A worker enters its chunk, at the slot after the one it died at if it did.
LEMMA BeginChunkVerdicts ==
  ASSUME RingInv, OrderInv, VerdictInv, NEW w \in Workers, BeginChunk(w)
  PROVE  WorkerVerdicts(w)'
<1>. DEFINE c == widx[w]
            start == StartSlot(w, c)
<1>1. /\ wpc[w] = "wait" /\ mpc # "killed" /\ mpc' = mpc /\ idx' = idx
      /\ wpc'[w] = "decode" /\ wi'[w] = start
      /\ wgen' = wgen /\ widx' = widx
      /\ UNCHANGED <<generation, input_count, inputs, outputs, out, crashed>>
  <2>1. wpc[w] = "wait"
    BY DEF BeginChunk
  <2>2. mpc # "killed"
    BY <2>1, WorkerNotKilled
  <2>. QED  BY <2>1, <2>2, VerdictParts
            DEF BeginChunk, chunkVars, mainVars, histVars, TypeOK, WorkerTypes
<1>2. VerdictsKept(w) /\ NoCrashAhead(w) /\ NotOvertaken(w)
  BY <1>1, VerdictParts DEF WorkerVerdicts
<1>3. start = Resume(w)
  BY <1>1, VerdictParts DEF StartSlot, Resume, WorkerRemaining
<1>4. Resume(w)' = Resume(w)
  BY <1>1, <1>3 DEF Resume
<1>5. Reached(w)' = Reached(w)
  BY <1>1, <1>3 DEF Reached, Resume, Preceding
<1>6. VerdictsKept(w)'
  <2>1. \A d \in Chunks : \A s \in Slots : Through(w, d, s)' <=> Through(w, d, s)
    BY <1>1, <1>4 DEF Through, Ahead, AtFill
  <2>. QED  BY <1>1, <1>2, <2>1 DEF VerdictsKept, Verdict, Refilling
<1>7. DeathNoted(w)'
  BY <1>1 DEF DeathNoted
<1>8. NoCrashAhead(w)'
  BY <1>1, <1>2, <1>5 DEF NoCrashAhead
<1>9. NotOvertaken(w)'
  BY <1>1, <1>2 DEF NotOvertaken, Preceding
<1>. QED  BY <1>6, <1>7, <1>8, <1>9 DEF WorkerVerdicts

\* A worker decodes a candidate it did not crash on.
LEMMA DecodeVerdicts ==
  ASSUME RingInv, OrderInv, VerdictInv, NEW w \in Workers, Decode(w)
  PROVE  WorkerVerdicts(w)'
<1>. DEFINE c == widx[w]
            n == inputs[c][wi[w]]
            P == Preceding(wgen[w], c)
<1>1. wpc[w] = "decode" /\ wi[w] < input_count[c]
  BY DEF Decode
<1>2. mpc # "killed"
  BY <1>1, InsideFill
<1>3. /\ outputs' = [outputs EXCEPT ![w][c][wi[w]] = [of |-> n, status |-> "decoded"]]
      /\ wi'[w] = wi[w] + 1
      /\ UNCHANGED <<generation, input_count, inputs, mpc, idx, wpc, wgen, widx, out, crashed>>
  BY <1>2, VerdictParts DEF Decode, chunkVars, mainVars, histVars, TypeOK, WorkerTypes
<1>4. c \in Chunks /\ wi[w] \in Slots /\ P \in Int /\ NSlots \in Nat
  BY <1>1, <1>2, VerdictParts DEF Slots
<1>5. n = P + wi[w] + 1
  BY <1>1, <1>4, InsideFill
<1>6. <<w, n>> \notin crashed
  <2>. SUFFICES ASSUME <<w, n>> \in crashed PROVE FALSE
    OBVIOUS
  <2>1. n <= Reached(w)
    <3>1. <<w, n>>[1] = w /\ <<w, n>>[2] = n
      OBVIOUS
    <3>. QED  BY <1>2, <3>1, VerdictParts DEF WorkerVerdicts, NoCrashAhead
  <2>2. Reached(w) = P + wi[w]
    BY <1>1 DEF Reached
  <2>. QED  BY <1>4, <1>5, <2>1, <2>2, VerdictParts DEF Slots
<1>7. VerdictsKept(w) /\ NoCrashAhead(w) /\ NotOvertaken(w)
  BY <1>2, VerdictParts DEF WorkerVerdicts
<1>8. VerdictsKept(w)'
  <2>. SUFFICES ASSUME NEW d \in Chunks, generation[d] > 0, ~(Refilling /\ d = idx),
                       NEW s \in Slots, s < input_count[d], Through(w, d, s)'
                PROVE  outputs'[w][d][s] = Verdict(w, inputs[d][s])
    BY <1>3 DEF VerdictsKept, Refilling, Verdict
  <2>1. CASE d = c /\ s = wi[w]
    <3>1. outputs'[w][c][wi[w]] = [of |-> n, status |-> "decoded"]
      BY <1>2, <1>3, <1>4, VerdictParts DEF TypeOK, OutputTypes
    <3>. QED  BY <1>6, <2>1, <3>1 DEF Verdict
  <2>2. CASE ~(d = c /\ s = wi[w])
    <3>1. outputs'[w][d][s] = outputs[w][d][s]
      BY <1>2, <1>3, <1>4, <2>2, VerdictParts DEF TypeOK, OutputTypes
    <3>2. Through(w, d, s)
      <4>1. CASE Ahead(w, d)'
        BY <1>3, <4>1 DEF Through, Ahead
      <4>2. CASE ~Ahead(w, d)'
        <5>1. d = c /\ AtFill(w, d) /\ s < wi[w] + 1
          BY <1>1, <1>3, <4>2 DEF Through, AtFill, Resume
        <5>2. s < wi[w]
          BY <1>4, <2>2, <5>1 DEF Slots
        <5>. QED  BY <1>1, <5>1, <5>2 DEF Through, Resume
      <4>. QED  BY <4>1, <4>2
    <3>. QED  BY <1>7, <3>1, <3>2 DEF VerdictsKept
  <2>. QED  BY <2>1, <2>2
<1>9. DeathNoted(w)'
  BY <1>1, <1>3 DEF DeathNoted
<1>10. NoCrashAhead(w)'
  <2>1. Reached(w) = P + wi[w] /\ Reached(w)' = P + (wi[w] + 1)
    BY <1>1, <1>3 DEF Reached, Preceding
  <2>2. ASSUME NEW p \in crashed', p[1] = w PROVE p[2] <= Reached(w)'
    <3>1. p \in crashed /\ p[2] \in Nat
      BY <1>2, <1>3, <2>2, VerdictParts
    <3>2. p[2] <= P + wi[w]
      BY <1>7, <2>1, <2>2, <3>1 DEF NoCrashAhead
    <3>. QED  BY <1>4, <2>1, <3>1, <3>2 DEF Slots
  <2>. QED  BY <2>2 DEF NoCrashAhead
<1>11. NotOvertaken(w)'
  BY <1>3, <1>7 DEF NotOvertaken, Preceding
<1>. QED  BY <1>8, <1>9, <1>10, <1>11 DEF WorkerVerdicts

\* A decoder crashes on a candidate whose cohort is not written yet.
LEMMA CrashWritten ==
  ASSUME RingInv, OrderInv, VerdictInv, NEW w \in Workers, Crash(w)
  PROVE  VerdictsMatchInput'
<1>. DEFINE n == inputs[widx[w]][wi[w]]
            P == Preceding(wgen[w], widx[w])
<1>1. wpc[w] = "decode" /\ wi[w] < input_count[widx[w]] /\ out' = out
      /\ crashed' = crashed \cup {<<w, n>>}
  BY DEF Crash
<1>2. mpc # "killed" /\ wi[w] \in Slots /\ P \in Int
  BY <1>1, InsideFill, VerdictParts DEF Slots
<1>3. n = P + wi[w] + 1
  BY <1>1, <1>2, InsideFill
<1>4. Len(out) <= P
  <2>1. Len(out) <= P + 0
    BY <1>1, <1>2, VerdictParts DEF WorkerVerdicts, NotOvertaken
  <2>. QED  BY <1>2, <2>1
<1>5. ASSUME NEW k \in 1 .. Len(out), NEW v \in Workers
      PROVE  <<v, out[k].input>> \in crashed' <=> <<v, out[k].input>> \in crashed
  <2>1. out[k].input = k
    BY DEF OrderInv, CohortsInOrder
  <2>2. k # n
    BY <1>2, <1>3, <1>4, VerdictParts DEF Slots
  <2>3. <<v, k>> # <<w, n>>
    BY <2>2
  <2>. QED  BY <1>1, <2>1, <2>3
<1>6. VerdictsMatchInput
  BY DEF VerdictInv
<1>. QED  BY <1>1, <1>5, <1>6 DEF VerdictsMatchInput

\* A worker dies in a slot: what it did before stays.
LEMMA CrashVerdicts ==
  ASSUME RingInv, OrderInv, VerdictInv, NEW w \in Workers, Crash(w), ~ThreadMode
  PROVE  WorkerVerdicts(w)'
<1>. DEFINE c == widx[w]
            n == inputs[c][wi[w]]
            P == Preceding(wgen[w], c)
<1>1. wpc[w] = "decode" /\ wi[w] < input_count[c]
  BY DEF Crash
<1>2. mpc # "killed"
  BY <1>1, InsideFill
<1>3. /\ outputs' = [outputs EXCEPT ![w][c][wi[w]].of = n]
      /\ crashed' = crashed \cup {<<w, n>>} /\ wpc'[w] = "crashed"
      /\ UNCHANGED <<generation, input_count, inputs, remaining, mpc, idx, wgen, widx, wi, out>>
  BY <1>2, VerdictParts DEF Crash, chunkVars, TypeOK, WorkerTypes
<1>4. c \in Chunks /\ wi[w] \in Slots /\ P \in Int /\ NSlots \in Nat
  BY <1>1, <1>2, VerdictParts DEF Slots
<1>5. n = P + wi[w] + 1
  BY <1>1, <1>4, InsideFill
<1>6. VerdictsKept(w) /\ NoCrashAhead(w) /\ NotOvertaken(w)
  BY <1>2, VerdictParts DEF WorkerVerdicts
<1>7. outputs'[w][c][wi[w]].of = n
  <2>1. outputs[w][c][wi[w]] \in OutputSlots
    BY <1>2, <1>4, VerdictParts
  <2>2. outputs'[w][c][wi[w]] = [outputs[w][c][wi[w]] EXCEPT !.of = n]
    BY <1>2, <1>3, <1>4, VerdictParts DEF TypeOK, OutputTypes
  <2>. QED  BY <2>1, <2>2 DEF OutputSlots
<1>8. VerdictsKept(w)'
  <2>. SUFFICES ASSUME NEW d \in Chunks, generation[d] > 0, ~(Refilling /\ d = idx),
                       NEW s \in Slots, s < input_count[d], Through(w, d, s)'
                PROVE  outputs'[w][d][s] = Verdict(w, inputs[d][s])'
    BY <1>3 DEF VerdictsKept, Refilling
  <2>1. Through(w, d, s)
    <3>1. Resume(w)' = Resume(w)
      BY <1>1, <1>3 DEF Resume
    <3>. QED  BY <1>1, <1>3, <3>1 DEF Through, Ahead, AtFill
  <2>2. inputs[d][s] <= P + wi[w]
    BY <1>1, <2>1, ThroughIsReached
  <2>3. d # c \/ s # wi[w]
    BY <1>4, <1>5, <2>2 DEF Slots
  <2>4. outputs'[w][d][s] = outputs[w][d][s]
    BY <1>2, <1>3, <1>4, <2>3, VerdictParts DEF TypeOK, OutputTypes
  <2>5. <<w, inputs[d][s]>> \in crashed' <=> <<w, inputs[d][s]>> \in crashed
    <3>1. inputs[d][s] # n
      BY <1>4, <1>5, <2>2 DEF Slots
    <3>. QED  BY <1>3, <3>1
  <2>6. Verdict(w, inputs[d][s])' = Verdict(w, inputs[d][s])
    BY <1>3, <2>5 DEF Verdict
  <2>. QED  BY <1>6, <2>1, <2>4, <2>6 DEF VerdictsKept
<1>9. DeathNoted(w)'
  BY <1>1, <1>3, <1>7 DEF DeathNoted
<1>10. NoCrashAhead(w)'
  <2>1. remaining[w][c] # 0
    <3>1. remaining[w][c] = input_count[c] - wi[w]
      BY <1>1, InsideFill
    <3>. QED  BY <1>1, <1>2, <1>4, <3>1, VerdictParts DEF Slots
  <2>2. Reached(w) = P + wi[w] /\ Reached(w)' = P + (wi[w] + 1)
    BY <1>1, <1>3, <2>1 DEF Reached, Preceding
  <2>3. ASSUME NEW p \in crashed', p[1] = w PROVE p[2] <= Reached(w)'
    <3>1. CASE p \in crashed
      <4>1. p[2] \in Nat
        BY <1>2, <3>1, VerdictParts
      <4>2. p[2] <= P + wi[w]
        BY <1>6, <2>2, <2>3, <3>1 DEF NoCrashAhead
      <4>. QED  BY <1>4, <2>2, <4>1, <4>2 DEF Slots
    <3>2. CASE p = <<w, n>>
      <4>1. p[2] = n
        BY <3>2
      <4>. QED  BY <1>4, <1>5, <2>2, <4>1 DEF Slots
    <3>. QED  BY <1>3, <2>3, <3>1, <3>2
  <2>. QED  BY <2>3 DEF NoCrashAhead
<1>11. NotOvertaken(w)'
  BY <1>1, <1>3, <1>6 DEF NotOvertaken, Preceding
<1>. QED  BY <1>8, <1>9, <1>10, <1>11 DEF WorkerVerdicts

\* A worker gives its chunk back when it is through with all its slots.
LEMMA FinishChunkVerdicts ==
  ASSUME RingInv, OrderInv, VerdictInv, NEW w \in Workers, FinishChunk(w)
  PROVE  WorkerVerdicts(w)'
<1>. DEFINE c == widx[w]
            P == Preceding(wgen[w], c)
<1>1. wpc[w] = "decode" /\ wi[w] >= input_count[c]
  BY DEF FinishChunk
<1>2. mpc # "killed" /\ AtFill(w, c)
  BY <1>1, InsideFill
<1>3. /\ wpc'[w] = "check"
      /\ UNCHANGED <<generation, input_count, inputs, remaining, outputs, mpc, idx, wgen, widx, wi,
                     out, crashed>>
  BY <1>2, VerdictParts DEF FinishChunk, outputVars, mainVars, histVars, TypeOK, WorkerTypes
<1>4. VerdictsKept(w) /\ NoCrashAhead(w) /\ NotOvertaken(w)
  BY <1>2, VerdictParts DEF WorkerVerdicts
<1>5. VerdictsKept(w)'
  <2>1. ASSUME NEW d \in Chunks, NEW s \in Slots, s < input_count[d], Through(w, d, s)'
        PROVE  Through(w, d, s)
    <3>1. CASE Ahead(w, d)'
      BY <1>3, <3>1 DEF Through, Ahead
    <3>2. CASE ~Ahead(w, d)'
      <4>1. d = c /\ AtFill(w, d)
        BY <1>3, <2>1, <3>2 DEF Through, AtFill
      <4>2. s < wi[w]
        BY <1>1, <1>2, <2>1, <4>1, VerdictParts DEF Slots
      <4>. QED  BY <1>1, <4>1, <4>2 DEF Through, Resume
    <3>. QED  BY <3>1, <3>2
  <2>. QED  BY <1>3, <1>4, <2>1 DEF VerdictsKept, Refilling, Verdict
<1>6. DeathNoted(w)'
  <2>1. remaining[w][c] = 0
    <3>1. remaining[w][c] = input_count[c] - wi[w] /\ remaining[w][c] \in Nat
      BY <1>1, <1>2, InsideFill, VerdictParts
    <3>. QED  BY <1>1, <1>2, <3>1, VerdictParts
  <2>. QED  BY <1>3, <2>1 DEF DeathNoted
<1>7. NoCrashAhead(w)'
  <2>1. Reached(w)' = Reached(w)
    BY <1>1, <1>3 DEF Reached, Preceding
  <2>. QED  BY <1>3, <1>4, <2>1 DEF NoCrashAhead
<1>8. NotOvertaken(w)'
  <2>1. Len(out) <= P + 0
    BY <1>1, <1>4 DEF NotOvertaken
  <2>2. Len(out) <= P + NSlots
    BY <1>2, <2>1, VerdictParts
  <2>. QED  BY <1>3, <2>2 DEF NotOvertaken, Preceding
<1>. QED  BY <1>5, <1>6, <1>7, <1>8 DEF WorkerVerdicts

\* A worker goes on to the next chunk, where it has done nothing yet.
LEMMA CheckExitVerdicts ==
  ASSUME RingInv, OrderInv, VerdictInv, NEW w \in Workers, CheckExit(w)
  PROVE  WorkerVerdicts(w)'
<1>. DEFINE c == widx[w]
            P == Preceding(wgen[w], c)
<1>1. wpc[w] = "check"
  BY DEF CheckExit
<1>2. mpc # "killed"
  BY <1>1, WorkerNotKilled
<1>3. UNCHANGED <<generation, input_count, inputs, remaining, outputs, mpc, idx, wi, out, crashed>>
  BY DEF CheckExit, chunkVars, outputVars, mainVars, histVars
<1>4. CASE wpc'[w] = "exited" /\ wgen' = wgen /\ widx' = widx
  BY <1>1, <1>2, <1>3, <1>4, VerdictsUntouched DEF Refilling
<1>5. CASE /\ wpc'[w] = "wait" /\ widx'[w] = NextIdx(c) /\ wgen'[w] = NextGen(wgen[w], c)
  <2>1. VerdictsKept(w) /\ NoCrashAhead(w) /\ NotOvertaken(w)
    BY <1>2, VerdictParts DEF WorkerVerdicts
  <2>2. /\ c \in Chunks /\ P \in Int /\ NChunks \in Nat \ {0} /\ Chunks = 0 .. NChunks - 1
        /\ widx'[w] \in Chunks /\ wgen[w] \in Nat
        /\ \/ widx'[w] = c + 1 /\ wgen'[w] = wgen[w]
           \/ widx'[w] = 0 /\ wgen'[w] = wgen[w] + 1 /\ c = NChunks - 1
    <3>1. c \in Chunks /\ P \in Int /\ NChunks \in Nat \ {0} /\ Chunks = 0 .. NChunks - 1
          /\ wgen[w] \in Nat
      BY <1>2, VerdictParts, ConstantsAssumption DEF Chunks
    <3>. QED  BY <1>5, <3>1 DEF NextIdx, NextGen
  <2>3. Preceding(wgen'[w], widx'[w]) = P + NSlots
    BY <1>5, <2>2, PrecedingNext
  <2>4. \A d \in Chunks : remaining[w][d] = 0
    BY <1>1, <1>2, VerdictParts DEF WorkerRemaining
  <2>5. VerdictsKept(w)'
    <3>1. ASSUME NEW d \in Chunks, NEW s \in Slots, Through(w, d, s)'
          PROVE  Through(w, d, s)
      <4>1. Resume(w)' = 0
        BY <1>3, <1>5, <2>2, <2>4 DEF Resume
      <4>2. s >= 0
        BY DEF Slots
      <4>3. Ahead(w, d)'
        BY <1>5, <3>1, <4>1, <4>2, ConstantsAssumption DEF Through, Slots
      <4>4. generation[d] < wgen'[w] \/ (generation[d] = wgen'[w] /\ d < widx'[w])
        BY <1>3, <4>3 DEF Ahead
      <4>5. generation[d] \in Nat
        BY <1>2, VerdictParts
      <4>6. Ahead(w, d) \/ AtFill(w, d)
        <5>1. \/ generation[d] < wgen[w]
              \/ generation[d] = wgen[w] /\ d < c
              \/ generation[d] = wgen[w] /\ d = c
          BY <2>2, <4>4, <4>5
        <5>. QED  BY <5>1 DEF Ahead, AtFill
      <4>. QED  BY <1>1, <4>6 DEF Through
    <3>. QED  BY <1>3, <2>1, <3>1 DEF VerdictsKept, Refilling, Verdict
  <2>6. DeathNoted(w)'
    BY <1>3, <2>2, <2>4 DEF DeathNoted
  <2>7. NoCrashAhead(w)'
    <3>1. Reached(w) = P + wi[w]
      BY <1>1 DEF Reached
    <3>2. Reached(w)' = P + NSlots + 0
      BY <1>3, <1>5, <2>2, <2>3, <2>4 DEF Reached, Preceding
    <3>3. ASSUME NEW p \in crashed', p[1] = w PROVE p[2] <= Reached(w)'
      <4>1. p[2] \in Nat /\ p \in crashed
        BY <1>2, <1>3, <3>3, VerdictParts
      <4>2. p[2] <= P + wi[w]
        BY <2>1, <3>1, <3>3, <4>1 DEF NoCrashAhead
      <4>. QED  BY <1>2, <2>2, <3>2, <4>1, <4>2, VerdictParts
    <3>. QED  BY <3>3 DEF NoCrashAhead
  <2>8. NotOvertaken(w)'
    <3>1. Len(out) <= P + NSlots
      BY <1>1, <2>1 DEF NotOvertaken
    <3>2. Preceding(wgen[w], widx[w])' = P + NSlots
      BY <2>3 DEF Preceding
    <3>. QED  BY <1>2, <1>3, <1>5, <2>2, <3>1, <3>2, VerdictParts DEF NotOvertaken
  <2>. QED  BY <2>5, <2>6, <2>7, <2>8 DEF WorkerVerdicts
<1>. QED  BY <1>2, <1>4, <1>5, VerdictParts DEF CheckExit, TypeOK, WorkerTypes

\* A step of one worker leaves the verdicts of the others alone.
LEMMA OtherWorkers ==
  ASSUME RingInv, OrderInv, VerdictInv, NEW w \in Workers, Worker(w), mpc' # "killed",
         NEW v \in Workers, v # w
  PROVE  WorkerVerdicts(v)'
<1>1. mpc # "killed"
  <2>1. wpc[w] # "gone"
    BY DEF Worker, Load, BeginChunk, Decode, Crash, FinishChunk, CheckExit
  <2>. QED  BY <2>1, WorkerNotKilled
<1>2. /\ UNCHANGED <<generation, input_count, inputs, idx, out>>
      /\ mpc' = mpc \/ mpc' = "killed"
  BY DEF Worker, Load, BeginChunk, Decode, Crash, FinishChunk, CheckExit,
         chunkVars, mainVars, histVars
<1>3. TypeOK
  BY <1>1, VerdictParts
<1>4. /\ outputs'[v] = outputs[v] /\ remaining'[v] = remaining[v] /\ wpc'[v] = wpc[v]
      /\ wgen'[v] = wgen[v] /\ widx'[v] = widx[v] /\ wi'[v] = wi[v]
      /\ crashed \subseteq crashed' /\ \A p \in crashed' : p[1] = v => p \in crashed
  <2>1. CASE Load(w)
    BY <1>3, <2>1 DEF Load, outputVars, histVars, TypeOK, WorkerTypes
  <2>2. CASE BeginChunk(w)
    BY <1>3, <2>2 DEF BeginChunk, histVars, TypeOK, WorkerTypes, OutputTypes
  <2>3. CASE Decode(w)
    BY <1>3, <2>3 DEF Decode, histVars, TypeOK, WorkerTypes, OutputTypes
  <2>4. CASE Crash(w)
    <3>1. outputs'[v] = outputs[v]
      BY <1>3, <2>4 DEF Crash, TypeOK, OutputTypes
    <3>2. wpc'[v] = wpc[v]
      BY <1>1, <1>3, <2>4 DEF Crash, TypeOK, WorkerTypes
    <3>3. /\ remaining' = remaining /\ wgen' = wgen /\ widx' = widx /\ wi' = wi
          /\ crashed' = crashed \cup {<<w, inputs[widx[w]][wi[w]]>>}
      BY <2>4 DEF Crash
    <3>. QED  BY <3>1, <3>2, <3>3
  <2>5. CASE FinishChunk(w)
    BY <1>3, <2>5 DEF FinishChunk, outputVars, histVars, TypeOK, WorkerTypes
  <2>6. CASE CheckExit(w)
    BY <1>3, <2>6 DEF CheckExit, outputVars, histVars, TypeOK, WorkerTypes
  <2>. QED  BY <2>1, <2>2, <2>3, <2>4, <2>5, <2>6 DEF Worker
<1>5. Refilling => Refilling' /\ idx' = idx
  BY <1>2 DEF Refilling
<1>6. Len(out') = Len(out)
  BY <1>2
<1>. HIDE DEF Refilling
<1>. QED  BY <1>1, <1>2, <1>4, <1>5, <1>6, VerdictsUntouched

\* A worker loads its decoder, or cannot.
LEMMA LoadVerdicts ==
  ASSUME RingInv, OrderInv, VerdictInv, NEW w \in Workers, Load(w)
  PROVE  WorkerVerdicts(w)'
<1>1. mpc # "killed"
  BY WorkerNotKilled DEF Load
<1>2. wpc[w] = "load" /\ wpc'[w] \in {"wait", "failed"}
  BY <1>1, VerdictParts DEF Load, TypeOK, WorkerTypes
<1>3. UNCHANGED <<generation, input_count, inputs, remaining, outputs, mpc, idx, wgen, widx, wi,
                  out, crashed>>
  BY DEF Load, chunkVars, outputVars, mainVars, histVars
<1>. QED  BY <1>1, <1>2, <1>3, VerdictsUntouched DEF Refilling

\* No step of a worker makes a verdict wrong.
LEMMA WorkerStepVerdicts ==
  ASSUME RingInv, OrderInv, VerdictInv, NEW w \in Workers, Worker(w)
  PROVE  VerdictInv'
<1>1. VerdictsMatchInput'
  <2>1. CASE Crash(w)
    BY <2>1, CrashWritten
  <2>2. CASE ~Crash(w)
    <3>1. UNCHANGED <<out, crashed>>
      BY <2>2 DEF Worker, Load, BeginChunk, Decode, FinishChunk, CheckExit, histVars
    <3>. QED  BY <3>1, WrittenKept DEF VerdictInv
  <2>. QED  BY <2>1, <2>2
<1>2. ASSUME mpc' # "killed", NEW v \in Workers
      PROVE  WorkerVerdicts(v)'
  <2>1. CASE v # w
    BY <1>2, <2>1, OtherWorkers
  <2>2. CASE v = w
    <3>1. Crash(w) => ~ThreadMode
      BY <1>2 DEF Crash
    <3>. QED  BY <2>2, <3>1, LoadVerdicts, BeginChunkVerdicts, DecodeVerdicts, CrashVerdicts,
                 FinishChunkVerdicts, CheckExitVerdicts DEF Worker
  <2>. QED  BY <2>1, <2>2
<1>. QED  BY <1>1, <1>2 DEF VerdictInv, WorkerVerdicts

(***************************************************************************)
(* Verdicts: the signal handler                                            *)
(***************************************************************************)

\* The slot the handler marks is the one the worker died at.
LEMMA ReapedVerdicts ==
  ASSUME RingInv, OrderInv, VerdictInv, SigchldHandler, NEW w \in FoundCrashed
  PROVE  WorkerVerdicts(w)'
<1>. DEFINE c == widx[w]
            n == inputs[c][wi[w]]
<1>1. w \in Workers /\ mpc # "killed"
  BY DEF FoundCrashed, Zombies, SigchldHandler, MainAlive
<1>2. /\ wpc[w] \in {"crashed", "failed"} /\ CrashChunk(w) = c /\ AtFill(w, c) /\ c \in Chunks
      /\ CrashSlot(w) = wi[w] /\ wi[w] \in Slots /\ Unfinished(w) = {c}
  BY <1>1, VerdictParts, CrashFound
<1>3. remaining[w][c] # 0
  BY <1>2 DEF Unfinished
<1>4. /\ outputs'[w] = [outputs[w] EXCEPT ![c][wi[w]].status = "crash"]
      /\ wpc'[w] = "reaped"
      /\ UNCHANGED <<generation, input_count, inputs, remaining, mpc, idx, wgen, widx, wi, out, crashed>>
  BY <1>1, <1>2 DEF SigchldHandler, mainVars, histVars
<1>5. VerdictsKept(w) /\ DeathNoted(w) /\ NoCrashAhead(w) /\ NotOvertaken(w)
  BY <1>1, VerdictParts DEF WorkerVerdicts
<1>6. wi[w] < input_count[c] /\ <<w, n>> \in crashed /\ outputs[w][c][wi[w]].of = n
  BY <1>2, <1>3, <1>5 DEF DeathNoted
<1>7. /\ outputs'[w][c][wi[w]] = Verdict(w, n)
      /\ \A d \in Chunks : \A s \in Slots : d # c \/ s # wi[w] => outputs'[w][d][s] = outputs[w][d][s]
  <2>1. outputs[w][c][wi[w]] \in OutputSlots /\ outputs[w] \in [Chunks -> [Slots -> OutputSlots]]
    BY <1>1, <1>2, VerdictParts
  <2>2. outputs'[w][c][wi[w]] = [outputs[w][c][wi[w]] EXCEPT !.status = "crash"]
    BY <1>2, <1>4, <2>1
  <2>3. outputs'[w][c][wi[w]] = [of |-> n, status |-> "crash"]
    <3>. HIDE DEF n, c
    <3>. QED  BY <1>6, <2>1, <2>2 DEF OutputSlots
  <2>4. \A d \in Chunks : \A s \in Slots : d # c \/ s # wi[w] => outputs'[w][d][s] = outputs[w][d][s]
    BY <1>2, <1>4, <2>1
  <2>. QED  BY <1>6, <2>3, <2>4 DEF Verdict
<1>8. VerdictsKept(w)'
  <2>. SUFFICES ASSUME NEW d \in Chunks, generation[d] > 0, ~(Refilling /\ d = idx),
                       NEW s \in Slots, s < input_count[d], Through(w, d, s)'
                PROVE  outputs'[w][d][s] = Verdict(w, inputs[d][s])
    BY <1>4 DEF VerdictsKept, Refilling, Verdict
  <2>1. CASE d = c /\ s = wi[w]
    BY <1>7, <2>1
  <2>2. CASE ~(d = c /\ s = wi[w])
    <3>1. Through(w, d, s)
      <4>1. CASE Ahead(w, d)'
        BY <1>4, <4>1 DEF Through, Ahead
      <4>2. CASE ~Ahead(w, d)'
        <5>1. d = c /\ AtFill(w, d) /\ s < wi[w] + 1
          BY <1>3, <1>4, <4>2 DEF Through, AtFill, Resume
        <5>2. s < wi[w]
          BY <1>2, <2>2, <5>1 DEF Slots
        <5>3. s < Resume(w)
          BY <1>2, <1>3, <5>1, <5>2 DEF Resume
        <5>. QED  BY <5>1, <5>3 DEF Through
      <4>. QED  BY <4>1, <4>2
    <3>. QED  BY <1>5, <1>7, <2>2, <3>1 DEF VerdictsKept
  <2>. QED  BY <2>1, <2>2
<1>9. DeathNoted(w)'
  <2>1. Verdict(w, n).of = n
    BY DEF Verdict
  <2>. QED  BY <1>4, <1>6, <1>7, <2>1 DEF DeathNoted
<1>10. NoCrashAhead(w)'
  <2>1. Reached(w)' = Reached(w)
    BY <1>2, <1>3, <1>4 DEF Reached, Preceding
  <2>. QED  BY <1>4, <1>5, <2>1 DEF NoCrashAhead
<1>11. NotOvertaken(w)'
  BY <1>2, <1>4, <1>5 DEF NotOvertaken, Preceding
<1>. QED  BY <1>8, <1>9, <1>10, <1>11 DEF WorkerVerdicts

\* Nor does the handler, for the workers it finds crashed and for the others.
LEMMA HandlerVerdicts ==
  ASSUME RingInv, OrderInv, VerdictInv, SigchldHandler
  PROVE  VerdictInv'
<1>1. /\ mpc # "killed"
      /\ UNCHANGED <<generation, input_count, inputs, remaining, mpc, idx, wgen, widx, wi, out, crashed>>
  BY DEF SigchldHandler, MainAlive, mainVars, histVars
<1>2. VerdictsMatchInput'
  BY <1>1, WrittenKept DEF VerdictInv
<1>3. ASSUME NEW v \in Workers PROVE WorkerVerdicts(v)'
  <2>1. CASE v \in FoundCrashed
    BY <2>1, ReapedVerdicts
  <2>2. CASE v \notin FoundCrashed
    <3>1. wpc[v] # "crashed"
      BY <1>1, <2>2, VerdictParts DEF FoundCrashed, Zombies, Unfinished, WorkerRemaining
    <3>2. wpc'[v] = IF v \in Zombies THEN IF wpc[v] = "failed" THEN "lost" ELSE "gone" ELSE wpc[v]
      BY <2>2 DEF SigchldHandler
    <3>3. wpc'[v] = IF wpc[v] = "failed" THEN "lost" ELSE IF wpc[v] = "exited" THEN "gone" ELSE wpc[v]
      BY <3>1, <3>2 DEF Zombies
    <3>4. outputs'[v] = outputs[v]
      BY <2>2 DEF SigchldHandler
    <3>. QED  BY <1>1, <3>1, <3>3, <3>4, VerdictsUntouched DEF Refilling
  <2>. QED  BY <2>1, <2>2
<1>. QED  BY <1>1, <1>2, <1>3 DEF VerdictInv, WorkerVerdicts

(***************************************************************************)
(* Verdicts: the steps of main                                             *)
(***************************************************************************)

\* Steps of main that touch neither a chunk nor the output.
LEMMA QuietVerdicts ==
  ASSUME RingInv, OrderInv, VerdictInv,
         WaitForWorkers \/ EndRestarts \/ EndProcess \/ Arm \/ JoinThreads
  PROVE  VerdictInv'
<1>1. /\ mpc # "killed" /\ (Refilling => Refilling' /\ idx' = idx)
      /\ UNCHANGED <<generation, input_count, inputs, remaining, outputs, wpc, wgen, widx, wi, out, crashed>>
  BY DEF WaitForWorkers, EndRestarts, EndProcess, Arm, JoinThreads, Refilling,
         chunkVars, outputVars, workerVars, histVars
<1>2. ASSUME NEW v \in Workers PROVE WorkerVerdicts(v)'
  BY <1>1, VerdictsUntouched
<1>. QED  BY <1>1, <1>2, WrittenKept DEF VerdictInv, WorkerVerdicts

\* A worker is forked again where it was.
LEMMA RestartWorkerVerdicts ==
  ASSUME RingInv, OrderInv, VerdictInv, RestartWorker
  PROVE  VerdictInv'
<1>1. /\ mpc = "restart" /\ mpc # "killed" /\ ~Refilling /\ i < RestartBound
      /\ UNCHANGED <<generation, input_count, inputs, remaining, outputs, wi, out, crashed>>
  BY DEF RestartWorker, Refilling, outputVars, histVars
<1>2. ASSUME NEW v \in Workers PROVE WorkerVerdicts(v)'
  <2>1. wgen'[v] = wgen[v] /\ widx'[v] = widx[v]
        /\ (wpc'[v] = wpc[v] \/ (wpc[v] = "reaped" /\ wpc'[v] = "load"))
    <3>1. TypeOK /\ WorkerReaped(v)
      BY <1>1, VerdictParts
    <3>2. CASE sigchld[i] /\ v = i
      BY <3>1, <3>2 DEF RestartWorker, WorkerReaped, TypeOK, WorkerTypes
    <3>3. CASE ~sigchld[i] \/ v # i
      BY <3>1, <3>3 DEF RestartWorker, TypeOK, WorkerTypes
    <3>. QED  BY <3>2, <3>3
  <2>. QED  BY <1>1, <2>1, VerdictsUntouched
<1>. QED  BY <1>1, <1>2, WrittenKept DEF VerdictInv, WorkerVerdicts

\* When main writes the cohorts of a chunk every worker is through with it.
LEMMA AllThrough ==
  ASSUME RingInv, OrderInv, VerdictInv, mpc = "process", Reportable, NEW w \in Workers
  PROVE  /\ Through(w, idx, i)
         /\ outputs[w][idx][i] = Verdict(w, inputs[idx][i])
         /\ Len(out) + 1 <= Preceding(wgen[w], widx[w]) +
                             IF wpc[w] \in {"check", "exited", "gone"} THEN NSlots ELSE 0
<1>1. mpc # "killed" /\ ~Refilling /\ Recycling
  BY DEF Refilling, Recycling
<1>2. /\ i \in Slots /\ i < input_count[idx] /\ idx \in Chunks /\ gen \in Nat
      /\ generation[idx] = gen - 1 /\ generation[idx] > 0
      /\ Len(out) = Preceding(gen - 1, idx) + i
  BY <1>1, NextReported, OrderParts DEF Reportable
<1>3. /\ AtFill(w, idx) => wpc[w] \in {"check", "exited", "gone"}
      /\ ~Behind(w, idx)
  BY <1>1, VerdictParts, NobodyInside
<1>4. Ahead(w, idx) \/ AtFill(w, idx)
  <2>1. wgen[w] \in Nat /\ generation[idx] \in Nat /\ widx[w] \in Int /\ idx \in Int
    BY <1>1, <1>2, VerdictParts, ConstantsAssumption DEF Chunks
  <2>. QED  BY <1>3, <2>1 DEF Ahead, AtFill, Behind
<1>5. Through(w, idx, i)
  BY <1>3, <1>4 DEF Through
<1>6. outputs[w][idx][i] = Verdict(w, inputs[idx][i])
  BY <1>1, <1>2, <1>5, VerdictParts DEF WorkerVerdicts, VerdictsKept
<1>7. i \in 0 .. NSlots - 1 /\ NSlots \in Nat /\ Preceding(gen - 1, idx) \in Int
  <2>1. gen - 1 \in Int
    BY <1>2
  <2>. QED  BY <1>1, <1>2, <2>1, PrecedingType, VerdictParts DEF Slots
<1>8. CASE Ahead(w, idx)
  <2>1. gen - 1 < wgen[w] \/ (gen - 1 = wgen[w] /\ idx < widx[w])
    BY <1>2, <1>8 DEF Ahead
  <2>2. gen - 1 \in Int /\ wgen[w] \in Int /\ widx[w] \in Chunks
    BY <1>1, <1>2, VerdictParts
  <2>3. Preceding(gen - 1, idx) + NSlots <= Preceding(wgen[w], widx[w])
    BY <1>2, <2>1, <2>2, PrecedingGrows
  <2>4. Preceding(wgen[w], widx[w]) \in Int
    BY <1>1, VerdictParts
  <2>. QED  BY <1>2, <1>5, <1>6, <1>7, <2>3, <2>4
<1>9. CASE AtFill(w, idx)
  <2>1. Preceding(wgen[w], widx[w]) = Preceding(gen - 1, idx)
    BY <1>2, <1>9 DEF AtFill
  <2>. QED  BY <1>2, <1>3, <1>5, <1>6, <1>7, <1>9, <2>1
<1>. QED  BY <1>4, <1>8, <1>9

\* The cohort main writes holds the verdict of every worker.
LEMMA ProcessSlotVerdicts ==
  ASSUME RingInv, OrderInv, VerdictInv, ProcessSlot
  PROVE  VerdictInv'
<1>. DEFINE cohort == [input |-> inputs[idx][i], outs |-> [w \in Workers |-> outputs[w][idx][i]]]
<1>1. /\ mpc = "process" /\ mpc' = "process" /\ mpc # "killed" /\ Reportable
      /\ out' = Append(out, cohort)
      /\ UNCHANGED <<generation, input_count, inputs, remaining, outputs, idx, wpc, wgen, widx, wi, crashed>>
  BY DEF ProcessSlot, chunkVars, outputVars, workerVars
<1>2. out \in Seq([input : Nat, outs : [Workers -> OutputSlots]])
  BY <1>1, OrderParts DEF TypeOK, HistTypes
<1>3. \A w \in Workers : cohort.outs[w] = Verdict(w, cohort.input)
  BY <1>1, AllThrough
<1>. HIDE DEF cohort
<1>4. /\ Len(out') = Len(out) + 1 /\ Len(out) \in Nat /\ out'[Len(out) + 1] = cohort
      /\ \A k \in 1 .. Len(out) : out'[k] = out[k]
  BY <1>1, <1>2
<1>5. VerdictsMatchInput'
  <2>. SUFFICES ASSUME NEW k \in 1 .. Len(out) + 1, NEW w \in Workers
                PROVE  out'[k].outs[w] = Verdict(w, out'[k].input)
    BY <1>1, <1>4 DEF VerdictsMatchInput, Verdict
  <2>1. CASE k = Len(out) + 1
    BY <1>3, <1>4, <2>1
  <2>2. CASE k # Len(out) + 1
    <3>1. k \in 1 .. Len(out)
      BY <1>4, <2>2
    <3>. QED  BY <1>4, <3>1 DEF VerdictInv, VerdictsMatchInput, Verdict
  <2>. QED  BY <2>1, <2>2
<1>6. ASSUME NEW w \in Workers PROVE WorkerVerdicts(w)'
  <2>1. VerdictsKept(w) /\ DeathNoted(w) /\ NoCrashAhead(w)
    BY <1>1, VerdictParts DEF WorkerVerdicts
  <2>2. VerdictsKept(w)'
    <3>1. \A d \in Chunks : \A s \in Slots : Through(w, d, s)' <=> Through(w, d, s)
      BY <1>1 DEF Through, Ahead, AtFill, Resume
    <3>. QED  BY <1>1, <2>1, <3>1 DEF VerdictsKept, Refilling, Verdict
  <2>3. DeathNoted(w)'
    BY <1>1, <2>1 DEF DeathNoted
  <2>4. NoCrashAhead(w)'
    <3>1. Reached(w)' = Reached(w)
      BY <1>1 DEF Reached, Preceding
    <3>. QED  BY <1>1, <2>1, <3>1 DEF NoCrashAhead
  <2>5. NotOvertaken(w)'
    BY <1>1, <1>4, AllThrough DEF NotOvertaken, Preceding
  <2>. QED  BY <2>2, <2>3, <2>4, <2>5 DEF WorkerVerdicts
<1>. QED  BY <1>5, <1>6 DEF VerdictInv, WorkerVerdicts

\* Main writes new inputs over a chunk that nobody is in.
LEMMA FillVerdicts ==
  ASSUME RingInv, OrderInv, VerdictInv, Fill
  PROVE  VerdictInv'
<1>1. /\ mpc = "fill" /\ mpc # "killed" /\ Recycling /\ ~Refilling /\ Refilling'
      /\ UNCHANGED <<generation, remaining, outputs, idx, wpc, wgen, widx, wi, out, crashed>>
  BY DEF Fill, Recycling, Refilling, outputVars, workerVars, histVars
<1>2. idx \in Chunks
      /\ \A c \in Chunks : c # idx => inputs'[c] = inputs[c] /\ input_count'[c] = input_count[c]
  BY <1>1, OrderParts DEF Fill, TypeOK, ChunkTypes
<1>3. ASSUME NEW w \in Workers PROVE WorkerVerdicts(w)'
  <2>1. VerdictsKept(w) /\ DeathNoted(w) /\ NoCrashAhead(w) /\ NotOvertaken(w)
    BY <1>1, VerdictParts DEF WorkerVerdicts
  <2>2. VerdictsKept(w)'
    <3>1. \A d \in Chunks : \A s \in Slots : Through(w, d, s)' <=> Through(w, d, s)
      BY <1>1 DEF Through, Ahead, AtFill, Resume
    <3>2. ASSUME NEW d \in Chunks, generation'[d] > 0, ~(Refilling' /\ d = idx'),
                 NEW s \in Slots, s < input_count'[d], Through(w, d, s)'
          PROVE  outputs'[w][d][s] = Verdict(w, inputs[d][s])'
      <4>1. d # idx
        BY <1>1, <3>2
      <4>2. inputs'[d] = inputs[d] /\ input_count'[d] = input_count[d]
        BY <1>2, <4>1
      <4>3. outputs[w][d][s] = Verdict(w, inputs[d][s])
        BY <1>1, <2>1, <3>1, <3>2, <4>1, <4>2 DEF VerdictsKept
      <4>. QED  BY <1>1, <4>2, <4>3 DEF Verdict
    <3>. QED  BY <3>2 DEF VerdictsKept
  <2>3. DeathNoted(w)'
    <3>1. remaining[w][idx] = 0 /\ widx[w] \in Chunks
      BY <1>1, VerdictParts, NobodyInside
    <3>. QED  BY <1>1, <1>2, <2>1, <3>1 DEF DeathNoted
  <2>4. NoCrashAhead(w)'
    <3>1. Reached(w)' = Reached(w)
      BY <1>1 DEF Reached, Preceding
    <3>. QED  BY <1>1, <2>1, <3>1 DEF NoCrashAhead
  <2>5. NotOvertaken(w)'
    BY <1>1, <2>1 DEF NotOvertaken, Preceding
  <2>. QED  BY <2>2, <2>3, <2>4, <2>5 DEF WorkerVerdicts
<1>. QED  BY <1>1, <1>3, WrittenKept DEF VerdictInv, WorkerVerdicts

\* When a fill is published nobody has done any of it.
LEMMA PublishVerdicts ==
  ASSUME RingInv, OrderInv, VerdictInv, Publish
  PROVE  VerdictInv'
<1>1. /\ mpc = "publish" /\ mpc # "killed" /\ Recycling /\ Refilling /\ ~Refilling' /\ Filling
      /\ generation' = [generation EXCEPT ![idx] = gen]
      /\ UNCHANGED <<input_count, inputs, remaining, outputs, wpc, wgen, widx, wi, out, crashed>>
  BY DEF Publish, Recycling, Refilling, Filling, outputVars, workerVars, histVars
<1>2. /\ idx \in Chunks /\ gen \in Nat \ {0} /\ generation[idx] = gen - 1 /\ idx \in Int
      /\ \A c \in Chunks : generation'[c] = IF c = idx THEN gen ELSE generation[c]
  BY <1>1, OrderParts, ConstantsAssumption DEF MainInv, TypeOK, ChunkTypes, Chunks
<1>3. ASSUME NEW w \in Workers PROVE WorkerVerdicts(w)'
  <2>1. VerdictsKept(w) /\ DeathNoted(w) /\ NoCrashAhead(w) /\ NotOvertaken(w)
    BY <1>1, VerdictParts DEF WorkerVerdicts
  <2>2. Resume(w)' = Resume(w) /\ Reached(w)' = Reached(w)
    BY <1>1 DEF Resume, Reached, Preceding
  \* Nobody is at the new fill yet.
  <2>3. ASSUME NEW d \in Chunks, d = idx, NEW s \in Slots PROVE ~Through(w, d, s)'
    <3>1. wgen[w] \in Nat /\ widx[w] \in Int /\ (wgen[w] < gen \/ (wgen[w] = gen /\ widx[w] <= idx))
      BY <1>1, VerdictParts, ConstantsAssumption DEF WorkerPosition, Chunks
    <3>2. /\ widx[w] = idx => wpc[w] \notin {"decode", "crashed", "reaped"}
          /\ remaining[w][idx] = 0
      BY <1>1, VerdictParts, NobodyInside
    <3>3. widx[w] = idx /\ wgen[w] = gen => wpc[w] \notin {"check", "exited", "gone"}
      BY <1>1, <1>2, VerdictParts DEF WorkerPosition
    <3>4. ~(gen < wgen[w] \/ (gen = wgen[w] /\ idx < widx[w]))
      BY <1>2, <3>1
    <3>5. widx[w] = idx => Resume(w) = 0
      BY <3>2 DEF Resume
    <3>6. ~(s < 0)
      BY DEF Slots
    <3>7. ~(generation'[idx] < wgen'[w] \/ (generation'[idx] = wgen'[w] /\ idx < widx'[w]))
      BY <1>1, <1>2, <3>4
    <3>8. ~(/\ wgen'[w] = generation'[idx] /\ widx'[w] = idx
            /\ wpc'[w] \in {"check", "exited", "gone"} \/ s < Resume(w)')
      BY <1>1, <1>2, <2>2, <3>3, <3>5, <3>6
    <3>. QED  BY <2>3, <3>7, <3>8 DEF Through, Ahead, AtFill
  <2>4. VerdictsKept(w)'
    <3>1. ASSUME NEW d \in Chunks, generation'[d] > 0, NEW s \in Slots, s < input_count'[d], Through(w, d, s)'
          PROVE  outputs'[w][d][s] = Verdict(w, inputs[d][s])'
      <4>1. d # idx
        BY <2>3, <3>1
      <4>2. generation'[d] = generation[d]
        BY <1>2, <4>1
      <4>3. Through(w, d, s)
        BY <1>1, <2>2, <3>1, <4>2 DEF Through, Ahead, AtFill
      <4>4. outputs[w][d][s] = Verdict(w, inputs[d][s])
        BY <1>1, <2>1, <3>1, <4>1, <4>2, <4>3 DEF VerdictsKept
      <4>. QED  BY <1>1, <4>4 DEF Verdict
    <3>. QED  BY <3>1 DEF VerdictsKept
  <2>5. DeathNoted(w)'
    BY <1>1, <2>1 DEF DeathNoted
  <2>6. NoCrashAhead(w)'
    BY <1>1, <2>1, <2>2 DEF NoCrashAhead
  <2>7. NotOvertaken(w)'
    BY <1>1, <2>1 DEF NotOvertaken, Preceding
  <2>. QED  BY <2>4, <2>5, <2>6, <2>7 DEF WorkerVerdicts
<1>. QED  BY <1>1, <1>3, WrittenKept DEF VerdictInv, WorkerVerdicts

\* A step that changes nothing.
LEMMA StutterVerdicts ==
  ASSUME RingInv, OrderInv, VerdictInv, UNCHANGED vars
  PROVE  VerdictInv'
<1>1. UNCHANGED <<generation, input_count, inputs, remaining, outputs, mpc, idx, wpc, wgen, widx, wi, out, crashed>>
  BY DEF vars, chunkVars, outputVars, mainVars, workerVars, histVars
<1>2. ASSUME mpc # "killed", NEW v \in Workers PROVE WorkerVerdicts(v)'
  BY <1>1, <1>2, VerdictsUntouched DEF Refilling
<1>. QED  BY <1>1, <1>2, WrittenKept DEF VerdictInv, WorkerVerdicts

\* Every step keeps the verdicts.
LEMMA VerdictStep ==
  ASSUME RingInv, OrderInv, VerdictInv, [Next]_vars
  PROVE  VerdictInv'
<1>1. CASE Main
  <2>1. CASE WaitForWorkers \/ EndRestarts \/ EndProcess \/ Arm \/ JoinThreads
    BY <2>1, QuietVerdicts
  <2>2. CASE RestartWorker \/ ProcessSlot \/ Fill \/ Publish
    BY <2>2, RestartWorkerVerdicts, ProcessSlotVerdicts, FillVerdicts, PublishVerdicts
  <2>. QED  BY <1>1, <2>1, <2>2 DEF Main
<1>2. CASE \E w \in Workers : Worker(w)
  BY <1>2, WorkerStepVerdicts
<1>3. CASE SigchldHandler
  BY <1>3, HandlerVerdicts
<1>4. CASE Terminated \/ UNCHANGED vars
  BY <1>4, StutterVerdicts DEF Terminated
<1>. QED  BY <1>1, <1>2, <1>3, <1>4 DEF Next

\* What is written and what is still in the ring is what the decoders said.
THEOREM RecordInvariant == Spec => []RecordInv
<1>1. ASSUME RingInv, OrderInv, VerdictInv, [Next]_vars PROVE VerdictInv'
  BY <1>1, VerdictStep
<1>2. OrderInv /\ VerdictInv => RecordInv
  BY DEF RecordInv
<1>. QED  BY InitVerdicts, RingInvariant, OrderInvariant, <1>1, <1>2, PTL DEF Spec

\* Every written output is the verdict of that worker on that input, "crash"
\* exactly where it crashed, through every restart and reuse of a slot.
THEOREM VerdictsCorrect == Spec => []VerdictsMatchInput
<1>1. RecordInv => VerdictsMatchInput
  BY DEF RecordInv, VerdictInv
<1>. QED  BY RecordInvariant, <1>1, PTL
=============================================================================
