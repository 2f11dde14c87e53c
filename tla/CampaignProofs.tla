--------------------------- MODULE CampaignProofs ---------------------------
(***************************************************************************)
(* The proof that the ring implements a Campaign, for every number of      *)
(* workers, chunks, slots and inputs and every set of crashes, as long as  *)
(* workers are processes (in thread mode a crash ends the program and with *)
(* it the campaign).  Every worker step judges one candidate or none, the  *)
(* handler judges those of the workers it finds crashed, and main draws    *)
(* and reports; the rest changes nothing of the campaign.                  *)
(***************************************************************************)
EXTENDS CampaignRefinement, OutputStream, MishegosProofs, SequenceTheorems, WellFoundedInduction

(***************************************************************************)
(* Fills and what the mutator supplied                                     *)
(***************************************************************************)

\* One lap of the ring further, a chunk's fill is a window of candidates later.
LEMMA PrecedingLap ==
  ASSUME NEW g \in Int, NEW c \in Chunks
  PROVE  /\ NChunks * NSlots \in Nat
         /\ Preceding(g + 1, c) = Preceding(g, c) + NChunks * NSlots
         /\ Preceding(1, c) + NSlots <= NChunks * NSlots
<1>. DEFINE a == (g - 1) * NChunks + c
<1>1. NChunks \in Nat /\ NSlots \in Nat /\ c \in 0 .. NChunks - 1 /\ g - 1 \in Int
  BY ConstantsAssumption DEF Chunks
<1>2. (g - 1) * NChunks \in Int /\ a \in Int
  BY <1>1, Products
<1>3. (g + 1 - 1) * NChunks + c = a + NChunks
  <2>1. (g - 1 + 1) * NChunks = (g - 1) * NChunks + 1 * NChunks /\ 1 * NChunks = NChunks
    BY <1>1, Products
  <2>2. g + 1 - 1 = g - 1 + 1
    OBVIOUS
  <2>. QED  BY <1>1, <1>2, <2>1, <2>2
<1>4. (a + NChunks) * NSlots = a * NSlots + NChunks * NSlots
  <2>. HIDE DEF a
  <2>. QED  BY <1>1, <1>2, Products
<1>5. Preceding(g, c) = a * NSlots /\ Preceding(g + 1, c) = (a + NChunks) * NSlots
  BY <1>3 DEF Preceding
<1>6. NChunks * NSlots \in Nat
  <2>1. 0 * NSlots <= NChunks * NSlots /\ 0 * NSlots = 0 /\ NChunks * NSlots \in Int
    BY <1>1, Products
  <2>. QED  BY <2>1
<1>7. Preceding(1, c) + NSlots <= NChunks * NSlots
  <2>1. (1 - 1) * NChunks + c = c
    <3>1. 1 - 1 = 0 /\ 0 * NChunks = 0
      BY <1>1, Products
    <3>. QED  BY <1>1, <3>1
  <2>2. (c + 1) * NSlots = c * NSlots + 1 * NSlots /\ 1 * NSlots = NSlots
    BY <1>1, Products
  <2>3. (c + 1) * NSlots <= NChunks * NSlots
    <3>1. c + 1 \in Int /\ c + 1 <= NChunks
      BY <1>1
    <3>. QED  BY <1>1, <3>1, Products
  <2>. QED  BY <2>1, <2>2, <2>3 DEF Preceding
<1>. HIDE DEF a
<1>. QED  BY <1>4, <1>5, <1>6, <1>7

\* The candidates of a published fill were supplied.
LEMMA PublishedSupplied ==
  ASSUME RingInv, OrderInv, mpc # "killed", NEW c \in Chunks
  PROVE  Preceding(generation[c], c) + (IF c = exit_idx /\ ~Refilling THEN input_count[c] ELSE NSlots)
           <= supplied
<1>1. /\ generation[c] \in Int /\ gen \in Int /\ idx \in Chunks /\ supplied \in Nat /\ NSlots \in Nat
      /\ input_count[c] \in Nat /\ c \in Int /\ idx \in Int
  BY OrderParts, ConstantsAssumption DEF TypeOK, ChunkTypes, Chunks
<1>2. Preceding(generation[c], c) \in Int /\ Preceding(gen, idx) \in Int
  BY <1>1, PrecedingType
<1>3. CASE exit_idx = NoExit \/ Refilling
  <2>1. generation[c] = IF c < idx THEN gen ELSE gen - 1
    BY <1>3, OrderParts DEF MainInv, Filling, Refilling
  <2>2. Preceding(generation[c], c) + NSlots <= Preceding(gen, idx)
    <3>1. generation[c] < gen \/ (generation[c] = gen /\ c < idx)
      BY <1>1, <2>1
    <3>. QED  BY <1>1, <3>1, PrecedingGrows
  <2>3. Preceding(gen, idx) <= supplied
    <3>1. CASE exit_idx = NoExit
      BY <1>1, <1>2, <3>1, OrderParts DEF SuppliedInv
    <3>2. CASE exit_idx # NoExit
      <4>1. exit_idx = idx /\ FillOf(idx) = gen /\ input_count[idx] \in Nat
        BY <1>3, <3>2, OrderParts DEF SuppliedInv, FillOf
      <4>. QED  BY <1>1, <1>2, <3>2, <4>1, OrderParts DEF SuppliedInv
    <3>. QED  BY <3>1, <3>2
  <2>4. c # exit_idx \/ Refilling
    BY <1>3, ConstantsAssumption DEF NoExit, Chunks
  <2>. QED  BY <1>1, <1>2, <2>2, <2>3, <2>4
<1>4. CASE exit_idx # NoExit /\ ~Refilling
  <2>1. /\ exit_idx \in Chunks /\ exit_idx \in Int /\ generation[exit_idx] \in Int
        /\ input_count[exit_idx] \in Nat
    BY <1>4, OrderParts, ConstantsAssumption DEF TypeOK, MainTypes, ChunkTypes, Chunks
  <2>2. /\ FillOf(exit_idx) = generation[exit_idx]
        /\ supplied = Preceding(generation[exit_idx], exit_idx) + input_count[exit_idx]
        /\ generation[c] = generation[exit_idx] - IF c <= exit_idx THEN 0 ELSE 1
    BY <1>4, OrderParts DEF SuppliedInv, FillOf
  <2>3. CASE c = exit_idx
    BY <1>4, <2>2, <2>3
  <2>4. CASE c # exit_idx
    <3>1. generation[c] < generation[exit_idx] \/ (generation[c] = generation[exit_idx] /\ c < exit_idx)
      BY <1>1, <2>1, <2>2, <2>4
    <3>2. Preceding(generation[c], c) + NSlots <= Preceding(generation[exit_idx], exit_idx)
      BY <1>1, <2>1, <3>1, PrecedingGrows
    <3>3. Preceding(generation[exit_idx], exit_idx) \in Int
      BY <2>1, PrecedingType
    <3>. QED  BY <1>1, <1>2, <2>1, <2>2, <2>4, <3>2, <3>3
  <2>. QED  BY <2>3, <2>4
<1>. QED  BY <1>3, <1>4

(***************************************************************************)
(* No worker waits for a fill beyond the last                              *)
(***************************************************************************)

NotBeyond(w) == wgen[w] > 0 /\ Preceding(wgen[w], widx[w]) <= supplied

BeyondInv == mpc # "killed" => \A w \in Workers : NotBeyond(w)

\* A fill whose chunk was full when its worker left it was supplied in full.
LEMMA FullFillSupplied ==
  ASSUME RingInv, OrderInv, mpc # "killed", NEW w \in Workers,
         wpc[w] \in {"check", "exited", "gone"}, ~LastChunk(widx[w])
  PROVE  Preceding(wgen[w], widx[w]) + NSlots <= supplied
<1>1. /\ widx[w] \in Chunks /\ wgen[w] \in Int /\ generation[widx[w]] \in Int /\ NSlots \in Nat
      /\ generation[widx[w]] >= wgen[w] /\ supplied \in Nat
  BY OrderParts, ConstantsAssumption DEF RingInv, WorkerPosition, TypeOK, WorkerTypes, ChunkTypes
<1>2. Preceding(generation[widx[w]], widx[w]) + NSlots <= supplied
  BY <1>1, PublishedSupplied DEF LastChunk
<1>3. Preceding(generation[widx[w]], widx[w]) \in Int /\ Preceding(wgen[w], widx[w]) \in Int
  BY <1>1, PrecedingType
<1>4. CASE wgen[w] < generation[widx[w]]
  <2>1. Preceding(wgen[w], widx[w]) + NSlots <= Preceding(generation[widx[w]], widx[w])
    BY <1>1, <1>4, PrecedingGrows
  <2>. QED  BY <1>1, <1>2, <1>3, <2>1
<1>5. CASE wgen[w] = generation[widx[w]]
  BY <1>2, <1>5
<1>. QED  BY <1>1, <1>4, <1>5

\* Main only supplies more, and a worker goes on only from a full chunk.
LEMMA BeyondStep ==
  ASSUME RingInv, OrderInv, BeyondInv, [Next]_vars
  PROVE  BeyondInv'
<1>. SUFFICES ASSUME mpc' # "killed", NEW v \in Workers PROVE NotBeyond(v)'
  BY DEF BeyondInv
<1>1. mpc # "killed"
  BY DEF Next, Main, WaitForWorkers, RestartWorker, EndRestarts, ProcessSlot, EndProcess, Fill, Arm,
     Publish, JoinThreads, SigchldHandler, Worker, Load, BeginChunk, Decode, Crash, FinishChunk,
     CheckExit, Terminated, MainAlive, vars, mainVars
<1>2. /\ NotBeyond(v) /\ supplied \in Nat /\ NSlots \in Nat
      /\ wgen \in [Workers -> Nat] /\ widx \in [Workers -> Chunks]
      /\ Preceding(wgen[v], widx[v]) \in Int
  <2>1. /\ NotBeyond(v) /\ supplied \in Nat /\ NSlots \in Nat
        /\ wgen \in [Workers -> Nat] /\ widx \in [Workers -> Chunks]
    BY <1>1, OrderParts DEF BeyondInv, TypeOK, WorkerTypes
  <2>. QED  BY <2>1, PrecedingType
<1>3. CASE wgen'[v] = wgen[v] /\ widx'[v] = widx[v] /\ supplied' = supplied
  BY <1>2, <1>3 DEF NotBeyond, Preceding
<1>4. CASE Fill
  <2>1. UNCHANGED <<wgen, widx>> /\ supplied' = supplied + FillCount /\ FillCount \in 0 .. NSlots
    BY <1>1, <1>4, OrderParts, FillCountBound DEF Fill, workerVars, MainInv
  <2>2. supplied <= supplied' /\ supplied' \in Int
    BY <1>2, <2>1
  <2>3. Preceding(wgen[v], widx[v])' = Preceding(wgen[v], widx[v])
    BY <2>1 DEF Preceding
  <2>4. wgen'[v] = wgen[v]
    BY <2>1
  <2>. QED  BY <1>2, <2>2, <2>3, <2>4 DEF NotBeyond
<1>5. ASSUME NEW w \in Workers, CheckExit(w) PROVE NotBeyond(v)'
  <2>1. supplied' = supplied
    BY <1>5 DEF CheckExit, mainVars
  <2>2. CASE wgen'[v] = wgen[v] /\ widx'[v] = widx[v]
    BY <1>3, <2>1, <2>2
  <2>3. CASE v = w /\ ~LastChunk(widx[w])
    <3>1. Preceding(wgen[w], widx[w]) + NSlots <= supplied
      BY <1>1, <1>5, <2>3, FullFillSupplied DEF CheckExit
    <3>2. wgen'[v] = NextGen(wgen[v], widx[v]) /\ widx'[v] = NextIdx(widx[v])
      BY <1>2, <1>5, <2>3 DEF CheckExit
    <3>3. Preceding(wgen'[v], widx'[v]) = Preceding(wgen[v], widx[v]) + NSlots
      BY <1>2, <3>2, PrecedingNext
    <3>4. wgen'[v] > 0
      BY <1>2, <3>2 DEF NotBeyond, NextGen
    <3>. QED  BY <2>1, <2>3, <3>1, <3>3, <3>4 DEF NotBeyond, Preceding
  <2>. QED  BY <1>2, <1>5, <2>2, <2>3 DEF CheckExit
<1>6. CASE RestartWorker
  <2>1. supplied' = supplied
    BY <1>6 DEF RestartWorker
  <2>2. wgen'[v] = wgen[v] /\ widx'[v] = widx[v]
    <3>1. WorkerReaped(v)
      BY <1>1 DEF RingInv
    <3>. QED  BY <1>2, <1>6, <3>1 DEF RestartWorker, WorkerReaped
  <2>. QED  BY <1>3, <2>1, <2>2
<1>7. CASE \/ \E w \in Workers : Worker(w) /\ ~CheckExit(w)
           \/ SigchldHandler \/ (Main /\ ~RestartWorker /\ ~Fill) \/ Terminated \/ UNCHANGED vars
  <2>1. UNCHANGED <<wgen, widx, supplied>>
    BY <1>7 DEF Worker, Load, BeginChunk, Decode, Crash, FinishChunk, SigchldHandler, Main,
       WaitForWorkers, EndRestarts, ProcessSlot, EndProcess, Arm, Publish, JoinThreads,
       Terminated, vars, mainVars, workerVars
  <2>. QED  BY <1>3, <2>1
<1>. QED  BY <1>4, <1>5, <1>6, <1>7 DEF Next, Worker, Main

LEMMA InitBeyond == Init => BeyondInv
<1>. SUFFICES ASSUME Init, NEW w \in Workers PROVE NotBeyond(w)
  BY DEF BeyondInv
<1>. QED  BY PrecedingFirst DEF Init, NotBeyond

(***************************************************************************)
(* The number of candidates a worker has judged                            *)
(***************************************************************************)

CampaignInv == mpc # "killed" /\ RingInv /\ OrderInv /\ VerdictInv /\ BeyondInv

\* Everything known of a worker before a step.
LEMMA JudgedParts ==
  ASSUME CampaignInv, NEW w \in Workers
  PROVE  /\ TypeOK /\ WorkerPosition(w) /\ WorkerRemaining(w) /\ DeathNoted(w)
         /\ NoCrashAhead(w) /\ widx[w] \in Chunks /\ wgen[w] \in Nat \ {0} /\ NSlots \in Nat \ {0}
         /\ wi[w] \in 0 .. NSlots /\ input_count[widx[w]] \in 0 .. NSlots /\ supplied \in Nat
         /\ remaining[w] \in [Chunks -> 0 .. NSlots]
         /\ Preceding(wgen[w], widx[w]) \in Nat /\ Preceding(wgen[w], widx[w]) <= supplied
         /\ generation \in [Chunks -> Nat] /\ crashed \subseteq Workers \X Nat
<1>. DEFINE P == Preceding(wgen[w], widx[w])
<1>1. /\ TypeOK /\ WorkerPosition(w) /\ WorkerRemaining(w) /\ WorkerVerdicts(w)
      /\ widx[w] \in Chunks /\ wgen[w] \in Nat /\ NSlots \in Nat \ {0}
      /\ wi[w] \in 0 .. NSlots /\ input_count[widx[w]] \in 0 .. NSlots /\ supplied \in Nat
      /\ remaining[w] \in [Chunks -> 0 .. NSlots] /\ P \in Int /\ Len(out) \in Nat
      /\ generation \in [Chunks -> Nat] /\ crashed \subseteq Workers \X Nat
  BY VerdictParts, OrderParts, ConstantsAssumption DEF CampaignInv
<1>2. P <= supplied
  BY DEF CampaignInv, BeyondInv, NotBeyond
<1>3. wgen[w] > 0
  BY DEF CampaignInv, BeyondInv, NotBeyond
<1>4. P >= 0
  <2>1. 0 \in Chunks
    BY ConstantsAssumption DEF Chunks
  <2>2. CASE wgen[w] = 1 /\ widx[w] = 0
    BY <2>2, PrecedingFirst
  <2>3. CASE ~(wgen[w] = 1 /\ widx[w] = 0)
    <3>1. 1 < wgen[w] \/ (1 = wgen[w] /\ 0 < widx[w])
      <4>1. widx[w] \in 0 .. NChunks - 1 /\ NChunks \in Nat
        BY <1>1, ConstantsAssumption DEF Chunks
      <4>. QED  BY <1>1, <1>3, <2>3, <4>1
    <3>2. Preceding(1, 0) + NSlots <= P
      <4>1. 1 \in Int /\ wgen[w] \in Int
        BY <1>1
      <4>. QED  BY <1>1, <2>1, <3>1, <4>1, PrecedingGrows
    <3>. QED  BY <1>1, <3>2, PrecedingFirst
  <2>. QED  BY <2>2, <2>3
<1>. QED  BY <1>1, <1>2, <1>3, <1>4 DEF WorkerVerdicts


\* The number of candidates a worker has judged, from where it stands.
LEMMA JudgedIs ==
  ASSUME CampaignInv, NEW w \in Workers
  PROVE  LET P == Preceding(wgen[w], widx[w]) IN
         /\ Judged(w) \in Nat
         /\ wpc[w] \in {"decode", "crashed"} => Judged(w) = P + wi[w]
         /\ wpc[w] \in {"check", "exited", "gone"} => Judged(w) = AtMost(P + NSlots, supplied)
         /\ wpc[w] \notin {"decode", "crashed", "check", "exited", "gone"} =>
              Judged(w) = P + StartSlot(w, widx[w])
<1>. DEFINE P == Preceding(wgen[w], widx[w])
<1>1. /\ P \in Nat /\ wi[w] \in Nat /\ NSlots \in Nat /\ supplied \in Nat
      /\ TypeOK /\ WorkerRemaining(w)
  BY JudgedParts
<1>2. StartSlot(w, widx[w]) \in Nat
  <2>1. StartSlot(w, widx[w]) \in 0 .. input_count[widx[w]] /\ input_count[widx[w]] \in Nat
    BY <1>1, JudgedParts, StartSlotInChunk
  <2>. QED  BY <2>1
<1>3. AtMost(P + NSlots, supplied) \in Nat
  BY <1>1 DEF AtMost
<1>4. CASE wpc[w] \in {"decode", "crashed"}
  <2>1. Judged(w) = P + wi[w]
    BY <1>4 DEF Judged
  <2>. QED  BY <1>1, <1>4, <2>1
<1>5. CASE wpc[w] \in {"check", "exited", "gone"}
  <2>1. Judged(w) = AtMost(P + NSlots, supplied)
    BY <1>5 DEF Judged
  <2>. QED  BY <1>3, <1>5, <2>1
<1>6. CASE wpc[w] \notin {"decode", "crashed", "check", "exited", "gone"}
  <2>1. Judged(w) = P + StartSlot(w, widx[w])
    BY <1>6 DEF Judged
  <2>. QED  BY <1>1, <1>2, <1>6, <2>1
<1>. QED  BY <1>4, <1>5, <1>6

\* Worker w judged nothing, or its next candidate, and takes nothing back.
JudgedStep(w) ==
  /\ Judged(w)' = Judged(w) \/ (Judged(w)' = Judged(w) + 1 /\ Judged(w) < supplied)
  /\ \A n \in 1 .. Judged(w) : VerdictOn(w, n)' = VerdictOn(w, n)

LEMMA JudgedSame ==
  ASSUME NEW w \in Workers, crashed' = crashed,
         UNCHANGED <<input_count, supplied>>,
         remaining'[w] = remaining[w], wgen'[w] = wgen[w], widx'[w] = widx[w], wi'[w] = wi[w],
         \/ wpc'[w] = wpc[w]
         \/ {wpc'[w], wpc[w]} \subseteq {"check", "exited", "gone"}
         \/ {wpc'[w], wpc[w]} \cap {"decode", "crashed", "check", "exited", "gone"} = {}
  PROVE  JudgedStep(w)
<1>1. Preceding(wgen[w], widx[w])' = Preceding(wgen[w], widx[w])
  BY DEF Preceding
<1>2. StartSlot(w, widx[w])' = StartSlot(w, widx[w])
  BY DEF StartSlot
<1>3. AtMost(Preceding(wgen[w], widx[w]) + NSlots, supplied)'
        = AtMost(Preceding(wgen[w], widx[w]) + NSlots, supplied)
  BY <1>1 DEF AtMost
<1>4. Judged(w)' = Judged(w)
  BY <1>1, <1>2, <1>3 DEF Judged
<1>. QED  BY <1>4 DEF JudgedStep, VerdictOn

LEMMA LoadJudges ==
  ASSUME CampaignInv, NEW w \in Workers, Load(w)
  PROVE  JudgedStep(w)
<1>1. wpc \in [Workers -> WorkerPc]
  BY JudgedParts DEF TypeOK, WorkerTypes
<1>. QED  BY <1>1, JudgedSame DEF Load, chunkVars, outputVars, mainVars, histVars

LEMMA BeginChunkJudges ==
  ASSUME CampaignInv, NEW w \in Workers, BeginChunk(w)
  PROVE  JudgedStep(w)
<1>1. /\ wpc \in [Workers -> WorkerPc] /\ wi \in [Workers -> 0 .. NSlots]
      /\ wpc[w] = "wait" /\ wpc'[w] = "decode" /\ wi'[w] = StartSlot(w, widx[w])
      /\ UNCHANGED <<wgen, widx, crashed>>
  BY JudgedParts DEF TypeOK, WorkerTypes, BeginChunk, histVars
<1>2. Judged(w) = Preceding(wgen[w], widx[w]) + StartSlot(w, widx[w])
  BY <1>1 DEF Judged
<1>3. Judged(w)' = Preceding(wgen[w], widx[w])' + wi'[w]
  BY <1>1 DEF Judged
<1>4. Preceding(wgen[w], widx[w])' = Preceding(wgen[w], widx[w])
  BY <1>1 DEF Preceding
<1>. QED  BY <1>1, <1>2, <1>3, <1>4 DEF JudgedStep, VerdictOn

\* The candidate a worker is at was supplied.
LEMMA AtSupplied ==
  ASSUME CampaignInv, NEW w \in Workers, wpc[w] \in {"decode", "crashed"},
         wi[w] < input_count[widx[w]]
  PROVE  Preceding(wgen[w], widx[w]) + wi[w] < supplied
<1>1. /\ generation[widx[w]] = wgen[w] /\ widx[w] \in Chunks
      /\ Preceding(wgen[w], widx[w]) \in Nat /\ wi[w] \in Nat
      /\ input_count[widx[w]] \in 0 .. NSlots /\ NSlots \in Nat /\ supplied \in Nat
  BY JudgedParts DEF WorkerPosition
<1>2. Preceding(wgen[w], widx[w]) + (IF widx[w] = exit_idx /\ ~Refilling
                                     THEN input_count[widx[w]] ELSE NSlots) <= supplied
  BY <1>1, PublishedSupplied DEF CampaignInv
<1>. QED  BY <1>1, <1>2

LEMMA DecodeJudges ==
  ASSUME CampaignInv, NEW w \in Workers, Decode(w)
  PROVE  JudgedStep(w)
<1>1. /\ wpc[w] = "decode" /\ wpc'[w] = "decode" /\ wi'[w] = wi[w] + 1
      /\ wi[w] < input_count[widx[w]] /\ UNCHANGED <<wgen, widx, crashed>>
  <2>1. wi \in [Workers -> 0 .. NSlots]
    BY JudgedParts DEF TypeOK, WorkerTypes
  <2>. QED  BY <2>1 DEF Decode, histVars
<1>2. Judged(w) = Preceding(wgen[w], widx[w]) + wi[w]
  BY <1>1 DEF Judged
<1>3. Judged(w)' = Preceding(wgen[w], widx[w])' + wi'[w]
  BY <1>1 DEF Judged
<1>4. Preceding(wgen[w], widx[w])' = Preceding(wgen[w], widx[w])
  BY <1>1 DEF Preceding
<1>5. Judged(w)' = Judged(w) + 1
  BY <1>1, <1>2, <1>3, <1>4, JudgedParts
<1>. QED  BY <1>1, <1>2, <1>5, AtSupplied DEF JudgedStep, VerdictOn

\* The verdict on a crash is the handler's: the worker noted none yet.
LEMMA CrashJudges ==
  ASSUME CampaignInv, NEW w \in Workers, Crash(w), ~ThreadMode
  PROVE  JudgedStep(w)
<1>1. /\ wpc[w] = "decode" /\ wpc'[w] = "crashed" /\ wi'[w] = wi[w]
      /\ wi[w] < input_count[widx[w]] /\ UNCHANGED <<wgen, widx>>
      /\ crashed' = crashed \cup {<<w, inputs[widx[w]][wi[w]]>>}
  <2>1. wpc \in [Workers -> WorkerPc]
    BY JudgedParts DEF TypeOK, WorkerTypes
  <2>. QED  BY <2>1 DEF Crash
<1>2. Judged(w) = Preceding(wgen[w], widx[w]) + wi[w]
  BY <1>1 DEF Judged
<1>3. Judged(w)' = Preceding(wgen[w], widx[w])' + wi'[w]
  BY <1>1 DEF Judged
<1>4. Preceding(wgen[w], widx[w])' = Preceding(wgen[w], widx[w])
  BY <1>1 DEF Preceding
<1>5. inputs[widx[w]][wi[w]] = Judged(w) + 1
  <2>1. wi[w] \in Slots
    BY <1>1, JudgedParts DEF Slots
  <2>. QED  BY <1>1, <1>2, <2>1, InsideFill DEF CampaignInv
<1>6. Judged(w) \in Nat
  BY JudgedIs
<1>7. \A n \in 1 .. Judged(w) : VerdictOn(w, n)' = VerdictOn(w, n)
  BY <1>1, <1>5, <1>6 DEF VerdictOn
<1>. QED  BY <1>1, <1>2, <1>3, <1>4, <1>7 DEF JudgedStep


\* A worker gives its chunk back when it judged all of it, in the last chunk all
\* the mutator supplied.
LEMMA FinishChunkJudges ==
  ASSUME CampaignInv, NEW w \in Workers, FinishChunk(w)
  PROVE  JudgedStep(w)
<1>. DEFINE c == widx[w]
            P == Preceding(wgen[w], c)
<1>1. /\ wpc[w] = "decode" /\ wpc'[w] = "check" /\ wi[w] >= input_count[c]
      /\ UNCHANGED <<wgen, widx, supplied, crashed>>
  <2>1. wpc \in [Workers -> WorkerPc]
    BY JudgedParts DEF TypeOK, WorkerTypes
  <2>. QED  BY <2>1 DEF FinishChunk, mainVars, histVars
<1>2. /\ c \in Chunks /\ P \in Nat /\ wi[w] \in Nat /\ input_count[c] \in 0 .. NSlots
      /\ NSlots \in Nat /\ supplied \in Nat /\ remaining[w][c] \in 0 .. NSlots
      /\ wgen[w] > 0
  BY JudgedParts
<1>3. /\ generation[c] = wgen[w] /\ ~(Refilling /\ c = idx)
      /\ remaining[w][c] = input_count[c] - wi[w]
  BY <1>1, InsideFill DEF CampaignInv, AtFill
<1>4. wi[w] = input_count[c]
  BY <1>1, <1>2, <1>3
<1>5. Judged(w) = P + input_count[c]
  BY <1>1, <1>4 DEF Judged
<1>6. Judged(w)' = AtMost(P + NSlots, supplied)
  <2>1. P' = P
    BY <1>1 DEF Preceding
  <2>. QED  BY <1>1, <2>1 DEF Judged, AtMost
<1>7. P + input_count[c] = AtMost(P + NSlots, supplied)
  <2>1. CASE c = exit_idx
    <3>1. ~Refilling /\ exit_idx # NoExit
      BY <1>2, <1>3, <2>1, OrderParts, ConstantsAssumption DEF CampaignInv, SuppliedInv, NoExit, Chunks
    <3>2. FillOf(c) = wgen[w]
      BY <1>3, <3>1 DEF FillOf
    <3>3. supplied = P + input_count[c]
      BY <2>1, <3>1, <3>2, OrderParts DEF CampaignInv, SuppliedInv
    <3>. QED  BY <1>2, <3>3 DEF AtMost
  <2>2. CASE c # exit_idx
    <3>1. P + NSlots <= supplied
      BY <1>2, <1>3, <2>2, PublishedSupplied DEF CampaignInv
    <3>2. input_count[c] = NSlots
      <4>1. FillOf(c) = wgen[w]
        BY <1>3 DEF FillOf
      <4>. QED  BY <1>2, <2>2, <4>1, OrderParts DEF CampaignInv, ContentInv
    <3>. QED  BY <1>2, <3>1, <3>2 DEF AtMost
  <2>. QED  BY <2>1, <2>2
<1>. QED  BY <1>1, <1>5, <1>6, <1>7 DEF JudgedStep, VerdictOn

LEMMA CheckExitJudges ==
  ASSUME CampaignInv, NEW w \in Workers, CheckExit(w)
  PROVE  JudgedStep(w)
<1>. DEFINE c == widx[w]
            P == Preceding(wgen[w], c)
<1>1. /\ wpc \in [Workers -> WorkerPc] /\ widx \in [Workers -> Chunks] /\ wgen \in [Workers -> Nat]
      /\ wpc[w] = "check" /\ UNCHANGED <<input_count, remaining, supplied, crashed, wi>>
  BY JudgedParts DEF TypeOK, WorkerTypes, CheckExit, chunkVars, outputVars, mainVars, histVars
<1>2. CASE LastChunk(c)
  <2>1. wpc'[w] = "exited" /\ UNCHANGED <<wgen, widx>>
    BY <1>1, <1>2 DEF CheckExit
  <2>. QED  BY <1>1, <2>1, JudgedSame
<1>3. CASE ~LastChunk(c)
  <2>1. wpc'[w] = "wait" /\ widx'[w] = NextIdx(c) /\ wgen'[w] = NextGen(wgen[w], c)
    BY <1>1, <1>3 DEF CheckExit
  <2>2. /\ c \in Chunks /\ P \in Nat /\ NSlots \in Nat /\ supplied \in Nat /\ NextIdx(c) \in Chunks
        /\ wgen[w] \in Int
    BY <1>1, JudgedParts, NextInRing
  <2>3. P + NSlots <= supplied
    BY <1>1, <1>3, FullFillSupplied DEF CampaignInv
  <2>4. Judged(w) = P + NSlots
    BY <1>1, <2>2, <2>3 DEF Judged, AtMost
  <2>5. Preceding(wgen'[w], widx'[w]) = P + NSlots
    BY <2>1, <2>2, PrecedingNext
  <2>6. remaining[w][NextIdx(c)] = 0
    BY <1>1, <2>2, JudgedParts DEF WorkerRemaining
  <2>7. StartSlot(w, widx[w])' = 0
    BY <1>1, <2>1, <2>6 DEF StartSlot
  <2>8. Judged(w)' = P + NSlots + 0
    <3>1. Judged(w)' = Preceding(wgen[w], widx[w])' + StartSlot(w, widx[w])'
      BY <2>1 DEF Judged
    <3>2. Preceding(wgen[w], widx[w])' = Preceding(wgen'[w], widx'[w])
      BY DEF Preceding
    <3>. QED  BY <2>5, <2>7, <3>1, <3>2
  <2>9. Judged(w)' = Judged(w)
    BY <2>2, <2>4, <2>8
  <2>. QED  BY <1>1, <2>9 DEF JudgedStep, VerdictOn
<1>. QED  BY <1>2, <1>3

LEMMA WorkerJudges ==
  ASSUME CampaignInv, ~ThreadMode, NEW w \in Workers, Worker(w), NEW v \in Workers
  PROVE  JudgedStep(v)
<1>1. CASE v = w
  BY <1>1, LoadJudges, BeginChunkJudges, DecodeJudges, CrashJudges, FinishChunkJudges,
     CheckExitJudges DEF Worker
<1>2. CASE v # w
  <2>1. /\ wpc \in [Workers -> WorkerPc] /\ widx \in [Workers -> Chunks] /\ wgen \in [Workers -> Nat]
        /\ wi \in [Workers -> 0 .. NSlots] /\ remaining \in [Workers -> [Chunks -> 0 .. NSlots]]
    BY JudgedParts DEF TypeOK, WorkerTypes, OutputTypes
  <2>2. /\ UNCHANGED <<input_count, supplied>>
        /\ wpc'[v] = wpc[v] /\ widx'[v] = widx[v] /\ wgen'[v] = wgen[v]
        /\ wi'[v] = wi[v] /\ remaining'[v] = remaining[v]
    BY <1>2, <2>1 DEF Worker, Load, BeginChunk, Decode, Crash, FinishChunk, CheckExit,
       chunkVars, outputVars, mainVars
  <2>3. CASE crashed' = crashed
    BY <2>2, <2>3, JudgedSame
  <2>4. CASE crashed' # crashed
    <3>1. \E n : crashed' = crashed \cup {<<w, n>>}
      BY <2>4 DEF Worker, Load, BeginChunk, Decode, Crash, FinishChunk, CheckExit, histVars
    <3>2. \A n : VerdictOn(v, n)' = VerdictOn(v, n)
      BY <1>2, <3>1 DEF VerdictOn
    <3>3. Preceding(wgen[v], widx[v])' = Preceding(wgen[v], widx[v])
      BY <2>2 DEF Preceding
    <3>4. StartSlot(v, widx[v])' = StartSlot(v, widx[v])
      BY <2>2 DEF StartSlot
    <3>5. Judged(v)' = Judged(v)
      BY <2>2, <3>3, <3>4 DEF Judged, AtMost
    <3>. QED  BY <3>2, <3>5 DEF JudgedStep
  <2>. QED  BY <2>3, <2>4
<1>. QED  BY <1>1, <1>2

\* The crashed workers the handler finds get the verdict of their candidate.
LEMMA HandlerJudges ==
  ASSUME CampaignInv, SigchldHandler, NEW w \in Workers
  PROVE  JudgedStep(w)
<1>1. /\ UNCHANGED <<input_count, supplied, remaining, wgen, widx, wi, crashed>>
      /\ wpc'[w] = CASE w \in FoundCrashed -> "reaped"
                     [] w \in Zombies \ FoundCrashed ->
                          IF wpc[w] = "failed" THEN "lost" ELSE "gone"
                     [] OTHER -> wpc[w]
  BY DEF SigchldHandler, mainVars, histVars
<1>2. TypeOK /\ WorkerRemaining(w)
  BY JudgedParts
<1>3. CASE w \in FoundCrashed /\ wpc[w] = "crashed"
  <2>1. CrashSlot(w) = wi[w] /\ CrashChunk(w) = widx[w] /\ Unfinished(w) = {widx[w]}
    BY <1>2, <1>3, CrashFound
  <2>2. remaining[w][widx[w]] # 0
    BY <2>1 DEF Unfinished
  <2>3. /\ remaining[w][widx[w]] = input_count[widx[w]] - wi[w]
        /\ wi[w] \in Nat /\ input_count[widx[w]] \in Nat /\ remaining[w][widx[w]] \in Nat
        /\ Preceding(wgen[w], widx[w]) \in Nat
    BY <2>2, JudgedParts DEF WorkerRemaining
  <2>4. wi[w] < input_count[widx[w]]
    BY <2>2, <2>3
  <2>5. StartSlot(w, widx[w])' = wi[w] + 1
    BY <1>1, <2>2, <2>3 DEF StartSlot
  <2>6. Judged(w) = Preceding(wgen[w], widx[w]) + wi[w]
    BY <1>3 DEF Judged
  <2>7. Judged(w)' = Preceding(wgen[w], widx[w])' + StartSlot(w, widx[w])'
    <3>1. wpc'[w] = "reaped"
      BY <1>1, <1>3
    <3>. QED  BY <3>1 DEF Judged
  <2>8. Preceding(wgen[w], widx[w])' = Preceding(wgen[w], widx[w])
    BY <1>1 DEF Preceding
  <2>9. Judged(w)' = Judged(w) + 1
    BY <2>3, <2>5, <2>6, <2>7, <2>8
  <2>. QED  BY <1>1, <1>3, <2>4, <2>6, <2>9, AtSupplied DEF JudgedStep, VerdictOn
<1>4. CASE w \in FoundCrashed /\ wpc[w] # "crashed"
  <2>1. wpc[w] = "failed" /\ wpc'[w] = "reaped"
    BY <1>1, <1>2, <1>4, CrashFound
  <2>. QED  BY <1>1, <2>1, JudgedSame
<1>5. CASE w \in Zombies \ FoundCrashed
  <2>1. wpc[w] # "crashed"
    BY <1>2, <1>5, JudgedParts DEF WorkerRemaining, FoundCrashed, Unfinished
  <2>2. \/ wpc[w] = "failed" /\ wpc'[w] = "lost"
        \/ wpc[w] = "exited" /\ wpc'[w] = "gone"
    BY <1>1, <1>5, <2>1 DEF Zombies
  <2>. QED  BY <1>1, <2>2, JudgedSame
<1>6. CASE w \notin FoundCrashed /\ w \notin Zombies
  <2>1. wpc'[w] = wpc[w]
    BY <1>1, <1>6
  <2>. QED  BY <1>1, <2>1, JudgedSame
<1>. QED  BY <1>3, <1>4, <1>5, <1>6

\* Main judges nothing.
LEMMA MainJudges ==
  ASSUME CampaignInv, Main, NEW w \in Workers
  PROVE  Judged(w)' = Judged(w) /\ crashed' = crashed
<1>1. CASE Fill
  <2>. DEFINE P == Preceding(wgen[w], widx[w])
  <2>1. /\ UNCHANGED <<wpc, wgen, widx, wi, remaining, crashed>>
        /\ input_count' = [input_count EXCEPT ![idx] = FillCount]
        /\ supplied' = supplied + FillCount /\ exit_idx = NoExit /\ mpc = "fill"
    BY <1>1, OrderParts DEF CampaignInv, Fill, workerVars, outputVars, histVars, NewCount, MainInv
  <2>2. supplied \in Nat /\ FillCount \in Nat
    BY OrderParts, FillCountBound DEF CampaignInv, MainInv
  <2>3. P' = P /\ P \in Nat /\ NSlots \in Nat
    BY <2>1, JudgedParts DEF Preceding
  <2>4. CASE wpc[w] \in {"check", "exited", "gone"}
    <3>1. ~LastChunk(widx[w])
      <4>1. /\ widx[w] \in Chunks /\ wgen[w] > 0 /\ wgen[w] \in Nat
            /\ generation[widx[w]] >= wgen[w] /\ generation[widx[w]] \in Nat
        BY <2>4, JudgedParts DEF WorkerPosition
      <4>2. FillOf(widx[w]) = generation[widx[w]]
        BY <2>1 DEF FillOf, Refilling
      <4>3. widx[w] # exit_idx
        BY <2>1, <4>1, ConstantsAssumption DEF NoExit, Chunks
      <4>4. input_count[widx[w]] = NSlots
        BY <4>1, <4>2, <4>3, OrderParts DEF CampaignInv, ContentInv
      <4>. QED  BY <4>4 DEF LastChunk
    <3>2. P + NSlots <= supplied
      BY <2>4, <3>1, FullFillSupplied DEF CampaignInv
    <3>3. AtMost(P + NSlots, supplied)' = P + NSlots /\ AtMost(P + NSlots, supplied) = P + NSlots
      BY <2>1, <2>2, <2>3, <3>2 DEF AtMost
    <3>. QED  BY <2>1, <2>3, <2>4, <3>3 DEF Judged, AtMost
  <2>5. CASE wpc[w] \in {"decode", "crashed"}
    BY <2>1, <2>3, <2>5 DEF Judged
  <2>6. CASE wpc[w] \notin {"decode", "crashed", "check", "exited", "gone"}
    <3>1. StartSlot(w, widx[w])' = StartSlot(w, widx[w])
      <4>1. remaining[w][idx] = 0
        BY <2>1, JudgedParts, OrderParts, NobodyInside DEF CampaignInv, Recycling
      <4>2. input_count \in [Chunks -> 0 .. NSlots]
        BY JudgedParts DEF TypeOK, ChunkTypes
      <4>3. CASE widx[w] = idx
        BY <2>1, <4>1, <4>3 DEF StartSlot
      <4>4. CASE widx[w] # idx
        BY <2>1, <4>2, <4>4 DEF StartSlot
      <4>. QED  BY <4>3, <4>4
    <3>. QED  BY <2>1, <2>3, <2>6, <3>1 DEF Judged
  <2>. QED  BY <2>1, <2>4, <2>5, <2>6
<1>2. CASE RestartWorker
  <2>1. /\ UNCHANGED <<wi, remaining, crashed, input_count, supplied>>
        /\ wgen'[w] = wgen[w] /\ widx'[w] = widx[w]
        /\ wpc'[w] = wpc[w] \/ (wpc[w] = "reaped" /\ wpc'[w] = "load")
    <3>1. WorkerReaped(w)
      BY DEF CampaignInv, RingInv
    <3>2. /\ wgen \in [Workers -> Nat] /\ widx \in [Workers -> Chunks]
          /\ wpc \in [Workers -> WorkerPc]
      BY JudgedParts DEF TypeOK, WorkerTypes
    <3>. QED  BY <1>2, <3>1, <3>2 DEF RestartWorker, WorkerReaped, outputVars, histVars
  <2>2. Preceding(wgen[w], widx[w])' = Preceding(wgen[w], widx[w])
    BY <2>1 DEF Preceding
  <2>3. StartSlot(w, widx[w])' = StartSlot(w, widx[w])
    BY <2>1 DEF StartSlot
  <2>. QED  BY <2>1, <2>2, <2>3 DEF Judged, AtMost
<1>3. CASE Main /\ ~Fill /\ ~RestartWorker
  <2>1. UNCHANGED <<input_count, remaining, wpc, wgen, widx, wi, crashed, supplied>>
    BY <1>3 DEF Main, WaitForWorkers, EndRestarts, ProcessSlot, EndProcess, Arm, Publish,
       JoinThreads, chunkVars, outputVars, workerVars, histVars
  <2>2. Preceding(wgen[w], widx[w])' = Preceding(wgen[w], widx[w])
    BY <2>1 DEF Preceding
  <2>3. StartSlot(w, widx[w])' = StartSlot(w, widx[w])
    BY <2>1 DEF StartSlot
  <2>. QED  BY <2>1, <2>2, <2>3 DEF Judged, AtMost
<1>. QED  BY <1>1, <1>2, <1>3


(***************************************************************************)
(* The steps of the campaign                                               *)
(***************************************************************************)

LEMMA SequenceOf ==
  ASSUME NEW S, NEW k \in Nat, NEW s \in [1 .. k -> S]
  PROVE  s \in Seq(S) /\ Len(s) = k
<1>1. s \in Seq(S)
  BY SeqDef
<1>2. Len(s) \in Nat /\ DOMAIN s = 1 .. Len(s) /\ DOMAIN s = 1 .. k
  BY <1>1, LenProperties
<1>3. Len(s) = k
  <2>1. CASE Len(s) < k
    <3>1. k \in 1 .. k /\ k \notin 1 .. Len(s)
      BY <1>2, <2>1
    <3>. QED  BY <1>2, <3>1
  <2>2. CASE Len(s) > k
    <3>1. Len(s) \in 1 .. Len(s) /\ Len(s) \notin 1 .. k
      BY <1>2, <2>2
    <3>. QED  BY <1>2, <3>1
  <2>. QED  BY <1>2, <2>1, <2>2
<1>. QED  BY <1>1, <1>3

\* A function from 1 .. k with one value more is the sequence with it appended.
LEMMA OneMore ==
  ASSUME NEW S, NEW k \in Nat, NEW s \in [1 .. k -> S], NEW t \in [1 .. k + 1 -> S],
         \A n \in 1 .. k : t[n] = s[n]
  PROVE  t = Append(s, t[k + 1])
<1>. DEFINE u == Append(s, t[k + 1])
<1>1. s \in Seq(S) /\ Len(s) = k /\ t \in Seq(S) /\ Len(t) = k + 1
  BY SequenceOf
<1>2. t[k + 1] \in S
  OBVIOUS
<1>3. /\ u \in Seq(S) /\ Len(u) = k + 1 /\ u[k + 1] = t[k + 1]
      /\ \A n \in 1 .. k : u[n] = s[n]
  BY <1>1, <1>2, AppendProperties
<1>4. \A n \in 1 .. k + 1 : t[n] = u[n]
  <2>. SUFFICES ASSUME NEW n \in 1 .. k + 1 PROVE t[n] = u[n]
    OBVIOUS
  <2>. HIDE DEF u
  <2>1. CASE n = k + 1
    BY <1>3, <2>1
  <2>2. CASE n \in 1 .. k
    BY <1>3, <2>2
  <2>. QED  BY <2>1, <2>2
<1>. HIDE DEF u
<1>5. t = u
  BY <1>1, <1>3, <1>4, SeqEqual
<1>. QED  BY <1>5 DEF u

LEMMA VerdictsAre ==
  ASSUME CampaignInv, NEW w \in Workers
  PROVE  /\ VerdictsOf(w) \in [1 .. Judged(w) -> C!Verdict]
         /\ Len(Verdicts[w]) = Judged(w) /\ Judged(w) \in Nat
         /\ Verdicts[w] = VerdictsOf(w)
<1>1. Judged(w) \in Nat
  BY JudgedIs
<1>2. VerdictsOf(w) \in [1 .. Judged(w) -> C!Verdict]
  BY DEF VerdictsOf, VerdictOn, C!Verdict
<1>3. Verdicts[w] = VerdictsOf(w)
  BY DEF Verdicts
<1>. QED  BY <1>1, <1>2, <1>3, SequenceOf

LEMMA NoStepOfWorker ==
  ASSUME NEW w \in Workers, Judged(w)' = Judged(w),
         \A n \in 1 .. Judged(w) : VerdictOn(w, n)' = VerdictOn(w, n)
  PROVE  VerdictsOf(w)' = VerdictsOf(w)
BY DEF VerdictsOf

LEMMA StepOfWorker ==
  ASSUME CampaignInv, NEW w \in Workers, JudgedStep(w), Judged(w)' = Judged(w) + 1
  PROVE  \E v \in C!Verdict : VerdictsOf(w)' = Append(VerdictsOf(w), v)
<1>. DEFINE k == Judged(w)
            s == VerdictsOf(w)
            t == VerdictsOf(w)'
<1>1. k \in Nat /\ s \in [1 .. k -> C!Verdict]
  BY VerdictsAre
<1>2. t \in [1 .. k + 1 -> C!Verdict]
  BY DEF VerdictsOf, VerdictOn, C!Verdict
<1>3. \A n \in 1 .. k : t[n] = s[n]
  <2>. SUFFICES ASSUME NEW n \in 1 .. k PROVE t[n] = s[n]
    OBVIOUS
  <2>1. n \in 1 .. k + 1
    BY <1>1
  <2>. QED  BY <2>1 DEF VerdictsOf, JudgedStep
<1>4. t[k + 1] \in C!Verdict
  BY <1>1, <1>2
<1>. HIDE DEF k, s, t
<1>5. t = Append(s, t[k + 1])
  BY <1>1, <1>2, <1>3, OneMore
<1>. QED  BY <1>4, <1>5 DEF s, t

\* The workers whose count grew are the ones that judge in a step of the campaign.
LEMMA WorkersStep ==
  ASSUME CampaignInv, UNCHANGED <<supplied, out>>, \A w \in Workers : JudgedStep(w)
  PROVE  [C!Next]_C!vars
<1>. DEFINE W == {w \in Workers : Judged(w)' # Judged(w)}
<1>1. Cohorts' = Cohorts
  BY DEF Cohorts, CohortAt
<1>2. \A w \in Workers \ W : VerdictsOf(w)' = VerdictsOf(w)
  BY NoStepOfWorker DEF JudgedStep
<1>3. \A w \in W : /\ w \in {x \in Workers : Len(Verdicts[x]) < supplied}
                   /\ \E v \in C!Verdict : VerdictsOf(w)' = Append(VerdictsOf(w), v)
  <2>. SUFFICES ASSUME NEW w \in W
                PROVE  /\ Len(Verdicts[w]) < supplied
                       /\ \E v \in C!Verdict : VerdictsOf(w)' = Append(VerdictsOf(w), v)
    OBVIOUS
  <2>1. Judged(w)' = Judged(w) + 1 /\ Judged(w) < supplied
    BY DEF JudgedStep
  <2>. QED  BY <2>1, StepOfWorker, VerdictsAre
<1>4. CASE W = {}
  <2>1. Verdicts' = Verdicts
    BY <1>2, <1>4 DEF Verdicts
  <2>. QED  BY <1>1, <2>1 DEF C!vars
<1>5. CASE W # {}
  <2>. DEFINE v == [w \in W |-> CHOOSE x \in C!Verdict : VerdictsOf(w)' = Append(VerdictsOf(w), x)]
  <2>1. \A w \in W : v[w] \in C!Verdict /\ VerdictsOf(w)' = Append(VerdictsOf(w), v[w])
    BY <1>3
  <2>2. v \in [W -> C!Verdict]
    BY <2>1
  <2>. HIDE DEF v
  <2>3. Verdicts' = [w \in Workers |-> IF w \in W THEN Append(Verdicts[w], v[w]) ELSE Verdicts[w]]
    <3>1. \A w \in Workers :
            VerdictsOf(w)' = IF w \in W THEN Append(Verdicts[w], v[w]) ELSE Verdicts[w]
      BY <1>2, <2>1 DEF Verdicts
    <3>. HIDE DEF W
    <3>. QED  BY <3>1 DEF Verdicts
  <2>4. W \in (SUBSET {w \in Workers : Len(Verdicts[w]) < supplied}) \ {{}}
    <3>1. W \subseteq {w \in Workers : Len(Verdicts[w]) < supplied}
      <4>. SUFFICES ASSUME NEW w \in W PROVE w \in {x \in Workers : Len(Verdicts[x]) < supplied}
        OBVIOUS
      <4>. QED  BY <1>3
    <3>. HIDE DEF W
    <3>. QED  BY <1>5, <3>1
  <2>. HIDE DEF W
  <2>5. C!Judge
    BY <1>1, <2>2, <2>3, <2>4 DEF C!Judge
  <2>. QED  BY <2>5 DEF C!Next
<1>. QED  BY <1>4, <1>5

LEMMA CohortsAre ==
  ASSUME CampaignInv
  PROVE  Len(Cohorts) = Len(out) /\ Len(out) \in Nat
<1>1. Len(out) \in Nat
  BY DEF CampaignInv, RingInv, TypeOK, HistTypes
<1>2. Cohorts \in [1 .. Len(out) -> {CohortAt(k) : k \in 1 .. Len(out)}]
  BY DEF Cohorts
<1>. QED  BY <1>1, <1>2, SequenceOf

LEMMA MainLeavesVerdicts ==
  ASSUME CampaignInv, Main
  PROVE  Verdicts' = Verdicts
<1>1. \A w \in Workers : VerdictsOf(w)' = VerdictsOf(w)
  BY MainJudges, NoStepOfWorker DEF VerdictOn
<1>. QED  BY <1>1 DEF Verdicts

\* A fill draws its inputs, if the mutator has any left.
LEMMA FillDraws ==
  ASSUME CampaignInv, Fill
  PROVE  [C!Next]_C!vars
<1>1. /\ supplied' = supplied + FillCount /\ out' = out /\ mpc = "fill" /\ exit_idx = NoExit
  BY OrderParts DEF CampaignInv, Fill, histVars, MainInv
<1>2. Verdicts' = Verdicts /\ Cohorts' = Cohorts
  BY <1>1, MainLeavesVerdicts DEF Main, Cohorts, CohortAt
<1>3. /\ supplied \in Nat /\ FillCount \in 0 .. NSlots /\ supplied + FillCount <= TotalInputs
      /\ TotalInputs \in Nat /\ NSlots \in Nat
  BY OrderParts, FillCountBound, ConstantsAssumption DEF CampaignInv, MainInv
<1>4. supplied + FillCount <= Len(Cohorts) + NChunks * NSlots
  <2>1. supplied = Preceding(gen, idx) /\ Len(out) = IF gen = 1 THEN 0 ELSE Reported + NSlots
    BY <1>1, <1>3, OrderParts, PrecedingType DEF CampaignInv, SuppliedInv, ReportedInv, Refilling
  <2>2. /\ gen \in Nat \ {0} /\ gen \in Int /\ gen - 1 \in Int /\ idx \in Chunks
        /\ NChunks * NSlots \in Nat
    <3>1. gen \in Nat \ {0} /\ idx \in Chunks
      BY OrderParts DEF CampaignInv
    <3>. QED  BY <3>1, PrecedingLap
  <2>3. CASE gen = 1
    <3>1. Preceding(1, idx) + NSlots <= NChunks * NSlots /\ Preceding(1, idx) \in Int
      BY <2>2, PrecedingLap, PrecedingType
    <3>. QED  BY <1>3, <2>1, <2>2, <2>3, <3>1, CohortsAre
  <2>4. CASE gen # 1
    <3>1. Preceding(gen - 1, idx) \in Int /\ Preceding(gen, idx) \in Int
      BY <2>2, PrecedingType
    <3>2. Preceding(gen, idx) = Preceding(gen - 1, idx) + NChunks * NSlots
      <4>1. gen - 1 + 1 = gen
        BY <2>2
      <4>. QED  BY <2>2, <4>1, PrecedingLap
    <3>3. Len(Cohorts) = Preceding(gen - 1, idx) + NSlots
      BY <2>1, <2>4, CohortsAre DEF Reported
    <3>. HIDE DEF FillCount
    <3>. QED  BY <1>3, <2>1, <2>2, <3>1, <3>2, <3>3
  <2>. QED  BY <2>3, <2>4
<1>5. CASE FillCount = 0
  <2>1. supplied' = supplied
    BY <1>1, <1>3, <1>5
  <2>. QED  BY <1>2, <2>1 DEF C!vars
<1>6. CASE FillCount # 0
  <2>1. supplied' \in supplied + 1 .. TotalInputs /\ supplied' <= Len(Cohorts) + NChunks * NSlots
    BY <1>1, <1>3, <1>4, <1>6
  <2>2. C!Draw
    BY <1>2, <2>1 DEF C!Draw
  <2>. QED  BY <2>2 DEF C!Next
<1>. QED  BY <1>5, <1>6

\* A slot is reported once every worker judged it, with the verdicts it gave.
LEMMA SlotReports ==
  ASSUME CampaignInv, ProcessSlot
  PROVE  [C!Next]_C!vars
<1>. DEFINE n == Len(out) + 1
            cohort == [input |-> n, outs |-> [w \in Workers |-> Verdicts[w][n]]]
<1>1. /\ mpc = "process" /\ Reportable /\ supplied' = supplied
      /\ out' = Append(out, [input |-> inputs[idx][i],
                             outs |-> [w \in Workers |-> outputs[w][idx][i]]])
  BY DEF ProcessSlot
<1>2. /\ i \in Slots /\ generation[idx] = gen - 1 /\ inputs[idx][i] = n
      /\ Len(out) = Preceding(gen - 1, idx) + i /\ FillOf(idx) = gen - 1
  BY <1>1, NextReported DEF CampaignInv
<1>3. Verdicts' = Verdicts
  BY MainLeavesVerdicts DEF Main
<1>4. n <= supplied /\ n \in Nat /\ supplied \in Nat
  <2>1. /\ Preceding(gen - 1, idx) + (IF idx = exit_idx /\ ~Refilling
                                      THEN input_count[idx] ELSE NSlots) <= supplied
    BY <1>2, OrderParts, PublishedSupplied DEF CampaignInv
  <2>2. /\ i \in Nat /\ i < NSlots /\ i < input_count[idx] /\ input_count[idx] \in Nat
        /\ NSlots \in Nat /\ supplied \in Nat /\ Len(out) \in Nat
    <3>1. i < input_count[idx]
      BY <1>1 DEF Reportable
    <3>2. NSlots \in Nat /\ i \in Nat /\ i < NSlots
      BY <1>2, OrderParts DEF CampaignInv, Slots
    <3>. QED  BY <3>1, <3>2, OrderParts, CohortsAre DEF CampaignInv
  <2>3. Preceding(gen - 1, idx) \in Int
    <3>1. gen - 1 \in Int /\ idx \in Chunks
      BY OrderParts DEF CampaignInv
    <3>. QED  BY <3>1, PrecedingType
  <2>. QED  BY <1>2, <2>1, <2>2, <2>3
<1>5. \A w \in Workers : n <= Judged(w) /\ Verdicts[w][n] = outputs[w][idx][i].status
  <2>. SUFFICES ASSUME NEW w \in Workers
                PROVE  n <= Judged(w) /\ Verdicts[w][n] = outputs[w][idx][i].status
    OBVIOUS
  <2>. DEFINE P == Preceding(wgen[w], widx[w])
  <2>1. /\ outputs[w][idx][i] = Verdict(w, n)
        /\ n <= P + IF wpc[w] \in {"check", "exited", "gone"} THEN NSlots ELSE 0
    BY <1>1, <1>2, AllThrough DEF CampaignInv
  <2>2. /\ P \in Nat /\ NSlots \in Nat /\ supplied \in Nat /\ wi[w] \in Nat
        /\ StartSlot(w, widx[w]) \in Nat
    <3>1. StartSlot(w, widx[w]) \in 0 .. input_count[widx[w]] /\ input_count[widx[w]] \in Nat
      BY JudgedParts, StartSlotInChunk
    <3>. QED  BY <3>1, JudgedParts
  <2>3. n <= Judged(w)
    <3>1. CASE wpc[w] \in {"check", "exited", "gone"}
      <4>1. Judged(w) = AtMost(P + NSlots, supplied)
        BY <3>1, JudgedIs
      <4>. QED  BY <1>4, <2>1, <3>1, <4>1 DEF AtMost
    <3>2. CASE wpc[w] \in {"decode", "crashed"}
      <4>1. Judged(w) = P + wi[w]
        BY <3>2, JudgedIs
      <4>. QED  BY <1>4, <2>1, <2>2, <3>2, <4>1
    <3>3. CASE wpc[w] \notin {"decode", "crashed", "check", "exited", "gone"}
      <4>1. Judged(w) = P + StartSlot(w, widx[w])
        BY <3>3, JudgedIs
      <4>. QED  BY <1>4, <2>1, <2>2, <3>3, <4>1
    <3>. QED  BY <3>1, <3>2, <3>3
  <2>4. n \in 1 .. Judged(w)
    BY <1>4, <2>3, VerdictsAre, CohortsAre
  <2>5. Verdicts[w][n] = VerdictOn(w, n)
    BY <2>4 DEF Verdicts, VerdictsOf
  <2>. QED  BY <2>1, <2>3, <2>5 DEF Verdict, VerdictOn
<1>6. Cohorts' = Append(Cohorts, cohort)
  <2>. DEFINE S == {CohortAt(k) : k \in 1 .. Len(out)} \cup {cohort}
              s == Cohorts
              t == Cohorts'
  <2>1. Len(out) \in Nat /\ out \in Seq([input : Nat, outs : [Workers -> OutputSlots]])
    BY DEF CampaignInv, RingInv, TypeOK, HistTypes
  <2>2. /\ Len(out') = Len(out) + 1
        /\ \A k \in 1 .. Len(out) : out'[k] = out[k]
        /\ out'[Len(out) + 1] = [input |-> inputs[idx][i],
                                 outs |-> [w \in Workers |-> outputs[w][idx][i]]]
    BY <1>1, <2>1
  <2>3. \A k \in 1 .. Len(out) : CohortAt(k)' = CohortAt(k)
    BY <2>2 DEF CohortAt
  <2>4. \A k \in Nat : k = Len(out) + 1 => CohortAt(k)' = cohort
    <3>. SUFFICES ASSUME NEW k \in Nat, k = Len(out) + 1 PROVE CohortAt(k)' = cohort
      OBVIOUS
    <3>1. CohortAt(k)' = [input |-> out'[k].input,
                          outs |-> [w \in Workers |-> out'[k].outs[w].status]]
      BY DEF CohortAt
    <3>2. out'[k].input = n /\ \A w \in Workers : out'[k].outs[w].status = Verdicts[w][n]
      BY <1>2, <1>5, <2>2
    <3>. QED  BY <3>1, <3>2
  <2>5. s \in [1 .. Len(out) -> S]
    BY DEF Cohorts
  <2>6. t = [k \in 1 .. Len(out) + 1 |-> IF k = Len(out) + 1 THEN cohort ELSE CohortAt(k)]
    <3>1. Len(out') = Len(out) + 1 /\ \A k \in 1 .. Len(out) + 1 : k \in Nat
      BY <2>1, <2>2
    <3>2. \A k \in 1 .. Len(out) + 1 :
            CohortAt(k)' = IF k = Len(out) + 1 THEN cohort ELSE CohortAt(k)
      <4>. HIDE DEF cohort
      <4>. QED  BY <2>1, <2>3, <2>4, <3>1
    <3>. HIDE DEF cohort
    <3>. QED  BY <3>1, <3>2 DEF Cohorts
  <2>7. /\ t \in [1 .. Len(out) + 1 -> S] /\ t[Len(out) + 1] = cohort
        /\ \A k \in 1 .. Len(out) : t[k] = s[k]
    <3>. HIDE DEF cohort
    <3>. QED  BY <2>1, <2>6 DEF Cohorts
  <2>. HIDE DEF s, t, S, cohort
  <2>8. t = Append(s, t[Len(out) + 1])
    BY <2>1, <2>5, <2>7, OneMore
  <2>. QED  BY <2>7, <2>8 DEF s, t
<1>7. C!Report
  <2>1. Len(Cohorts) + 1 = n
    BY CohortsAre
  <2>2. \A w \in Workers : n <= Len(Verdicts[w])
    BY <1>5, VerdictsAre
  <2>. HIDE DEF n
  <2>. QED  BY <1>1, <1>3, <1>4, <1>6, <2>1, <2>2 DEF C!Report
<1>. QED  BY <1>7 DEF C!Next

LEMMA OtherMainSteps ==
  ASSUME CampaignInv, Main, ~Fill, ~ProcessSlot
  PROVE  [C!Next]_C!vars
<1>1. UNCHANGED <<supplied, out>>
  BY DEF Main, WaitForWorkers, RestartWorker, EndRestarts, EndProcess, Arm, Publish, JoinThreads,
     histVars
<1>2. Cohorts' = Cohorts
  BY <1>1 DEF Cohorts, CohortAt
<1>. QED  BY <1>1, <1>2, MainLeavesVerdicts DEF C!vars

LEMMA CampaignStep ==
  ASSUME CampaignInv, ~ThreadMode, [Next]_vars
  PROVE  [C!Next]_C!vars
<1>1. CASE Main
  BY <1>1, FillDraws, SlotReports, OtherMainSteps
<1>2. CASE SigchldHandler
  <2>1. UNCHANGED <<supplied, out>>
    BY <1>2 DEF SigchldHandler, mainVars, histVars
  <2>. QED  BY <1>2, <2>1, HandlerJudges, WorkersStep
<1>3. ASSUME NEW w \in Workers, Worker(w) PROVE [C!Next]_C!vars
  <2>1. UNCHANGED <<supplied, out>>
    BY <1>3 DEF Worker, Load, BeginChunk, Decode, Crash, FinishChunk, CheckExit, mainVars, histVars
  <2>. QED  BY <1>3, <2>1, WorkerJudges, WorkersStep
<1>4. CASE Terminated \/ UNCHANGED vars
  <2>1. \A w \in Workers : JudgedStep(w)
    BY <1>4, JudgedSame DEF Terminated, vars, chunkVars, outputVars, mainVars, workerVars, histVars
  <2>2. UNCHANGED <<supplied, out>>
    BY <1>4 DEF Terminated, vars, mainVars, histVars
  <2>. QED  BY <2>1, <2>2, WorkersStep
<1>. QED  BY <1>1, <1>2, <1>3, <1>4 DEF Next

LEMMA InitCampaign == Init => C!Init
<1>. SUFFICES ASSUME Init PROVE C!Init
  OBVIOUS
<1>1. \A w \in Workers : Judged(w) = 0
  <2>. SUFFICES ASSUME NEW w \in Workers PROVE Judged(w) = 0
    OBVIOUS
  <2>1. wpc[w] = "load" /\ wgen[w] = 1 /\ widx[w] = 0 /\ remaining[w][0] = 0
    BY ConstantsAssumption DEF Init, Chunks
  <2>2. StartSlot(w, widx[w]) = 0
    BY <2>1 DEF StartSlot
  <2>3. Judged(w) = Preceding(1, 0) + 0
    BY <2>1, <2>2 DEF Judged
  <2>. QED  BY <2>3, PrecedingFirst
<1>2. \A w \in Workers : VerdictsOf(w) = <<>>
  BY <1>1 DEF VerdictsOf
<1>3. Cohorts = <<>>
  BY DEF Init, Cohorts
<1>. QED  BY <1>2, <1>3 DEF Init, C!Init, Verdicts

\* What is known of the campaign in every state of it.
LEMMA CampaignAlways == ASSUME ~ThreadMode PROVE Spec => []CampaignInv
<1>1. Init => mpc # "killed"
  BY DEF Init
<1>2. mpc # "killed" /\ [Next]_vars => (mpc # "killed")'
  BY DEF Next, Main, WaitForWorkers, RestartWorker, EndRestarts, ProcessSlot, EndProcess, Fill, Arm,
     Publish, JoinThreads, SigchldHandler, Worker, Load, BeginChunk, Decode, Crash, FinishChunk,
     CheckExit, Terminated, MainAlive, AfterRestarts, vars, mainVars
<1>3. RingInv /\ OrderInv /\ BeyondInv /\ [Next]_vars => BeyondInv'
  BY BeyondStep
<1>4. RecordInv => OrderInv /\ VerdictInv
  BY DEF RecordInv
<1>5. mpc # "killed" /\ RingInv /\ OrderInv /\ VerdictInv /\ BeyondInv => CampaignInv
  BY DEF CampaignInv
<1>. QED  BY <1>1, <1>2, <1>3, <1>4, <1>5, InitBeyond, RingInvariant, RecordInvariant, PTL DEF Spec

\* With processes for workers, and whatever crashes and restarts there are, the
\* ring is a campaign: what it draws, judges and reports is what Campaign says.
THEOREM RingImplementsCampaign ==
  ASSUME ~ThreadMode
  PROVE  Spec => ImplementsCampaign
<1>1. CampaignInv /\ [Next]_vars => [C!Next]_C!vars
  BY CampaignStep
<1>. QED  BY <1>1, InitCampaign, CampaignAlways, PTL DEF Spec, ImplementsCampaign, C!Spec

-----------------------------------------------------------------------------
(***************************************************************************)
(* OutputStream: for every number of workers, chunks, slots and inputs,    *)
(* every buffer and every set of crashes, a StreamSpec is a Spec of the    *)
(* ring with the parts of the stream beside it; what main writes follows   *)
(* from the order of its cohorts (RecordProofs).                           *)
(***************************************************************************)

(***************************************************************************)
(* Induction                                                               *)
(***************************************************************************)

\* A set of numbers has a least one.
LEMMA LeastNatural ==
  ASSUME NEW T, T \subseteq Nat, T # {}
  PROVE  \E x \in T : \A y \in T : x <= y
<1>. DEFINE R == OpToRel(<, Nat)
<1>1. \E x \in T : \A y \in T : <<y, x>> \notin R
  BY WFMin, NatLessThanWellFounded
<1>2. \A x, y \in Nat : x < y => <<x, y>> \in R
  BY DEF OpToRel
<1>. HIDE DEF R
<1>3. PICK x \in T : \A y \in T : <<y, x>> \notin R
  BY <1>1
<1>4. \A y \in T : ~(y < x) /\ y \in Nat /\ x \in Nat
  BY <1>2, <1>3
<1>. QED  BY <1>4

\* A set of numbers with 0 and the successor of each is all of them.
LEMMA Induction ==
  ASSUME NEW T, T \subseteq Nat, 0 \in T, \A n \in T : n + 1 \in T
  PROVE  T = Nat
<1>. SUFFICES ASSUME Nat \ T # {} PROVE FALSE
  OBVIOUS
<1>1. PICK n \in Nat \ T : \A k \in Nat \ T : n <= k
  BY LeastNatural
<1>2. n # 0 /\ n - 1 \in Nat /\ n - 1 \in T
  BY <1>1
<1>. QED  BY <1>2

(***************************************************************************)
(* What one writer wrote                                                   *)
(***************************************************************************)

Part  == [input : Nat, part : Nat]
Entry == [input : Nat, part : Nat, by : Int]

\* The recursive function exists.
LEMMA WrittenUpToIs ==
  ASSUME NEW s, NEW w, Len(s) \in Nat
  PROVE  WrittenUpTo(s, w) =
           [n \in 0 .. Len(s) |->
              IF n = 0 THEN <<>>
              ELSE IF s[n].by = w THEN Append(WrittenUpTo(s, w)[n - 1], s[n])
                   ELSE WrittenUpTo(s, w)[n - 1]]
<1>. DEFINE Upto(g, k) == g = [n \in 0 .. k |->
                                 IF n = 0 THEN <<>>
                                 ELSE IF s[n].by = w THEN Append(g[n - 1], s[n]) ELSE g[n - 1]]
            T == {k \in Nat : \E g : Upto(g, k)}
<1>1. 0 \in T
  <2>1. Upto([n \in 0 .. 0 |-> <<>>], 0)
    OBVIOUS
  <2>. QED  BY <2>1
<1>2. ASSUME NEW k \in T PROVE k + 1 \in T
  <2>1. PICK g : Upto(g, k)
    BY <1>2
  <2>. DEFINE h == [n \in 0 .. k + 1 |->
                      IF n <= k THEN g[n]
                      ELSE IF s[k + 1].by = w THEN Append(g[k], s[k + 1]) ELSE g[k]]
  <2>2. k \in Nat
    BY <1>2
  <2>3. ASSUME NEW n \in 0 .. k + 1
        PROVE  h[n] = IF n = 0 THEN <<>>
                      ELSE IF s[n].by = w THEN Append(h[n - 1], s[n]) ELSE h[n - 1]
    <3>1. CASE n = k + 1
      <4>1. n # 0 /\ n - 1 = k /\ h[n - 1] = g[k] /\ ~(n <= k)
        BY <2>2, <3>1
      <4>. QED  BY <3>1, <4>1
    <3>2. CASE n # k + 1
      <4>1. n \in 0 .. k /\ n <= k /\ h[n] = g[n]
        BY <2>2, <3>2
      <4>2. n # 0 => n - 1 \in 0 .. k /\ n - 1 <= k /\ h[n - 1] = g[n - 1]
        BY <2>2, <4>1
      <4>3. g[n] = IF n = 0 THEN <<>>
                   ELSE IF s[n].by = w THEN Append(g[n - 1], s[n]) ELSE g[n - 1]
        BY <2>1, <4>1
      <4>. QED  BY <4>1, <4>2, <4>3
    <3>. QED  BY <3>1, <3>2
  <2>4. DOMAIN h = 0 .. k + 1 /\ h = [n \in 0 .. k + 1 |-> h[n]]
    OBVIOUS
  <2>. HIDE DEF h
  <2>5. Upto(h, k + 1)
    BY <2>3, <2>4
  <2>. QED  BY <2>2, <2>5
<1>. HIDE DEF Upto
<1>3. \E g : Upto(g, Len(s))
  <2>1. T \subseteq Nat
    OBVIOUS
  <2>. HIDE DEF T
  <2>2. T = Nat
    BY <1>1, <1>2, <2>1, Induction
  <2>. QED  BY <2>2 DEF T
<1>4. Upto(CHOOSE g : Upto(g, Len(s)), Len(s))
  BY <1>3, Zenon
<1>5. WrittenUpTo(s, w) = CHOOSE g : Upto(g, Len(s))
  BY Zenon DEF WrittenUpTo, Upto
<1>6. Upto(WrittenUpTo(s, w), Len(s))
  BY <1>4, <1>5, Zenon
<1>. QED  BY <1>6, Zenon DEF Upto

\* One step of it.
LEMMA WrittenUpToStep ==
  ASSUME NEW s, NEW w, Len(s) \in Nat, NEW n \in 0 .. Len(s)
  PROVE  WrittenUpTo(s, w)[n] =
           IF n = 0 THEN <<>>
           ELSE IF s[n].by = w THEN Append(WrittenUpTo(s, w)[n - 1], s[n])
                ELSE WrittenUpTo(s, w)[n - 1]
<1>. DEFINE f == WrittenUpTo(s, w)
<1>1. f = [k \in 0 .. Len(s) |->
             IF k = 0 THEN <<>> ELSE IF s[k].by = w THEN Append(f[k - 1], s[k]) ELSE f[k - 1]]
  BY WrittenUpToIs
<1>. HIDE DEF f
<1>2. f[n] = IF n = 0 THEN <<>> ELSE IF s[n].by = w THEN Append(f[n - 1], s[n]) ELSE f[n - 1]
  BY <1>1
<1>. QED  BY <1>2 DEF f

\* Nothing is written in an empty file.
LEMMA WrittenByNothing == ASSUME NEW w PROVE WrittenBy(<<>>, w) = <<>>
<1>1. Len(<<>>) = 0
  OBVIOUS
<1>2. WrittenUpTo(<<>>, w)[0] = <<>>
  <2>1. Len(<<>>) \in Nat /\ 0 \in 0 .. Len(<<>>)
    BY <1>1
  <2>. QED  BY <2>1, WrittenUpToStep
<1>. QED  BY <1>1, <1>2 DEF WrittenBy

\* What was written is a sequence of entries.
LEMMA WrittenByType ==
  ASSUME NEW s \in Seq(Entry), NEW w
  PROVE  WrittenBy(s, w) \in Seq(Entry)
<1>. DEFINE f == WrittenUpTo(s, w)
            T == {n \in Nat : n <= Len(s) => f[n] \in Seq(Entry)}
<1>1. Len(s) \in Nat /\ (\A n \in 1 .. Len(s) : s[n] \in Entry)
  BY LenProperties, ElementOfSeq
<1>2. 0 \in T
  <2>1. f[0] = <<>>
    BY <1>1, WrittenUpToStep
  <2>2. <<>> \in Seq(Entry)
    BY EmptySeq
  <2>. QED  BY <2>1, <2>2
<1>3. ASSUME NEW n \in T PROVE n + 1 \in T
  <2>. SUFFICES ASSUME n + 1 <= Len(s) PROVE f[n + 1] \in Seq(Entry)
    BY <1>3
  <2>1. n \in Nat /\ f[n] \in Seq(Entry) /\ n + 1 \in 0 .. Len(s) /\ s[n + 1] \in Entry
    BY <1>1, <1>3
  <2>2. n + 1 # 0 /\ (n + 1) - 1 = n
    BY <2>1
  <2>3. f[n + 1] = IF s[n + 1].by = w THEN Append(f[n], s[n + 1]) ELSE f[n]
    BY <1>1, <2>1, <2>2, WrittenUpToStep
  <2>. HIDE DEF f
  <2>. QED  BY <2>1, <2>3, AppendProperties
<1>4. T \subseteq Nat
  OBVIOUS
<1>. HIDE DEF T
<1>5. T = Nat
  BY <1>2, <1>3, <1>4, Induction
<1>6. f[Len(s)] \in Seq(Entry)
  BY <1>1, <1>5 DEF T
<1>. QED  BY <1>6 DEF WrittenBy

\* One more entry.
LEMMA WrittenByAppend ==
  ASSUME NEW s \in Seq(Entry), NEW e \in Entry, NEW w
  PROVE  WrittenBy(Append(s, e), w) =
           IF e.by = w THEN Append(WrittenBy(s, w), e) ELSE WrittenBy(s, w)
<1>. DEFINE t == Append(s, e)
            f == WrittenUpTo(s, w)
            g == WrittenUpTo(t, w)
            T == {n \in Nat : n <= Len(s) => g[n] = f[n]}
<1>1. /\ Len(s) \in Nat /\ Len(t) = Len(s) + 1 /\ t[Len(s) + 1] = e
      /\ \A n \in 1 .. Len(s) : t[n] = s[n]
  BY LenProperties, AppendProperties
<1>. HIDE DEF t
<1>2. 0 \in T
  <2>1. f[0] = <<>> /\ g[0] = <<>>
    BY <1>1, WrittenUpToStep
  <2>. QED  BY <2>1
<1>3. ASSUME NEW n \in T PROVE n + 1 \in T
  <2>. SUFFICES ASSUME n + 1 <= Len(s) PROVE g[n + 1] = f[n + 1]
    BY <1>3
  <2>1. n \in Nat /\ g[n] = f[n] /\ n + 1 \in 0 .. Len(s) /\ n + 1 \in 0 .. Len(t)
        /\ t[n + 1] = s[n + 1]
    BY <1>1, <1>3
  <2>2. n + 1 # 0 /\ (n + 1) - 1 = n /\ Len(t) \in Nat
    BY <1>1, <2>1
  <2>3. f[n + 1] = IF s[n + 1].by = w THEN Append(f[n], s[n + 1]) ELSE f[n]
    BY <1>1, <2>1, <2>2, WrittenUpToStep
  <2>4. g[n + 1] = IF t[n + 1].by = w THEN Append(g[n], t[n + 1]) ELSE g[n]
    BY <1>1, <2>1, <2>2, WrittenUpToStep
  <2>. HIDE DEF f, g
  <2>. QED  BY <2>1, <2>3, <2>4
<1>4. T \subseteq Nat
  OBVIOUS
<1>. HIDE DEF T
<1>5. T = Nat
  BY <1>2, <1>3, <1>4, Induction
<1>6. g[Len(s)] = f[Len(s)]
  BY <1>1, <1>5 DEF T
<1>7. g[Len(s) + 1] = IF e.by = w THEN Append(g[Len(s)], e) ELSE g[Len(s)]
  <2>1. Len(s) + 1 \in 0 .. Len(t) /\ Len(s) + 1 # 0 /\ (Len(s) + 1) - 1 = Len(s) /\ Len(t) \in Nat
    BY <1>1
  <2>. QED  BY <1>1, <2>1, WrittenUpToStep
<1>8. WrittenBy(t, w) = g[Len(s) + 1] /\ WrittenBy(s, w) = f[Len(s)]
  BY <1>1 DEF WrittenBy
<1>. HIDE DEF f, g
<1>. QED  BY <1>6, <1>7, <1>8 DEF t

\* More entries of one writer.
LEMMA WrittenByConcat ==
  ASSUME NEW s \in Seq(Entry), NEW t \in Seq(Entry), NEW b \in Int, NEW w \in Int,
         \A k \in 1 .. Len(t) : t[k].by = b
  PROVE  WrittenBy(s \o t, w) = IF b = w THEN WrittenBy(s, w) \o t ELSE WrittenBy(s, w)
<1>. DEFINE first(k) == SubSeq(t, 1, k)
            Holds0(k) == WrittenBy(s \o first(k), w) =
                           IF b = w THEN WrittenBy(s, w) \o first(k) ELSE WrittenBy(s, w)
            T == {k \in Nat : k <= Len(t) => Holds0(k)}
<1>1. Len(t) \in Nat /\ (\A k \in 1 .. Len(t) : t[k] \in Entry) /\ WrittenBy(s, w) \in Seq(Entry)
  BY LenProperties, ElementOfSeq, WrittenByType
<1>2. \A k \in 0 .. Len(t) : first(k) \in Seq(Entry)
  BY <1>1, SubSeqProperties
<1>3. 0 \in T
  <2>1. first(0) = <<>>
    BY SubSeqEmpty
  <2>2. s \o <<>> = s /\ WrittenBy(s, w) \o <<>> = WrittenBy(s, w)
    BY <1>1, ConcatEmptySeq
  <2>3. Holds0(0)
    BY <2>1, <2>2, Zenon
  <2>. QED  BY <2>3
<1>4. ASSUME NEW k \in T PROVE k + 1 \in T
  <2>. SUFFICES ASSUME k + 1 <= Len(t) PROVE Holds0(k + 1)
    BY <1>4
  <2>1. k \in Nat /\ k \in 0 .. Len(t) /\ k + 1 \in 1 .. Len(t) /\ Holds0(k)
    BY <1>1, <1>4
  <2>. DEFINE e == t[k + 1]
  <2>2. e \in Entry /\ e.by = b /\ first(k) \in Seq(Entry)
    BY <1>1, <1>2, <2>1
  <2>3. first(k + 1) = Append(first(k), e)
    <3>1. (k + 1) - 1 = k /\ 1 \in 1 .. Len(t) /\ k + 1 \in 1 .. Len(t)
      BY <1>1, <2>1
    <3>2. SubSeq(t, 1, k + 1) = SubSeq(t, 1, (k + 1) - 1) \o <<t[k + 1]>>
      BY <3>1, SubSeqRecursiveSecond
    <3>3. Append(first(k), e) = first(k) \o <<e>>
      BY <2>2, AppendIsConcat
    <3>. QED  BY <3>1, <3>2, <3>3
  <2>. HIDE DEF first, e
  <2>4. \A u \in Seq(Entry) : u \o Append(first(k), e) = Append(u \o first(k), e)
    <3>. TAKE u \in Seq(Entry)
    <3>1. <<e>> \in Seq(Entry)
      BY <2>2
    <3>2. u \o first(k) \in Seq(Entry)
      BY <2>2, ConcatProperties
    <3>3. Append(u \o first(k), e) = (u \o first(k)) \o <<e>>
      BY <2>2, <3>2, AppendIsConcat
    <3>4. Append(first(k), e) = first(k) \o <<e>>
      BY <2>2, AppendIsConcat
    <3>5. (u \o first(k)) \o <<e>> = u \o (first(k) \o <<e>>)
      BY <2>2, <3>1, ConcatAssociative, SMTT(30)
    <3>. QED  BY <3>3, <3>4, <3>5
  <2>5. s \o first(k) \in Seq(Entry)
    BY <2>2, ConcatProperties
  <2>6. WrittenBy(Append(s \o first(k), e), w) =
          IF b = w THEN Append(WrittenBy(s \o first(k), w), e) ELSE WrittenBy(s \o first(k), w)
    BY <2>2, <2>5, WrittenByAppend
  <2>7. s \o first(k + 1) = Append(s \o first(k), e)
    BY <2>3, <2>4
  <2>8. WrittenBy(s, w) \o first(k + 1) = Append(WrittenBy(s, w) \o first(k), e)
    BY <1>1, <2>3, <2>4
  <2>. QED  BY <2>1, <2>6, <2>7, <2>8
<1>5. T \subseteq Nat
  OBVIOUS
<1>. HIDE DEF T
<1>6. T = Nat
  BY <1>3, <1>4, <1>5, Induction
<1>7. Holds0(Len(t))
  BY <1>1, <1>6 DEF T
<1>8. first(Len(t)) = t
  BY SubSeqFull
<1>. QED  BY <1>7, <1>8

(***************************************************************************)
(* Parts                                                                   *)
(***************************************************************************)

Stamped(e, b) == [input |-> e.input, part |-> e.part, by |-> b]

\* Parts in a file are entries, as many and in the same order.
LEMMA WrittenType ==
  ASSUME NEW p \in Seq(Part), NEW b \in Int
  PROVE  /\ Written(p, b) \in Seq(Entry) /\ Len(Written(p, b)) = Len(p)
         /\ \A k \in 1 .. Len(p) : Written(p, b)[k] = Stamped(p[k], b)
         /\ \A k \in 1 .. Len(Written(p, b)) : Written(p, b)[k].by = b
<1>1. Len(p) \in Nat /\ (\A k \in 1 .. Len(p) : p[k] \in Part)
  BY LenProperties, ElementOfSeq
<1>2. \A k \in 1 .. Len(p) : Stamped(p[k], b) \in Entry /\ Stamped(p[k], b).by = b
  BY <1>1 DEF Part, Entry, Stamped
<1>3. Written(p, b) = [k \in 1 .. Len(p) |-> Stamped(p[k], b)]
  BY DEF Written, Stamped
<1>4. Written(p, b) \in [1 .. Len(p) -> Entry]
  BY <1>2, <1>3
<1>5. Written(p, b) \in Seq(Entry) /\ Len(Written(p, b)) = Len(p)
  BY <1>1, <1>4, SequenceOf
<1>. QED  BY <1>2, <1>3, <1>5

\* One part more.
LEMMA WrittenAppend ==
  ASSUME NEW p \in Seq(Part), NEW e \in Part, NEW b \in Int
  PROVE  Written(Append(p, e), b) = Append(Written(p, b), Stamped(e, b))
<1>1. /\ Append(p, e) \in Seq(Part) /\ Len(Append(p, e)) = Len(p) + 1 /\ Len(p) \in Nat
      /\ Append(p, e)[Len(p) + 1] = e
      /\ \A k \in 1 .. Len(p) : Append(p, e)[k] = p[k]
  BY LenProperties, AppendProperties
<1>. DEFINE u == Written(Append(p, e), b)
            v == Written(p, b)
            x == Stamped(e, b)
<1>2. /\ u \in Seq(Entry) /\ Len(u) = Len(p) + 1
      /\ \A k \in 1 .. Len(p) + 1 : u[k] = Stamped(Append(p, e)[k], b)
  BY <1>1, WrittenType
<1>3. /\ v \in Seq(Entry) /\ Len(v) = Len(p)
      /\ \A k \in 1 .. Len(p) : v[k] = Stamped(p[k], b)
  BY WrittenType
<1>4. x \in Entry
  BY DEF Part, Entry, Stamped
<1>5. /\ Append(v, x) \in Seq(Entry) /\ Len(Append(v, x)) = Len(p) + 1
      /\ Append(v, x)[Len(p) + 1] = x
      /\ \A k \in 1 .. Len(p) : Append(v, x)[k] = v[k]
  BY <1>3, <1>4, AppendProperties
<1>6. \A k \in 1 .. Len(p) + 1 : u[k] = Append(v, x)[k]
  <2>. TAKE k \in 1 .. Len(p) + 1
  <2>1. CASE k = Len(p) + 1
    BY <1>1, <1>2, <1>5, <2>1
  <2>2. CASE k \in 1 .. Len(p)
    BY <1>1, <1>2, <1>3, <1>5, <2>2
  <2>3. k = Len(p) + 1 \/ k \in 1 .. Len(p)
    <3>. HIDE DEF u, v, x
    <3>. QED  BY <1>1
  <2>. QED  BY <2>1, <2>2, <2>3, Zenon
<1>. HIDE DEF u, v, x
<1>7. u = Append(v, x)
  BY <1>2, <1>5, <1>6, SeqEqual
<1>. QED  BY <1>7 DEF u, v, x

\* No part, no entry.
LEMMA WrittenNothing == ASSUME NEW b \in Int PROVE Written(<<>>, b) = <<>>
<1>1. <<>> \in Seq(Part)
  BY EmptySeq
<1>2. Written(<<>>, b) \in Seq(Entry) /\ Len(Written(<<>>, b)) = 0
  BY <1>1, WrittenType
<1>. QED  BY <1>2, EmptySeq

\* The parts of n cohorts, and p more.
Parts(n, p) ==
  [k \in 1 .. n * CohortParts + p |->
     PartOf(1 + (k - 1) \div CohortParts, 1 + ((k - 1) % CohortParts))]

\* A cohort has parts.
LEMMA CohortPartsType == CohortParts \in Nat \ {0}
  BY ConstantsAssumption DEF CohortParts

\* The quotient and the remainder.
LEMMA Euclid ==
  ASSUME NEW c \in Nat \ {0}, NEW x \in Nat
  PROVE  /\ x \div c \in Int /\ x % c \in 0 .. c - 1
         /\ x = (x \div c) * c + (x % c)
<1>1. x \div c \in Int /\ x % c \in 0 .. c - 1
  OBVIOUS
<1>2. x = c * (x \div c) + (x % c)
  OBVIOUS
<1>3. c * (x \div c) = (x \div c) * c
  BY <1>1
<1>. QED  BY <1>1, <1>2, <1>3

\* Where the k-th part of all is.
LEMMA PartAt ==
  ASSUME NEW c \in Nat \ {0}, NEW n \in Nat, NEW p \in 0 .. c - 1
  PROVE  (n * c + p) \div c = n /\ (n * c + p) % c = p
<1>. DEFINE x == n * c + p
            q == x \div c
            r == x % c
<1>1. x \in Nat /\ n * c \in Nat
  BY Products
<1>2. q \in Int /\ r \in 0 .. c - 1 /\ x = q * c + r /\ q * c \in Int
  BY <1>1, Euclid, Products
<1>3. x = n * c + p
  OBVIOUS
<1>. HIDE DEF q, r, x
<1>4. ~(q + 1 <= n)
  <2>. SUFFICES ASSUME q + 1 <= n PROVE FALSE
    OBVIOUS
  <2>1. (q + 1) * c <= n * c /\ (q + 1) * c = q * c + 1 * c /\ 1 * c = c
    BY <1>2, Products
  <2>. QED  BY <1>1, <1>2, <1>3, <2>1
<1>5. ~(n + 1 <= q)
  <2>. SUFFICES ASSUME n + 1 <= q PROVE FALSE
    OBVIOUS
  <2>1. (n + 1) * c <= q * c /\ (n + 1) * c = n * c + 1 * c /\ 1 * c = c
    BY <1>2, Products
  <2>. QED  BY <1>1, <1>2, <1>3, <2>1
<1>6. q = n
  BY <1>2, <1>4, <1>5
<1>7. r = p
  BY <1>2, <1>3, <1>6
<1>. QED  BY <1>6, <1>7 DEF q, r, x

\* The parts written so far, and the next one.
LEMMA PartsNext ==
  ASSUME NEW n \in Nat, NEW p \in 0 .. CohortParts - 1
  PROVE  /\ Parts(n, p) \in Seq(Part) /\ PartOf(n + 1, p + 1) \in Part
         /\ Append(Parts(n, p), PartOf(n + 1, p + 1)) =
              IF p + 1 = CohortParts THEN Parts(n + 1, 0) ELSE Parts(n, p + 1)
<1>. DEFINE c == CohortParts
            at(k) == PartOf(1 + (k - 1) \div c, 1 + ((k - 1) % c))
            L == n * c + p
<1>1. c \in Nat \ {0} /\ n * c \in Nat /\ L \in Nat
  BY CohortPartsType, Products
<1>. HIDE DEF c
<1>2. \A k \in Nat \ {0} : at(k) \in Part
  <2>. TAKE k \in Nat \ {0}
  <2>1. (k - 1) \div c \in Nat /\ (k - 1) % c \in Nat
    BY <1>1
  <2>. QED  BY <2>1 DEF PartOf, Part
<1>3. at(L + 1) = PartOf(n + 1, p + 1)
  <2>1. (L + 1) - 1 = L
    BY <1>1
  <2>2. L \div c = n /\ L % c = p
    BY <1>1, PartAt DEF c
  <2>3. 1 + n = n + 1 /\ 1 + p = p + 1
    BY DEF c
  <2>. QED  BY <2>1, <2>2, <2>3
<1>4. \A m \in Nat : [k \in 1 .. m |-> at(k)] \in [1 .. m -> Part]
  BY <1>2
<1>. HIDE DEF at, L
<1>5. [k \in 1 .. L + 1 |-> at(k)] = Append([k \in 1 .. L |-> at(k)], at(L + 1))
  <2>. DEFINE s == [k \in 1 .. L |-> at(k)]
              t == [k \in 1 .. L + 1 |-> at(k)]
  <2>1. s \in [1 .. L -> Part] /\ t \in [1 .. L + 1 -> Part]
    BY <1>1, <1>4
  <2>2. t[L + 1] = at(L + 1) /\ (\A k \in 1 .. L : t[k] = s[k])
    BY <1>1
  <2>. HIDE DEF s, t
  <2>3. t = Append(s, t[L + 1])
    BY <1>1, <2>1, <2>2, OneMore
  <2>. QED  BY <2>2, <2>3 DEF s, t
<1>6. Parts(n, p) = [k \in 1 .. L |-> at(k)]
  BY DEF Parts, L, at, c
<1>7. Parts(n, p) \in Seq(Part)
  BY <1>1, <1>4, <1>6, SequenceOf
<1>8. PartOf(n + 1, p + 1) \in Part
  BY <1>1, <1>2, <1>3
<1>9. CASE p + 1 = c
  <2>1. L + 1 = (n + 1) * c + 0
    <3>1. (n + 1) * c = n * c + 1 * c /\ 1 * c = c
      BY <1>1, Products
    <3>. QED  BY <1>1, <1>9, <3>1 DEF L
  <2>2. Parts(n + 1, 0) = [k \in 1 .. L + 1 |-> at(k)]
    BY <2>1 DEF Parts, at, c
  <2>. QED  BY <1>3, <1>5, <1>6, <1>7, <1>8, <1>9, <2>2 DEF c
<1>10. CASE p + 1 # c
  <2>1. L + 1 = n * c + (p + 1)
    BY <1>1 DEF L, c
  <2>2. Parts(n, p + 1) = [k \in 1 .. L + 1 |-> at(k)]
    BY <2>1 DEF Parts, at, c
  <2>. QED  BY <1>3, <1>5, <1>6, <1>7, <1>8, <1>10, <2>2 DEF c
<1>. QED  BY <1>9, <1>10

(***************************************************************************)
(* The invariant                                                           *)
(***************************************************************************)

StreamTypes ==
  /\ part \in 0 .. CohortParts - 1
  /\ buf \in Seq(Part) /\ Len(buf) <= BufParts
  /\ stream \in Seq(Entry)
  /\ inherited \in [Workers -> Seq(Part)]
  /\ \A w \in Workers : Len(inherited[w]) <= BufParts

\* What main wrote and what it still holds are the parts so far.
MainOrder == Written(Parts(Len(out), part), MainId) = By(MainId) \o Written(buf, MainId)

HasCrashed(w) == \E n \in 1 .. TotalInputs : <<w, n>> \in crashed

\* Only a worker that crashed comes to have parts of main, and one whose decoder
\* loads writes them as it leaves for good.
WorkerRepeats(w) ==
  /\ inherited[w] # <<>> \/ By(w) # <<>> => HasCrashed(w)
  /\ w \notin MayFailLoad =>
       /\ wpc[w] # "failed"
       /\ By(w) = <<>> \/ (wpc[w] \in {"exited", "gone"} /\ Len(By(w)) <= BufParts)

StreamInv ==
  /\ StreamTypes /\ MainOrder
  /\ mpc = "done" => buf = <<>>
  /\ \A w \in Workers : WorkerRepeats(w)

LEMMA Writers == MainId \in Int /\ MainId \notin Workers /\ Workers \subseteq Int
  BY ConstantsAssumption DEF MainId, Workers

\* One part at a time.
LEMMA StreamRefines == [StreamNext]_<<vars, streamVars>> => [Next]_vars
<1>. SUFFICES ASSUME [StreamNext]_<<vars, streamVars>> PROVE [Next]_vars
  OBVIOUS
<1>1. CASE WritePart
  <2>1. ProcessSlot \/ UNCHANGED vars
    BY <1>1 DEF WritePart
  <2>. QED  BY <2>1 DEF Next, Main
<1>2. CASE StreamRestartWorker \/ StreamEndProcess
  BY <1>2 DEF StreamRestartWorker, StreamEndProcess, Next, Main
<1>3. CASE StreamOther
  BY <1>3 DEF StreamOther, Next, Main
<1>4. CASE \E w \in Workers : StreamWorker(w)
  BY <1>4 DEF StreamWorker, Next
<1>5. CASE UNCHANGED <<vars, streamVars>>
  BY <1>5
<1>. QED  BY <1>1, <1>2, <1>3, <1>4, <1>5 DEF StreamNext

LEMMA InitStream == Init /\ StreamInit => StreamInv
<1>. SUFFICES ASSUME Init, StreamInit PROVE StreamInv
  OBVIOUS
<1>1. <<>> \in Seq(Part) /\ <<>> \in Seq(Entry) /\ Len(<<>>) = 0
  BY EmptySeq
<1>2. StreamTypes
  BY <1>1, CohortPartsType, OutputStreamAssumption DEF StreamInit, StreamTypes
<1>3. \A w : By(w) = <<>>
  BY WrittenByNothing DEF StreamInit, By
<1>4. Parts(0, 0) = <<>>
  <2>1. Parts(0, 0) \in Seq(Part)
    <3>1. 0 \in 0 .. CohortParts - 1 /\ 0 \in Nat
      BY CohortPartsType
    <3>. QED  BY <3>1, PartsNext
  <2>2. 0 * CohortParts + 0 = 0
    BY CohortPartsType, Products
  <2>3. Parts(0, 0) = [k \in 1 .. 0 |->
          PartOf(1 + (k - 1) \div CohortParts, 1 + ((k - 1) % CohortParts))]
    BY <2>2 DEF Parts
  <2>4. \A k \in 1 .. 0 :
          PartOf(1 + (k - 1) \div CohortParts, 1 + ((k - 1) % CohortParts)) \in Part
    OBVIOUS
  <2>5. Len(Parts(0, 0)) = 0
    BY <2>3, <2>4, SequenceOf
  <2>. QED  BY <2>1, <2>5, EmptySeq
<1>5. MainOrder
  <2>1. out = <<>> /\ part = 0 /\ buf = <<>>
    BY DEF Init, StreamInit
  <2>2. Written(<<>>, MainId) = <<>> /\ By(MainId) = <<>>
    BY <1>3, Writers, WrittenNothing
  <2>3. <<>> \o <<>> = <<>>
    BY <1>1, ConcatEmptySeq
  <2>. QED  BY <1>1, <1>4, <2>1, <2>2, <2>3 DEF MainOrder
<1>6. \A w \in Workers : WorkerRepeats(w)
  BY <1>3 DEF Init, StreamInit, WorkerRepeats
<1>7. mpc # "done"
  BY DEF Init
<1>. QED  BY <1>2, <1>5, <1>6, <1>7 DEF StreamInv

\* Parts are written behind the others, under one name.
LEMMA FileGrows ==
  ASSUME StreamTypes, NEW p \in Seq(Part), NEW b \in Int, stream' = stream \o Written(p, b)
  PROVE  /\ stream' \in Seq(Entry)
         /\ \A w : By(w) \in Seq(Entry)
         /\ \A w \in Int : By(w)' = IF b = w THEN By(w) \o Written(p, b) ELSE By(w)
<1>1. stream \in Seq(Entry)
  BY DEF StreamTypes
<1>2. Written(p, b) \in Seq(Entry) /\ (\A k \in 1 .. Len(Written(p, b)) : Written(p, b)[k].by = b)
  BY WrittenType
<1>3. stream' \in Seq(Entry)
  BY <1>1, <1>2, ConcatProperties
<1>4. \A w : By(w) \in Seq(Entry)
  BY <1>1, WrittenByType DEF By
<1>5. \A w \in Int : By(w)' = IF b = w THEN By(w) \o Written(p, b) ELSE By(w)
  <2>. TAKE w \in Int
  <2>1. WrittenBy(stream \o Written(p, b), w) =
          IF b = w THEN WrittenBy(stream, w) \o Written(p, b) ELSE WrittenBy(stream, w)
    <3>. DEFINE t == Written(p, b)
    <3>1. t \in Seq(Entry) /\ (\A k \in 1 .. Len(t) : t[k].by = b)
      BY <1>2
    <3>. HIDE DEF t
    <3>2. WrittenBy(stream \o t, w) =
            IF b = w THEN WrittenBy(stream, w) \o t ELSE WrittenBy(stream, w)
      BY <1>1, <3>1, WrittenByConcat
    <3>. QED  BY <3>2 DEF t
  <2>2. By(w) = WrittenBy(stream, w) /\ By(w)' = WrittenBy(stream', w)
    BY DEF By
  <2>. QED  BY <2>1, <2>2
<1>. QED  BY <1>3, <1>4, <1>5

\* A step that writes nothing.
LEMMA FileStays == ASSUME UNCHANGED stream PROVE \A w : By(w)' = By(w)
  BY DEF By

-----------------------------------------------------------------------------

\* fwrite of the next part.
LEMMA PutNext ==
  ASSUME StreamInv, NEW e \in Part, Put(e)
  PROVE  /\ buf' \in Seq(Part) /\ Len(buf') <= BufParts /\ stream' \in Seq(Entry)
         /\ By(MainId)' \o Written(buf', MainId)
              = Append(Written(Parts(Len(out), part), MainId), Stamped(e, MainId))
         /\ \A w \in Workers : By(w)' = By(w)
<1>. DEFINE x == Stamped(e, MainId)
            W == Written(buf, MainId)
            B == By(MainId)
<1>1. /\ buf \in Seq(Part) /\ Len(buf) <= BufParts /\ stream \in Seq(Entry) /\ BufParts \in Nat \ {0}
      /\ Len(buf) \in Nat /\ MainId \in Int
  BY OutputStreamAssumption, LenProperties, Writers DEF StreamInv, StreamTypes
<1>2. W \in Seq(Entry) /\ x \in Entry /\ B \in Seq(Entry)
  BY <1>1, WrittenType, WrittenByType DEF Part, Entry, Stamped, By
<1>3. Written(Parts(Len(out), part), MainId) = B \o W
  BY DEF StreamInv, MainOrder
<1>4. CASE Len(buf) = BufParts
  <2>1. stream' = stream \o W /\ buf' = <<e>>
    BY <1>4 DEF Put
  <2>2. stream' \in Seq(Entry) /\ B' = B \o W /\ (\A w \in Workers : By(w)' = By(w))
    BY <1>1, <2>1, FileGrows, Writers DEF StreamInv
  <2>3. <<e>> = Append(<<>>, e) /\ <<>> \in Seq(Part) /\ <<e>> \in Seq(Part) /\ Len(<<e>>) = 1
    BY EmptySeq
  <2>4. Written(<<e>>, MainId) = <<x>>
    <3>1. Written(Append(<<>>, e), MainId) = Append(Written(<<>>, MainId), x)
      BY <1>1, <2>3, WrittenAppend
    <3>2. Append(<<>>, x) = <<x>>
      OBVIOUS
    <3>. QED  BY <1>1, <2>3, <3>1, <3>2, WrittenNothing
  <2>5. B \o W \in Seq(Entry)
    BY <1>2, ConcatProperties
  <2>6. Append(B \o W, x) = (B \o W) \o <<x>>
    BY <1>2, <2>5, AppendIsConcat
  <2>7. buf' \in Seq(Part) /\ Len(buf') <= BufParts
    BY <1>1, <2>1, <2>3
  <2>8. B' \o Written(buf', MainId) = Append(B \o W, x)
    BY <2>1, <2>2, <2>4, <2>6
  <2>. QED  BY <1>3, <2>2, <2>7, <2>8
<1>5. CASE Len(buf) # BufParts
  <2>1. buf' = Append(buf, e) /\ UNCHANGED stream
    BY <1>5 DEF Put
  <2>2. B' = B /\ (\A w \in Workers : By(w)' = By(w))
    BY <2>1, FileStays
  <2>3. buf' \in Seq(Part) /\ Len(buf') = Len(buf) + 1
    BY <1>1, <2>1, AppendProperties
  <2>4. Written(buf', MainId) = Append(W, x)
    BY <1>1, <2>1, WrittenAppend
  <2>5. B \o Append(W, x) = Append(B \o W, x)
    <3>1. <<x>> \in Seq(Entry) /\ B \o W \in Seq(Entry)
      BY <1>2, ConcatProperties
    <3>2. Append(W, x) = W \o <<x>> /\ Append(B \o W, x) = (B \o W) \o <<x>>
      BY <1>2, <3>1, AppendIsConcat
    <3>3. (B \o W) \o <<x>> = B \o (W \o <<x>>)
      BY <1>2, <3>1, ConcatAssociative
    <3>. QED  BY <3>2, <3>3
  <2>. QED  BY <1>1, <1>3, <1>5, <2>1, <2>2, <2>3, <2>4, <2>5
<1>. QED  BY <1>4, <1>5

\* A worker that is to be found or forked again crashed on a candidate.
LEMMA Died ==
  ASSUME CampaignInv, NEW w \in Workers, remaining[w][widx[w]] # 0, wpc[w] # "decode"
  PROVE  HasCrashed(w)
<1>. DEFINE c == widx[w]
            n == inputs[c][wi[w]]
<1>1. /\ WorkerRemaining(w) /\ DeathNoted(w) /\ c \in Chunks /\ wgen[w] \in Nat \ {0}
      /\ wi[w] \in 0 .. NSlots /\ input_count[c] \in 0 .. NSlots /\ NSlots \in Nat \ {0}
      /\ Preceding(wgen[w], c) \in Nat /\ mpc # "killed" /\ RingInv /\ OrderInv
  BY JudgedParts DEF CampaignInv
<1>2. AtFill(w, c) /\ wpc[w] \in {"load", "wait", "failed", "crashed", "reaped"}
  BY <1>1 DEF WorkerRemaining
<1>3. wi[w] < input_count[c] /\ <<w, n>> \in crashed
  BY <1>1 DEF DeathNoted
<1>4. ~(Refilling /\ c = idx)
  <2>. SUFFICES ASSUME Refilling PROVE c # idx
    OBVIOUS
  <2>1. ~Owes(w, idx) /\ ~(wpc[w] = "reaped" /\ widx[w] = idx)
    BY <1>1 DEF RingInv, RecycledInv, Recycling, Refilling
  <2>. QED  BY <1>2, <2>1 DEF Owes
<1>5. n = Preceding(wgen[w], c) + wi[w] + 1
  <2>1. FillOf(c) = wgen[w] /\ FillOf(c) > 0
    BY <1>1, <1>2, <1>4 DEF FillOf, AtFill
  <2>2. wi[w] \in Slots
    BY <1>1, <1>3 DEF Slots
  <2>. QED  BY <1>1, <1>3, <2>1, <2>2, OrderParts DEF ContentInv
<1>6. Preceding(wgen[w], c) + (IF c = exit_idx /\ ~Refilling THEN input_count[c] ELSE NSlots)
        <= supplied
  BY <1>1, <1>2, PublishedSupplied DEF AtFill
<1>7. supplied <= TotalInputs /\ supplied \in Nat /\ TotalInputs \in Nat
  BY <1>1, OrderParts, ConstantsAssumption DEF MainInv
<1>8. n \in 1 .. TotalInputs
  <2>1. n <= supplied
    BY <1>1, <1>3, <1>5, <1>6, <1>7
  <2>. QED  BY <1>1, <1>5, <1>7, <2>1
<1>. QED  BY <1>3, <1>8 DEF HasCrashed

\* What the steps of StreamInv start from.
LEMMA StreamParts ==
  ASSUME CampaignInv, StreamInv
  PROVE  /\ TypeOK /\ StreamTypes /\ MainOrder
         /\ Len(out) \in Nat /\ wpc \in [Workers -> WorkerPc] /\ i \in Nat
         /\ \A w \in Workers : WorkerRemaining(w) /\ WorkerReaped(w) /\ WorkerRepeats(w)
<1>1. TypeOK /\ \A w \in Workers : WorkerRemaining(w) /\ WorkerReaped(w)
  BY DEF CampaignInv, RingInv
<1>2. Len(out) \in Nat /\ wpc \in [Workers -> WorkerPc] /\ i \in Nat
  <2>1. out \in Seq([input : Nat, outs : [Workers -> OutputSlots]])
    BY <1>1 DEF TypeOK, HistTypes
  <2>. QED  BY <1>1, <2>1, LenProperties DEF TypeOK, WorkerTypes, MainTypes
<1>. QED  BY <1>1, <1>2 DEF StreamInv

\* A worker that neither wrote nor was forked, and left for good if it had.
LEMMA SameRepeats ==
  ASSUME NEW w \in Workers, WorkerRepeats(w), By(w)' = By(w), inherited'[w] = inherited[w],
         crashed \subseteq crashed',
         w \notin MayFailLoad => wpc'[w] # "failed",
         wpc[w] \in {"exited", "gone"} => wpc'[w] \in {"exited", "gone"}
  PROVE  WorkerRepeats(w)'
<1>1. HasCrashed(w) => HasCrashed(w)'
  BY DEF HasCrashed
<1>. QED  BY <1>1 DEF WorkerRepeats

\* Main between two writes.
LEMMA SameMainOrder ==
  ASSUME MainOrder, UNCHANGED <<out, part, buf, stream>>
  PROVE  MainOrder'
<1>1. By(MainId)' = By(MainId)
  BY FileStays
<1>. QED  BY <1>1 DEF MainOrder

\* A write_output call of process().
LEMMA WritePartStream ==
  ASSUME CampaignInv, StreamInv, WritePart
  PROVE  StreamInv'
<1>. DEFINE n == Len(out)
            e == PartOf(n + 1, part + 1)
            P == Parts(n, part)
<1>1. /\ n \in Nat /\ part \in 0 .. CohortParts - 1 /\ StreamTypes /\ MainId \in Int
      /\ CohortParts \in Nat \ {0}
  BY StreamParts, Writers, CohortPartsType DEF StreamTypes
<1>2. P \in Seq(Part) /\ e \in Part
      /\ Append(P, e) = IF part + 1 = CohortParts THEN Parts(n + 1, 0) ELSE Parts(n, part + 1)
  BY <1>1, PartsNext
<1>3. Put(e)
  <2>1. inputs[idx][i] = Len(out) + 1
    BY NextReported DEF CampaignInv, WritePart
  <2>. QED  BY <2>1 DEF WritePart
<1>4. /\ buf' \in Seq(Part) /\ Len(buf') <= BufParts /\ stream' \in Seq(Entry)
      /\ By(MainId)' \o Written(buf', MainId) = Append(Written(P, MainId), Stamped(e, MainId))
      /\ \A w \in Workers : By(w)' = By(w)
  <2>. HIDE DEF e
  <2>. QED  BY <1>2, <1>3, PutNext
<1>5. UNCHANGED <<inherited, wpc, crashed, mpc>>
  BY DEF WritePart, ProcessSlot, workerVars, vars, mainVars, histVars
<1>6. Parts(Len(out'), part') = Append(P, e) /\ part' \in 0 .. CohortParts - 1
  <2>1. CASE part + 1 = CohortParts
    <3>1. part' = 0 /\ ProcessSlot
      BY <2>1 DEF WritePart
    <3>2. Len(out') = n + 1
      <4>1. out \in Seq([input : Nat, outs : [Workers -> OutputSlots]])
        BY StreamParts DEF TypeOK, HistTypes
      <4>. QED  BY <3>1, <4>1 DEF ProcessSlot
    <3>. QED  BY <1>1, <1>2, <2>1, <3>1, <3>2
  <2>2. CASE part + 1 # CohortParts
    <3>1. part' = part + 1 /\ out' = out
      BY <2>2 DEF WritePart, vars, histVars
    <3>2. part' \in 0 .. CohortParts - 1
      BY <1>1, <2>2, <3>1
    <3>. QED  BY <1>2, <2>2, <3>1, <3>2
  <2>. QED  BY <2>1, <2>2
<1>7. MainOrder'
  <2>1. Written(Append(P, e), MainId) = Append(Written(P, MainId), Stamped(e, MainId))
    <3>. HIDE DEF e, P
    <3>. QED  BY <1>1, <1>2, WrittenAppend
  <2>. HIDE DEF e, P
  <2>. QED  BY <1>4, <1>6, <2>1 DEF MainOrder
<1>8. StreamTypes'
  BY <1>1, <1>4, <1>5, <1>6 DEF StreamTypes
<1>9. \A w \in Workers : WorkerRepeats(w)'
  <2>. TAKE w \in Workers
  <2>1. WorkerRepeats(w)
    BY DEF StreamInv
  <2>2. w \notin MayFailLoad => wpc[w] # "failed"
    BY <2>1 DEF WorkerRepeats
  <2>. QED  BY <1>4, <1>5, <2>1, <2>2, SameRepeats
<1>10. mpc' # "done"
  BY <1>5 DEF WritePart
<1>. QED  BY <1>7, <1>8, <1>9, <1>10 DEF StreamInv

\* fork: only a worker that crashed is forked again, and it has written nothing.
LEMMA RestartStream ==
  ASSUME CampaignInv, StreamInv, StreamRestartWorker
  PROVE  StreamInv'
<1>1. UNCHANGED <<part, buf, stream, out, crashed, mpc>>
  BY DEF StreamRestartWorker, RestartWorker, histVars
<1>2. StreamTypes /\ MainOrder /\ wpc \in [Workers -> WorkerPc] /\ i \in Workers
  <2>1. i \in Nat /\ i < NWorkers /\ NWorkers \in Nat
    BY StreamParts, ConstantsAssumption DEF StreamRestartWorker, RestartWorker, RestartBound
  <2>. QED  BY <2>1, StreamParts DEF Workers
<1>3. \A w : By(w)' = By(w)
  BY <1>1, FileStays
<1>4. StreamTypes'
  BY <1>1, <1>2 DEF StreamTypes, StreamRestartWorker
<1>5. MainOrder'
  BY <1>1, <1>2, SameMainOrder
<1>6. \A w \in Workers : WorkerRepeats(w)'
  <2>. TAKE w \in Workers
  <2>1. WorkerRepeats(w) /\ WorkerReaped(w) /\ WorkerRemaining(w)
    BY StreamParts
  <2>2. CASE w = i /\ sigchld[i]
    <3>1. wpc[w] = "reaped" /\ wpc'[w] = "load" /\ remaining[w][widx[w]] # 0
      BY <1>2, <2>1, <2>2 DEF WorkerReaped, WorkerRemaining, StreamRestartWorker, RestartWorker
    <3>2. HasCrashed(w)
      BY <3>1, Died
    <3>3. HasCrashed(w)'
      BY <1>1, <3>2 DEF HasCrashed
    <3>. QED  BY <1>3, <2>1, <3>1, <3>3 DEF WorkerRepeats
  <2>3. CASE ~(w = i /\ sigchld[i])
    <3>1. inherited'[w] = inherited[w] /\ wpc'[w] = wpc[w]
      BY <1>2, <2>3 DEF StreamRestartWorker, RestartWorker, StreamTypes
    <3>2. w \notin MayFailLoad => wpc[w] # "failed"
      BY <2>1 DEF WorkerRepeats
    <3>. QED  BY <1>1, <1>3, <2>1, <3>1, <3>2, SameRepeats
  <2>. QED  BY <2>2, <2>3
<1>7. mpc' # "done"
  BY <1>1 DEF StreamRestartWorker, RestartWorker
<1>. QED  BY <1>4, <1>5, <1>6, <1>7 DEF StreamInv

\* A worker that returns writes what it was forked with, once unless its decoder
\* does not load.
LEMMA WorkerStream ==
  ASSUME CampaignInv, StreamInv, NEW w \in Workers, StreamWorker(w)
  PROVE  StreamInv'
<1>1. UNCHANGED <<part, buf, out, mpc>> /\ crashed \subseteq crashed'
  BY OutputStreamAssumption DEF StreamWorker, Worker, Load, BeginChunk, Decode, Crash, FinishChunk,
     CheckExit, mainVars, histVars
<1>2. /\ StreamTypes /\ MainOrder /\ wpc \in [Workers -> WorkerPc] /\ MainId \in Int /\ w \in Int
      /\ w # MainId /\ inherited[w] \in Seq(Part) /\ Len(inherited[w]) <= BufParts
  BY StreamParts, Writers DEF StreamTypes
<1>3. \A v \in Workers : v # w => wpc'[v] = wpc[v]
  BY <1>2, OutputStreamAssumption DEF StreamWorker, Worker, Load, BeginChunk, Decode, Crash,
     FinishChunk, CheckExit
<1>4. wpc[w] \notin {"exited", "gone", "failed"} /\ (wpc'[w] = "failed" => w \in MayFailLoad)
  BY <1>2, OutputStreamAssumption DEF StreamWorker, Worker, Load, BeginChunk, Decode, Crash,
     FinishChunk, CheckExit
<1>5. \A v \in Workers : WorkerRepeats(v)
  BY StreamParts
<1>6. \A v \in Workers : v \notin MayFailLoad => wpc'[v] # "failed"
  BY <1>3, <1>4, <1>5 DEF WorkerRepeats
<1>7. CASE Flushes(w)
  <2>1. stream' = stream \o Written(inherited[w], w)
        /\ inherited' = [inherited EXCEPT ![w] = <<>>]
    BY <1>7 DEF StreamWorker
  <2>2. /\ stream' \in Seq(Entry) /\ By(w) \in Seq(Entry)
        /\ By(MainId)' = By(MainId)
        /\ \A v \in Workers : v # w => By(v)' = By(v)
        /\ By(w)' = By(w) \o Written(inherited[w], w)
    BY <1>2, <2>1, FileGrows, Writers
  <2>3. <<>> \in Seq(Part) /\ Len(<<>>) = 0
    BY EmptySeq
  <2>4. StreamTypes'
    BY <1>1, <1>2, <2>1, <2>2, <2>3, OutputStreamAssumption DEF StreamTypes
  <2>5. MainOrder'
    BY <1>1, <1>2, <2>2 DEF MainOrder
  <2>6. WorkerRepeats(w)'
    <3>1. inherited'[w] = <<>>
      BY <1>2, <2>1 DEF StreamTypes
    <3>2. HasCrashed(w) => HasCrashed(w)'
      BY <1>1 DEF HasCrashed
    <3>3. By(w)' # <<>> => HasCrashed(w)
      <4>. SUFFICES ASSUME ~HasCrashed(w) PROVE By(w)' = <<>>
        OBVIOUS
      <4>1. By(w) = <<>> /\ inherited[w] = <<>>
        BY <1>5 DEF WorkerRepeats
      <4>2. Written(inherited[w], w) = <<>>
        BY <1>2, <4>1, WrittenNothing
      <4>3. By(w)' = By(w) \o <<>>
        BY <2>2, <4>2
      <4>. QED  BY <2>2, <4>1, <4>3, ConcatEmptySeq
    <3>4. w \notin MayFailLoad => wpc'[w] = "exited" /\ Len(By(w)') <= BufParts
      <4>. SUFFICES ASSUME w \notin MayFailLoad
                    PROVE  wpc'[w] = "exited" /\ Len(By(w)') <= BufParts
        OBVIOUS
      <4>1. wpc'[w] = "exited"
        BY <1>4, <1>7 DEF Flushes
      <4>2. By(w) = <<>>
        BY <1>4, <1>5 DEF WorkerRepeats
      <4>3. Written(inherited[w], w) \in Seq(Entry)
            /\ Len(Written(inherited[w], w)) = Len(inherited[w])
        BY <1>2, WrittenType
      <4>4. By(w)' = Written(inherited[w], w)
        BY <2>2, <4>2, <4>3, ConcatEmptySeq
      <4>. QED  BY <1>2, <4>1, <4>3, <4>4
    <3>. QED  BY <3>1, <3>2, <3>3, <3>4 DEF WorkerRepeats
  <2>7. \A v \in Workers : WorkerRepeats(v)'
    <3>. SUFFICES ASSUME NEW v \in Workers, v # w PROVE WorkerRepeats(v)'
      BY <2>6
    <3>1. inherited'[v] = inherited[v] /\ wpc'[v] = wpc[v] /\ By(v)' = By(v)
      BY <1>2, <1>3, <2>1, <2>2 DEF StreamTypes
    <3>. QED  BY <1>1, <1>5, <1>6, <3>1, SameRepeats
  <2>8. mpc' = "done" => buf' = <<>>
    BY <1>1 DEF StreamInv
  <2>. QED  BY <2>4, <2>5, <2>7, <2>8 DEF StreamInv
<1>8. CASE ~Flushes(w)
  <2>1. UNCHANGED <<stream, inherited>>
    BY <1>8 DEF StreamWorker
  <2>2. \A v : By(v)' = By(v)
    BY <2>1, FileStays
  <2>3. StreamTypes'
    BY <1>1, <1>2, <2>1 DEF StreamTypes
  <2>4. MainOrder'
    BY <1>1, <1>2, <2>1, SameMainOrder
  <2>5. \A v \in Workers : WorkerRepeats(v)'
    <3>. TAKE v \in Workers
    <3>1. wpc[v] \in {"exited", "gone"} => wpc'[v] \in {"exited", "gone"}
      BY <1>3, <1>4
    <3>. QED  BY <1>1, <1>5, <1>6, <2>1, <2>2, <3>1, SameRepeats
  <2>6. mpc' = "done" => buf' = <<>>
    BY <1>1 DEF StreamInv
  <2>. QED  BY <2>3, <2>4, <2>5, <2>6 DEF StreamInv
<1>. QED  BY <1>7, <1>8

\* fflush(stdout) as main leaves.
LEMMA EndProcessStream ==
  ASSUME CampaignInv, StreamInv, StreamEndProcess
  PROVE  StreamInv'
<1>1. UNCHANGED <<part, inherited, out, crashed, wpc>> /\ mpc = "process"
  BY DEF StreamEndProcess, EndProcess, workerVars, histVars
<1>2. StreamTypes /\ MainOrder /\ MainId \in Int
      /\ buf \in Seq(Part) /\ stream \in Seq(Entry)
      /\ \A v \in Workers : WorkerRepeats(v)
  BY StreamParts, Writers DEF StreamTypes
<1>3. \A v \in Workers : By(v)' = By(v) => WorkerRepeats(v)'
  <2>. SUFFICES ASSUME NEW v \in Workers, By(v)' = By(v) PROVE WorkerRepeats(v)'
    OBVIOUS
  <2>1. v \notin MayFailLoad => wpc[v] # "failed"
    BY <1>2 DEF WorkerRepeats
  <2>. QED  BY <1>1, <1>2, <2>1, SameRepeats
<1>4. CASE mpc' = "done"
  <2>1. stream' = stream \o Written(buf, MainId) /\ buf' = <<>>
    BY <1>4 DEF StreamEndProcess, FinalFlush
  <2>2. /\ stream' \in Seq(Entry) /\ By(MainId) \in Seq(Entry)
        /\ By(MainId)' = By(MainId) \o Written(buf, MainId)
        /\ \A v \in Workers : By(v)' = By(v)
    BY <1>2, <2>1, FileGrows, Writers
  <2>3. <<>> \in Seq(Part) /\ Len(<<>>) = 0
    BY EmptySeq
  <2>4. StreamTypes'
    BY <1>1, <1>2, <2>1, <2>2, <2>3, OutputStreamAssumption DEF StreamTypes
  <2>5. MainOrder'
    <3>1. Written(buf', MainId) = <<>>
      BY <1>2, <2>1, WrittenNothing
    <3>2. By(MainId)' \in Seq(Entry)
      BY <1>2, <2>2, WrittenType, ConcatProperties
    <3>3. By(MainId)' \o <<>> = By(MainId)'
      BY <3>2, ConcatEmptySeq
    <3>. QED  BY <1>1, <1>2, <2>2, <3>1, <3>3 DEF MainOrder
  <2>. QED  BY <1>3, <2>1, <2>2, <2>4, <2>5 DEF StreamInv
<1>5. CASE mpc' # "done"
  <2>1. UNCHANGED <<stream, buf>>
    BY <1>5 DEF StreamEndProcess
  <2>2. StreamTypes'
    BY <1>1, <1>2, <2>1 DEF StreamTypes
  <2>3. MainOrder'
    BY <1>1, <1>2, <2>1, SameMainOrder
  <2>. QED  BY <1>3, <1>5, <2>1, <2>2, <2>3, FileStays DEF StreamInv
<1>. QED  BY <1>4, <1>5

\* The steps that write nothing; the handler lets go of a worker that returned.
LEMMA OtherStream ==
  ASSUME CampaignInv, StreamInv, StreamOther \/ UNCHANGED <<vars, streamVars>>
  PROVE  StreamInv'
<1>1. UNCHANGED <<part, buf, stream, inherited, out, crashed>>
  BY DEF StreamOther, streamVars, WaitForWorkers, EndRestarts, Fill, Arm, Publish, SigchldHandler,
     Terminated, vars, histVars
<1>2. mpc' = "done" => mpc = "done"
  BY DEF StreamOther, WaitForWorkers, EndRestarts, AfterRestarts, Fill, Arm, Publish, SigchldHandler,
     Terminated, vars, mainVars
<1>3. StreamTypes /\ MainOrder /\ \A v \in Workers : WorkerRepeats(v)
  BY StreamParts
<1>4. \A v : By(v)' = By(v)
  BY <1>1, FileStays
<1>5. ASSUME NEW v \in Workers
      PROVE  /\ wpc'[v] = "failed" => wpc[v] = "failed"
             /\ wpc[v] \in {"exited", "gone"} => wpc'[v] \in {"exited", "gone"}
  <2>1. CASE SigchldHandler
    <3>1. wpc'[v] = CASE v \in FoundCrashed -> "reaped"
                      [] v \in Zombies \ FoundCrashed -> IF wpc[v] = "failed" THEN "lost" ELSE "gone"
                      [] OTHER -> wpc[v]
      BY <2>1 DEF SigchldHandler
    <3>2. wpc[v] \in {"exited", "gone"} => v \notin FoundCrashed
      <4>1. WorkerRemaining(v)
        BY StreamParts
      <4>. QED  BY <4>1 DEF WorkerRemaining, FoundCrashed, Zombies, Unfinished
    <3>3. CASE v \in FoundCrashed
      BY <3>1, <3>2, <3>3
    <3>4. CASE v \notin FoundCrashed /\ v \in Zombies
      BY <3>1, <3>4
    <3>5. CASE v \notin Zombies
      <4>1. v \notin FoundCrashed
        BY <3>5 DEF FoundCrashed
      <4>. QED  BY <3>1, <3>5, <4>1
    <3>. QED  BY <3>3, <3>4, <3>5
  <2>2. CASE ~SigchldHandler
    BY <2>2 DEF StreamOther, WaitForWorkers, EndRestarts, Fill, Arm, Publish, Terminated, vars,
       workerVars
  <2>. QED  BY <2>1, <2>2
<1>6. \A v \in Workers : WorkerRepeats(v)'
  <2>. TAKE v \in Workers
  <2>1. WorkerRepeats(v)
    BY <1>3
  <2>2. v \notin MayFailLoad => wpc'[v] # "failed"
    BY <1>5, <2>1 DEF WorkerRepeats
  <2>. QED  BY <1>1, <1>4, <1>5, <2>1, <2>2, SameRepeats
<1>7. StreamTypes'
  BY <1>1, <1>3 DEF StreamTypes
<1>8. MainOrder'
  BY <1>1, <1>3, SameMainOrder
<1>9. mpc' = "done" => buf' = <<>>
  BY <1>1, <1>2 DEF StreamInv
<1>. QED  BY <1>6, <1>7, <1>8, <1>9 DEF StreamInv

LEMMA StreamStep ==
  ASSUME CampaignInv, StreamInv, [StreamNext]_<<vars, streamVars>>
  PROVE  StreamInv'
<1>1. CASE WritePart \/ StreamRestartWorker \/ StreamEndProcess
  BY <1>1, WritePartStream, RestartStream, EndProcessStream
<1>2. CASE StreamOther \/ UNCHANGED <<vars, streamVars>>
  BY <1>2, OtherStream
<1>3. ASSUME NEW w \in Workers, StreamWorker(w) PROVE StreamInv'
  BY <1>3, WorkerStream
<1>. QED  BY <1>1, <1>2, <1>3 DEF StreamNext

\* The ring goes its way whatever is written when: every behaviour with the
\* stream is one of Mishegos.
THEOREM StreamImplementsRing == StreamSpec => Spec
<1>1. [StreamNext]_<<vars, streamVars>> => [Next]_vars
  BY StreamRefines
<1>. QED  BY <1>1, PTL DEF StreamSpec, Spec

\* What the buffers hold is of parts already begun, and the stream's repetitions come
\* from the buffers that crashed workers were forked with.
THEOREM StreamInvariant == StreamSpec => []StreamInv
<1>1. Init /\ StreamInit => StreamInv
  BY InitStream
<1>2. CampaignInv /\ StreamInv /\ [StreamNext]_<<vars, streamVars>> => StreamInv'
  BY StreamStep
<1>3. Spec => []CampaignInv
  BY CampaignAlways, OutputStreamAssumption
<1>. QED  BY <1>1, <1>2, <1>3, StreamImplementsRing, PTL DEF StreamSpec

\* Parts written twice are those a crashed worker was forked with again: none of
\* a worker that did not crash, and no more than a buffer of one that loads.
THEOREM RepetitionsBounded == StreamSpec => []RepeatsBounded
<1>1. StreamInv => RepeatsBounded
  <2>. SUFFICES ASSUME StreamInv, NEW w \in Workers
                PROVE  /\ By(w) # <<>> => \E n \in 1 .. TotalInputs : <<w, n>> \in crashed
                       /\ w \notin MayFailLoad => Len(By(w)) <= BufParts
    BY DEF RepeatsBounded
  <2>1. WorkerRepeats(w)
    BY DEF StreamInv
  <2>2. Len(<<>>) = 0 /\ BufParts \in Nat
    BY OutputStreamAssumption
  <2>. QED  BY <2>1, <2>2 DEF WorkerRepeats, HasCrashed
<1>. QED  BY <1>1, StreamInvariant, PTL
=============================================================================
