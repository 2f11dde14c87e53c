------------------------------ MODULE Mishegos ------------------------------
(***************************************************************************)
(* The fuzzer proper (src/mishegos/mishegos.c): a main process that fills  *)
(* a ring of input chunks and N workers that decode every input.           *)
(*                                                                         *)
(* Main recycles a chunk when its remaining_workers counter is zero; a     *)
(* worker takes a chunk when its generation is the one it waits for.  In   *)
(* process mode a worker that crashes inside try_decode is reaped by the   *)
(* SIGCHLD handler, which finds the crash slot from the worker's           *)
(* `remaining' counter, and is forked again by main's loop.                *)
(*                                                                         *)
(* Abstractions: the n-th candidate of the mutator is the number n; the    *)
(* content of an output slot is the input it was last written for and its  *)
(* status.  mish_atomic_wait_for is an await, forking a worker is atomic.  *)
(* The SIGCHLD handler is one step: main is suspended while it runs and    *)
(* what it shares with live workers is atomic additions only.              *)
(***************************************************************************)
EXTENDS Integers, Sequences, FiniteSets

CONSTANTS
  NWorkers,     \* lines of workers.spec
  NChunks,      \* MISHEGOS_NUM_CHUNKS
  NSlots,       \* MISHEGOS_NUM_SLOTS_PER_CHUNK
  TotalInputs,  \* candidates after which the mutator returns false
  ThreadMode,   \* -t
  MayCrash,     \* pairs <<worker, input>> on which try_decode may crash
  MayFailLoad   \* workers whose shared object dlopen may refuse

Workers == 0 .. NWorkers - 1
Chunks  == 0 .. NChunks - 1
Slots   == 0 .. NSlots - 1

ASSUME ConstantsAssumption ==
  /\ NWorkers \in Nat
  /\ NChunks \in Nat \ {0}
  /\ NSlots \in Nat \ {0}
  /\ TotalInputs \in Nat
  /\ ThreadMode \in BOOLEAN
  /\ MayCrash \subseteq Workers \X Nat
  /\ MayFailLoad \subseteq Workers

VARIABLES
  \* input_chunk, shared by all
  generation, remaining_workers, input_count, inputs,
  \* output_chunk, one array per worker
  remaining, outputs,
  \* struct worker_config of the main process
  start_gen, start_idx, sigchld,
  \* locals of main() and the position of the mutator
  mpc, gen, idx, exit_idx, i, worker_restarted, supplied,
  \* locals of worker()
  wpc, wgen, widx, wi,
  \* history: the cohorts written so far, the crashes that happened
  out, crashed

chunkVars  == <<generation, remaining_workers, input_count, inputs>>
outputVars == <<remaining, outputs>>
configVars == <<start_gen, start_idx, sigchld>>
mainVars   == <<mpc, gen, idx, exit_idx, i, worker_restarted, supplied>>
workerVars == <<wpc, wgen, widx, wi>>
histVars   == <<out, crashed>>
vars == <<chunkVars, outputVars, configVars, mainVars, workerVars, histVars>>

Status == {"none", "decoded", "crash"}

\* `of' is 0 for a slot no input was decoded into yet.
OutputSlots == [of : Nat, status : Status]

MainPc   == {"wait", "restart", "process", "fill", "arm", "publish", "join", "done", "killed"}
WorkerPc == {"load", "wait", "decode", "check", "failed", "exited", "crashed", "reaped", "gone", "lost"}

\* exit_idx while the mutator is not exhausted.
NoExit == NChunks

ChunkTypes ==
  /\ generation \in [Chunks -> Nat]
  /\ remaining_workers \in [Chunks -> Int]
  /\ input_count \in [Chunks -> 0 .. NSlots]
  /\ inputs \in [Chunks -> [Slots -> Nat]]

OutputTypes ==
  /\ remaining \in [Workers -> [Chunks -> 0 .. NSlots]]
  /\ outputs \in [Workers -> [Chunks -> [Slots -> OutputSlots]]]

ConfigTypes ==
  /\ start_gen \in [Workers -> Nat]
  /\ start_idx \in [Workers -> Chunks]
  /\ sigchld \in [Workers -> BOOLEAN]

MainTypes ==
  /\ mpc \in MainPc
  /\ gen \in Nat \ {0}
  /\ idx \in Chunks
  /\ exit_idx \in Chunks \cup {NoExit}
  /\ i \in Nat
  /\ worker_restarted \in BOOLEAN
  /\ supplied \in Nat

WorkerTypes ==
  /\ wpc \in [Workers -> WorkerPc]
  /\ wgen \in [Workers -> Nat]
  /\ widx \in [Workers -> Chunks]
  /\ wi \in [Workers -> 0 .. NSlots]

HistTypes ==
  /\ out \in Seq([input : Nat, outs : [Workers -> OutputSlots]])
  /\ crashed \subseteq Workers \X Nat

\* Every variable stays in its range: in particular the `remaining' counters
\* and the resume position of a restarted worker stay within the chunk.
TypeOK == ChunkTypes /\ OutputTypes /\ ConfigTypes /\ MainTypes /\ WorkerTypes /\ HistTypes

\* main() up to its ring loop: chunks are zeroed shared memory, every worker
\* was started with gen 1, idx 0 and has yet to load its decoder.
Init ==
  /\ generation = [c \in Chunks |-> 0]
  /\ remaining_workers = [c \in Chunks |-> 0]
  /\ input_count = [c \in Chunks |-> 0]
  /\ inputs = [c \in Chunks |-> [s \in Slots |-> 0]]
  /\ remaining = [w \in Workers |-> [c \in Chunks |-> 0]]
  /\ outputs = [w \in Workers |-> [c \in Chunks |-> [s \in Slots |-> [of |-> 0, status |-> "none"]]]]
  /\ start_gen = [w \in Workers |-> 1]
  /\ start_idx = [w \in Workers |-> 0]
  /\ sigchld = [w \in Workers |-> FALSE]
  /\ mpc = "wait" /\ gen = 1 /\ idx = 0 /\ exit_idx = NoExit
  /\ i = 0 /\ worker_restarted = FALSE /\ supplied = 0
  /\ wpc = [w \in Workers |-> "load"]
  /\ wgen = start_gen /\ widx = start_idx /\ wi = [w \in Workers |-> 0]
  /\ out = <<>> /\ crashed = {}

-----------------------------------------------------------------------------
(***************************************************************************)
(* worker()                                                                *)
(***************************************************************************)

\* A decoder that cannot be loaded makes the worker return: the process exits
\* or the thread ends.
Load(w) ==
  /\ wpc[w] = "load"
  /\ \/ wpc' = [wpc EXCEPT ![w] = "wait"]
     \/ w \in MayFailLoad /\ wpc' = [wpc EXCEPT ![w] = "failed"]
  /\ UNCHANGED <<chunkVars, outputVars, configVars, mainVars, wgen, widx, wi, histVars>>

\* Mutants of StartSlot: the crash slot is decoded again; the slot after it is
\* skipped too.
StartSlot_Retry(w, c) ==
  IF remaining[w][c] = 0 THEN 0 ELSE input_count[c] - remaining[w][c]
StartSlot_SkipTwo(w, c) ==
  IF remaining[w][c] = 0 THEN 0 ELSE input_count[c] - remaining[w][c] + 2

\* The slot at which a worker resumes: the first one of a fresh chunk, the one
\* after the crash slot when `remaining' says it died in this chunk.
StartSlot(w, c) ==
  IF remaining[w][c] = 0 THEN 0 ELSE input_count[c] - remaining[w][c] + 1

BeginChunk(w) ==
  LET c == widx[w] IN
  /\ wpc[w] = "wait"
  /\ generation[c] = wgen[w]
  /\ remaining' = [remaining EXCEPT ![w][c] = input_count[c] - StartSlot(w, c)]
  /\ wi' = [wi EXCEPT ![w] = StartSlot(w, c)]
  /\ wpc' = [wpc EXCEPT ![w] = "decode"]
  /\ UNCHANGED <<chunkVars, outputs, configVars, mainVars, wgen, widx, histVars>>

\* Mutant: the decremented counter is off by one.
RemainingAfter_Late(c, slot) == input_count[c] - slot

\* Slots left once `slot' is decoded.
RemainingAfter(c, slot) == input_count[c] - slot - 1

Decode(w) ==
  LET c == widx[w] IN
  /\ wpc[w] = "decode"
  /\ wi[w] < input_count[c]
  /\ outputs' = [outputs EXCEPT ![w][c][wi[w]] =
                   [of |-> inputs[c][wi[w]], status |-> "decoded"]]
  /\ remaining' = [remaining EXCEPT ![w][c] = RemainingAfter(c, wi[w])]
  /\ wi' = [wi EXCEPT ![w] = @ + 1]
  /\ UNCHANGED <<chunkVars, configVars, mainVars, wpc, wgen, widx, histVars>>

\* try_decode does not return.  The slot was reset, its status is still the
\* one of an earlier input.  In thread mode the signal ends the whole program.
Crash(w) ==
  LET c == widx[w]
      n == inputs[c][wi[w]]
  IN
  /\ wpc[w] = "decode"
  /\ wi[w] < input_count[c]
  /\ <<w, n>> \in MayCrash
  /\ outputs' = [outputs EXCEPT ![w][c][wi[w]].of = n]
  /\ crashed' = crashed \cup {<<w, n>>}
  /\ IF ThreadMode
     THEN /\ mpc' = "killed"
          /\ wpc' = [v \in Workers |-> "gone"]
     ELSE /\ wpc' = [wpc EXCEPT ![w] = "crashed"]
          /\ UNCHANGED mpc
  /\ UNCHANGED <<chunkVars, remaining, configVars, gen, idx, exit_idx, i,
                 worker_restarted, supplied, wgen, widx, wi, out>>

FinishChunk(w) ==
  LET c == widx[w] IN
  /\ wpc[w] = "decode"
  /\ wi[w] >= input_count[c]
  /\ remaining_workers' = [remaining_workers EXCEPT ![c] = @ - 1]
  /\ wpc' = [wpc EXCEPT ![w] = "check"]
  /\ UNCHANGED <<generation, input_count, inputs, outputVars, configVars,
                 mainVars, wgen, widx, wi, histVars>>

\* Mutant: an empty chunk is not taken for the last one.
LastChunk_Short(c) == input_count[c] \in 1 .. NSlots - 1

\* "Not getting a full chunk indicates that we are exiting."
LastChunk(c) == input_count[c] # NSlots

\* Where a worker or main goes after chunk c of generation g.
NextIdx(c) == IF c + 1 = NChunks THEN 0 ELSE c + 1
NextGen(g, c) == IF c + 1 = NChunks THEN g + 1 ELSE g

\* input_count is read again here, after the chunk was given back.
CheckExit(w) ==
  LET c == widx[w] IN
  /\ wpc[w] = "check"
  /\ IF LastChunk(c)
     THEN /\ wpc' = [wpc EXCEPT ![w] = "exited"]
          /\ UNCHANGED <<wgen, widx>>
     ELSE /\ wpc' = [wpc EXCEPT ![w] = "wait"]
          /\ widx' = [widx EXCEPT ![w] = NextIdx(c)]
          /\ wgen' = [wgen EXCEPT ![w] = NextGen(@, c)]
  /\ UNCHANGED <<chunkVars, outputVars, configVars, mainVars, wi, histVars>>

-----------------------------------------------------------------------------
(***************************************************************************)
(* sigchld_handler()                                                       *)
(***************************************************************************)

MainAlive == mpc \notin {"done", "killed"}

\* The children waitpid returns.
Zombies == {w \in Workers : wpc[w] \in {"crashed", "exited", "failed"}}

Unfinished(w) == {c \in Chunks : remaining[w][c] # 0}

\* The first chunk the worker has not finished.
CrashChunk(w) == CHOOSE c \in Unfinished(w) : \A d \in Unfinished(w) : c <= d

CrashSlot(w) == input_count[CrashChunk(w)] - remaining[w][CrashChunk(w)]

\* Zombies the handler takes for crashed, the others it ignores: those that left
\* worker() after their last chunk, and those that could not load their decoder,
\* unless they were already restarted in the middle of a chunk.
FoundCrashed == {w \in Zombies : Unfinished(w) # {}}

\* Mutant: the handler leaves remaining_workers alone.
CrashedIn_None(c) == {}

\* The crashed workers that will never give chunk c back themselves.
CrashedIn(c) == {w \in FoundCrashed : CrashChunk(w) = c}

\* Mutant: the worker restarts with main's generation.
RestartGen_Main(c) == gen

\* The generation the restarted worker waits for.
RestartGen(c) == generation[c]

SigchldHandler ==
  /\ ~ThreadMode /\ MainAlive
  /\ Zombies # {}
  /\ outputs' = [w \in Workers |->
                  IF w \in FoundCrashed
                  THEN [outputs[w] EXCEPT ![CrashChunk(w)][CrashSlot(w)].status = "crash"]
                  ELSE outputs[w]]
  /\ start_gen' = [w \in Workers |->
                    IF w \in FoundCrashed THEN RestartGen(CrashChunk(w)) ELSE start_gen[w]]
  /\ start_idx' = [w \in Workers |-> IF w \in FoundCrashed THEN CrashChunk(w) ELSE start_idx[w]]
  /\ sigchld' = [w \in Workers |-> sigchld[w] \/ w \in FoundCrashed]
  /\ remaining_workers' = [c \in Chunks |-> remaining_workers[c] - Cardinality(CrashedIn(c))]
  /\ wpc' = [w \in Workers |-> CASE w \in FoundCrashed -> "reaped"
                                 [] w \in Zombies \ FoundCrashed ->
                                      IF wpc[w] = "failed" THEN "lost" ELSE "gone"
                                 [] OTHER -> wpc[w]]
  /\ UNCHANGED <<generation, input_count, inputs, remaining, mainVars, wgen, widx, wi, histVars>>

-----------------------------------------------------------------------------
(***************************************************************************)
(* main(), the ring loop                                                   *)
(***************************************************************************)

WaitForWorkers ==
  /\ mpc = "wait"
  /\ remaining_workers[idx] = 0
  /\ mpc' = IF ThreadMode THEN "process" ELSE "restart"
  /\ i' = 0
  /\ worker_restarted' = FALSE
  /\ UNCHANGED <<chunkVars, outputVars, configVars, gen, idx, exit_idx, supplied,
                 workerVars, histVars>>

\* Mutant: the increment goes to the chunk main is waiting for.
UndoHack_Current(w) == [remaining_workers EXCEPT ![idx] = @ + 1]

\* "undo hack to forcefully wake us up"
UndoHack(w) == [remaining_workers EXCEPT ![start_idx[w]] = @ + 1]

\* Mutant: the last worker is left out.
RestartBound_Short == NWorkers - 1
RestartBound == NWorkers

\* One iteration of the restart loop: count the worker again, fork it again
\* where the handler found it.
RestartWorker ==
  /\ mpc = "restart" /\ i < RestartBound
  /\ IF sigchld[i]
     THEN /\ remaining_workers' = UndoHack(i)
          /\ sigchld' = [sigchld EXCEPT ![i] = FALSE]
          /\ wpc' = [wpc EXCEPT ![i] = "load"]
          /\ wgen' = [wgen EXCEPT ![i] = start_gen[i]]
          /\ widx' = [widx EXCEPT ![i] = start_idx[i]]
          /\ worker_restarted' = TRUE
     ELSE UNCHANGED <<remaining_workers, sigchld, wpc, wgen, widx, worker_restarted>>
  /\ i' = i + 1
  /\ UNCHANGED <<generation, input_count, inputs, outputVars, start_gen, start_idx,
                 mpc, gen, idx, exit_idx, supplied, wi, histVars>>

\* Mutant: main goes on without waiting for the worker it restarted.
AfterRestarts_Rush == "process"
AfterRestarts == IF worker_restarted THEN "wait" ELSE "process"

\* A restarted worker may still owe the current chunk: wait for it again.
EndRestarts ==
  /\ mpc = "restart" /\ i >= RestartBound
  /\ mpc' = AfterRestarts
  /\ i' = 0
  /\ UNCHANGED <<chunkVars, outputVars, configVars, gen, idx, exit_idx,
                 worker_restarted, supplied, workerVars, histVars>>

\* Mutant: the first chunks to come back are taken for unfilled ones too.
Reportable_Late == gen > 2 /\ i < input_count[idx]

\* There is a slot left to report; in generation 1 no chunk was filled before.
Reportable == gen > 1 /\ i < input_count[idx]

\* process(): without the filter, which module Filter states.
ProcessSlot ==
  /\ mpc = "process"
  /\ Reportable
  /\ out' = Append(out, [input |-> inputs[idx][i],
                         outs |-> [w \in Workers |-> outputs[w][idx][i]]])
  /\ i' = i + 1
  /\ UNCHANGED <<chunkVars, outputVars, configVars, mpc, gen, idx, exit_idx,
                 worker_restarted, supplied, workerVars, crashed>>

AdvanceIdx ==
  /\ idx' = NextIdx(idx)
  /\ gen' = NextGen(gen, idx)

\* Mutant: main leaves as soon as the mutator is exhausted.
AtExit_Early == exit_idx # NoExit
AtExit == idx = exit_idx

\* The chunk is processed: leave, fill it again, or, once the mutator is
\* exhausted, go on to the next one.
EndProcess ==
  /\ mpc = "process"
  /\ ~Reportable
  /\ \/ /\ AtExit
        /\ mpc' = IF ThreadMode THEN "join" ELSE "done"
        /\ UNCHANGED <<gen, idx>>
     \/ /\ ~AtExit /\ exit_idx = NoExit
        /\ mpc' = "fill"
        /\ UNCHANGED <<gen, idx>>
     \/ /\ ~AtExit /\ exit_idx # NoExit
        /\ mpc' = "wait"
        /\ AdvanceIdx
  /\ UNCHANGED <<chunkVars, outputVars, configVars, exit_idx, i, worker_restarted,
                 supplied, workerVars, histVars>>

\* Slots the mutator fills before it returns false or the chunk is full.
FillCount == IF TotalInputs - supplied < NSlots THEN TotalInputs - supplied ELSE NSlots

\* Mutant: the count is only stored for a full chunk.
NewCount_FullOnly(n) == IF n = NSlots THEN n ELSE input_count[idx]

\* What main stores as the chunk's input_count.
NewCount(n) == n

Fill ==
  /\ mpc = "fill"
  /\ inputs' = [inputs EXCEPT ![idx] =
                  [s \in Slots |-> IF s < FillCount THEN supplied + s + 1 ELSE @[s]]]
  /\ input_count' = [input_count EXCEPT ![idx] = NewCount(FillCount)]
  /\ supplied' = supplied + FillCount
  /\ exit_idx' = IF FillCount < NSlots THEN idx ELSE exit_idx
  /\ mpc' = "arm"
  /\ UNCHANGED <<generation, remaining_workers, outputVars, configVars, gen, idx, i,
                 worker_restarted, workerVars, histVars>>

Arm ==
  /\ mpc = "arm"
  /\ remaining_workers' = [remaining_workers EXCEPT ![idx] = NWorkers]
  /\ mpc' = "publish"
  /\ UNCHANGED <<generation, input_count, inputs, outputVars, configVars, gen, idx,
                 exit_idx, i, worker_restarted, supplied, workerVars, histVars>>

Publish ==
  /\ mpc = "publish"
  /\ generation' = [generation EXCEPT ![idx] = gen]
  /\ mpc' = "wait"
  /\ AdvanceIdx
  /\ UNCHANGED <<remaining_workers, input_count, inputs, outputVars, configVars,
                 exit_idx, i, worker_restarted, supplied, workerVars, histVars>>

JoinThreads ==
  /\ mpc = "join"
  /\ \A w \in Workers : wpc[w] \in {"exited", "failed"}
  /\ mpc' = "done"
  /\ UNCHANGED <<chunkVars, outputVars, configVars, gen, idx, exit_idx, i,
                 worker_restarted, supplied, workerVars, histVars>>

Terminated == ~MainAlive /\ UNCHANGED vars

-----------------------------------------------------------------------------

Main == \/ WaitForWorkers \/ RestartWorker \/ EndRestarts \/ ProcessSlot
        \/ EndProcess \/ Fill \/ Arm \/ Publish \/ JoinThreads

Worker(w) == Load(w) \/ BeginChunk(w) \/ Decode(w) \/ Crash(w) \/ FinishChunk(w) \/ CheckExit(w)

Next == Main \/ SigchldHandler \/ (\E w \in Workers : Worker(w)) \/ Terminated

Spec == Init /\ [][Next]_vars

\* Every process and thread is scheduled, a pending signal is delivered, and
\* try_decode returns or crashes.
Fairness ==
  /\ WF_vars(Main)
  /\ WF_vars(SigchldHandler)
  /\ \A w \in Workers : WF_vars(Worker(w))

FairSpec == Spec /\ Fairness

-----------------------------------------------------------------------------
(***************************************************************************)
(* Properties                                                              *)
(***************************************************************************)

\* Worker w is at a fill of the ring before the last published one of chunk c.
Behind(w, c) ==
  wgen[w] < generation[c] \/ (wgen[w] = generation[c] /\ widx[w] < c)

\* ... or at that one.
AtFill(w, c) == wgen[w] = generation[c] /\ widx[w] = c

\* Worker w has not yet given back the last published fill of chunk c.  A
\* worker that was reaped and not forked again counts as if it had.
Owes(w, c) ==
  Behind(w, c) \/ (AtFill(w, c) /\ wpc[w] \notin {"check", "exited", "reaped", "gone"})

Debtors(c) == {w \in Workers : Owes(w, c)}

\* remaining_workers is at all times the number of workers that owe the chunk:
\* the handler's decrement (line 327) and main's increment (line 451) cancel
\* out, and the unsigned counter never wraps below zero.
RemainingWorkersExact ==
  mpc # "killed" =>
    \A c \in Chunks :
      remaining_workers[c] = IF mpc = "publish" /\ c = idx THEN NWorkers
                                                           ELSE Cardinality(Debtors(c))

\* Worker w reads or writes chunk c, or will before it waits again.
Holds(w, c) ==
  /\ widx[w] = c
  /\ \/ wpc[w] \in {"decode", "crashed", "reaped"}
     \/ wpc[w] \in {"load", "wait", "failed"} /\ generation[c] = wgen[w]

\* While main reads the outputs of a chunk or overwrites its inputs (lines
\* 463-488) no worker is inside that chunk, waits to be restarted in it, or
\* could enter it.
ChunkExclusive ==
  mpc \in {"process", "fill", "arm", "publish"} => \A w \in Workers : ~Holds(w, idx)

\* What the handler deduces from `remaining' (lines 312-320) is true: a crashed
\* worker has exactly one unfinished chunk, the one it died in, and
\* input_count - remaining is the slot it died at; a worker that left worker()
\* normally has none and is ignored; one that could not be loaded again after a
\* crash is still found where it had crashed.
CrashPositionExact ==
  \A w \in Zombies :
    /\ wpc[w] = "crashed" => Unfinished(w) # {}
    /\ wpc[w] = "exited" => Unfinished(w) = {}
    /\ Unfinished(w) # {} => Unfinished(w) = {widx[w]} /\ CrashSlot(w) = wi[w]

\* Cohorts are written in the order the mutator made their inputs, each exactly
\* once, through ring wrap-around, crashes and restarts.
CohortsInOrder == \A k \in 1 .. Len(out) : out[k].input = k

\* Every output of a cohort is the verdict of that worker on that very input:
\* never one of an earlier fill of the slot, "crash" exactly if the worker
\* crashed on it (S_CRASH is set by line 317 and not undone by the restart).
VerdictsMatchInput ==
  \A k \in 1 .. Len(out) : \A w \in Workers :
    out[k].outs[w] = [of |-> out[k].input,
                      status |-> IF <<w, out[k].input>> \in crashed THEN "crash" ELSE "decoded"]

\* When main leaves its loop every candidate of the mutator has been written.
CompleteOutput == mpc = "done" => Len(out) = TotalInputs

\* Main overwrites the inputs of a chunk only after writing all their cohorts.
NoUnreportedOverwrite ==
  [][\A c \in Chunks : inputs'[c] # inputs[c] =>
       \A s \in 0 .. input_count[c] - 1 : inputs[c][s] <= Len(out)]_vars

\* A worker goes through the chunks one by one, in order: neither a wrap-around
\* nor a crash and restart makes it skip or repeat one.
ChunksOneByOne ==
  [][\A w \in Workers :
       <<wgen[w], widx[w]>>' \in {<<wgen[w], widx[w]>>,
                                  IF widx[w] = NChunks - 1 THEN <<wgen[w] + 1, 0>>
                                                           ELSE <<wgen[w], widx[w] + 1>>}]_vars

\* "Not getting a full chunk indicates that we are exiting" (line 184): a worker
\* leaves its loop on the fill that ended the campaign.
ExitsOnLastChunk ==
  \A w \in Workers : wpc[w] = "exited" => widx[w] = exit_idx /\ AtFill(w, exit_idx)

\* A worker took the count of a later fill for the one it had been given.
StaleExit ==
  /\ exit_idx # NoExit
  /\ \E w \in Workers : wpc[w] \in {"exited", "gone"} /\ ~AtFill(w, exit_idx)

\* A worker process whose decoder could not be loaded (line 139): the handler
\* ignores it, or has it forked again if it had crashed before.
NotLoaded == \E w \in Workers : wpc[w] \in {"failed", "lost"}

\* The campaign ends, unless a worker left it too early (ExitsOnLastChunk) or
\* could not load its decoder.
TerminatesUnlessStaleExit == <>(mpc = "done" \/ StaleExit \/ NotLoaded)

\* In thread mode the campaign ends and every thread is joined, one crash ends all
\* of it, or a worker left it too early (ExitsOnLastChunk) and main waits for ever.
EndsOrKilled == <>(mpc \in {"done", "killed"} \/ StaleExit)

\* A crashed worker is forked again until it gives its chunk back, though main
\* may be waiting for another worker and another chunk when it dies.
CrashedResumes ==
  \A w \in Workers : wpc[w] = "crashed" ~> (wpc[w] = "check" \/ StaleExit \/ NotLoaded)
-----------------------------------------------------------------------------
(***************************************************************************)
(* The inductive invariant behind RemainingWorkersExact, ChunkExclusive    *)
(* and CrashPositionExact (proved in MishegosProofs).                      *)
(***************************************************************************)

\* Main has still to publish the fill number gen of chunk idx.
Filling == exit_idx = NoExit \/ mpc \in {"arm", "publish"}

\* Main took chunk idx back: it is processed, filled and published next.
Recycling == mpc \in {"process", "fill", "arm", "publish"}

\* The chunks before idx carry main's generation, the others the one before.
MainInv ==
  /\ mpc = "fill" => exit_idx = NoExit
  /\ Filling => \A c \in Chunks : generation[c] = IF c < idx THEN gen ELSE gen - 1
  /\ supplied <= TotalInputs
  /\ ThreadMode => mpc # "restart"

\* A worker is never ahead of main, and inside a chunk only while that fill is
\* the published one.
WorkerPosition(w) ==
  /\ Filling => wgen[w] < gen \/ (wgen[w] = gen /\ widx[w] <= idx)
  /\ wpc[w] \in {"decode", "crashed", "reaped"} => generation[widx[w]] = wgen[w]
  /\ wpc[w] \in {"check", "exited", "gone"} => generation[widx[w]] >= wgen[w]
  /\ ThreadMode => wpc[w] \notin {"crashed", "reaped"}

\* A worker has slots left in no chunk but the one it is at, and there exactly
\* those from wi on.
WorkerRemaining(w) ==
  /\ \A c \in Chunks : remaining[w][c] # 0 =>
       /\ c = widx[w] /\ AtFill(w, c)
       /\ wpc[w] \in {"load", "wait", "failed", "decode", "crashed", "reaped"}
       /\ remaining[w][c] = input_count[c] - wi[w]
  /\ wpc[w] = "decode" => remaining[w][widx[w]] = input_count[widx[w]] - wi[w]
  /\ wpc[w] \in {"crashed", "reaped"} => remaining[w][widx[w]] # 0

\* What the handler noted of a worker it reaped.
WorkerReaped(w) ==
  /\ sigchld[w] <=> wpc[w] = "reaped"
  /\ sigchld[w] => start_gen[w] = wgen[w] /\ start_idx[w] = widx[w]

\* No worker owes the chunk main recycles, and none is about to be forked into
\* it: main has seen every worker's flag, or will wait again.
RecycledInv ==
  /\ Recycling \/ (mpc = "restart" /\ ~worker_restarted) => \A w \in Workers : ~Owes(w, idx)
  /\ \A w \in Workers :
       Recycling \/ (mpc = "restart" /\ ~worker_restarted /\ w < i) =>
         ~(wpc[w] = "reaped" /\ widx[w] = idx)

KilledInv == ThreadMode /\ \A w \in Workers : wpc[w] = "gone"

\* The inductive invariant.
RingInv ==
  /\ TypeOK
  /\ mpc = "killed" => KilledInv
  /\ mpc # "killed" =>
       /\ MainInv
       /\ \A w \in Workers : WorkerPosition(w) /\ WorkerRemaining(w) /\ WorkerReaped(w)
       /\ RecycledInv
       /\ RemainingWorkersExact

-----------------------------------------------------------------------------
(***************************************************************************)
(* The inductive invariant behind CohortsInOrder, CompleteOutput,          *)
(* NoUnreportedOverwrite and VerdictsMatchInput, on top of RingInv (proved *)
(* in MishegosProofs).                                                     *)
(***************************************************************************)

\* Candidates in the fills of the ring before fill g of chunk c.
Preceding(g, c) == ((g - 1) * NChunks + c) * NSlots

\* Main wrote the inputs of chunk idx and has yet to store its generation.
Refilling == mpc \in {"arm", "publish"}

\* The fill that the inputs of chunk c belong to, 0 for none.
FillOf(c) == IF Refilling /\ c = idx THEN gen ELSE generation[c]

\* A fill holds consecutive candidates, and only the last one is not full.
ContentInv ==
  \A c \in Chunks :
    /\ FillOf(c) = 0 => input_count[c] = 0
    /\ FillOf(c) > 0 =>
         /\ \A s \in Slots : s < input_count[c] => inputs[c][s] = Preceding(FillOf(c), c) + s + 1
         /\ c # exit_idx => input_count[c] = NSlots

\* The fills made so far hold what the mutator supplied.  Once it is exhausted
\* main goes around the ring once more, up to the last fill.
SuppliedInv ==
  /\ exit_idx = NoExit => supplied = Preceding(gen, idx) + IF Refilling THEN NSlots ELSE 0
  /\ exit_idx # NoExit =>
       /\ FillOf(exit_idx) > 0
       /\ supplied = TotalInputs
       /\ supplied = Preceding(FillOf(exit_idx), exit_idx) + input_count[exit_idx]
       /\ Refilling => exit_idx = idx
       /\ ~Refilling =>
            /\ gen = generation[exit_idx] + IF idx <= exit_idx THEN 1 ELSE 0
            /\ \A c \in Chunks :
                 generation[c] = generation[exit_idx] - IF c <= exit_idx THEN 0 ELSE 1

\* Candidates in the fills main has reported before it comes to chunk idx.
Reported == IF gen = 1 THEN 0 ELSE Preceding(gen - 1, idx)

\* Every fill before the one in chunk idx was reported, all of it.
ReportedInv ==
  /\ mpc \in {"wait", "restart"} => Len(out) = Reported
  /\ mpc = "process" =>
       /\ Len(out) = Reported + i
       /\ IF gen = 1 THEN i = 0 ELSE i <= input_count[idx]
  /\ mpc \in {"fill", "arm", "publish"} => Len(out) = IF gen = 1 THEN 0 ELSE Reported + NSlots
  /\ mpc \in {"join", "done"} => Len(out) = TotalInputs

OrderInv ==
  /\ CohortsInOrder
  /\ mpc # "killed" => ContentInv /\ SuppliedInv /\ ReportedInv

\* What worker w has to say of input n in the end.
Verdict(w, n) == [of |-> n, status |-> IF <<w, n>> \in crashed THEN "crash" ELSE "decoded"]

\* The slot of its chunk that worker w decodes next.
Resume(w) ==
  IF wpc[w] \in {"decode", "crashed"} THEN wi[w]
  ELSE IF remaining[w][widx[w]] = 0 THEN 0 ELSE wi[w] + 1

\* Worker w is past the published fill of chunk c.
Ahead(w, c) ==
  generation[c] < wgen[w] \/ (generation[c] = wgen[w] /\ c < widx[w])

\* Worker w is through with slot s of the published fill of chunk c.
Through(w, c, s) ==
  \/ Ahead(w, c)
  \/ AtFill(w, c) /\ (wpc[w] \in {"check", "exited", "gone"} \/ s < Resume(w))

\* The verdicts of a worker stay in its output chunk until main writes the next
\* inputs.
VerdictsKept(w) ==
  \A c \in Chunks : generation[c] > 0 /\ ~(Refilling /\ c = idx) =>
    \A s \in Slots : s < input_count[c] /\ Through(w, c, s) =>
      outputs[w][c][s] = Verdict(w, inputs[c][s])

\* A worker that died in its chunk left the candidate it died on at slot wi.
DeathNoted(w) ==
  LET c == widx[w] IN
  remaining[w][c] # 0 /\ wpc[w] # "decode" =>
    /\ wi[w] < input_count[c]
    /\ <<w, inputs[c][wi[w]]>> \in crashed
    /\ outputs[w][c][wi[w]].of = inputs[c][wi[w]]

\* Candidates up to which worker w has come.
Reached(w) ==
  Preceding(wgen[w], widx[w]) +
    IF wpc[w] \in {"decode", "check", "exited", "gone"} THEN wi[w]
    ELSE IF remaining[w][widx[w]] = 0 THEN 0 ELSE wi[w] + 1

\* It crashed on none it has not come to.
NoCrashAhead(w) == \A p \in crashed : p[1] = w => p[2] <= Reached(w)

\* Main reports no candidate before every worker has come to the end of its fill.
NotOvertaken(w) ==
  Len(out) <= Preceding(wgen[w], widx[w]) +
                IF wpc[w] \in {"check", "exited", "gone"} THEN NSlots ELSE 0

WorkerVerdicts(w) == VerdictsKept(w) /\ DeathNoted(w) /\ NoCrashAhead(w) /\ NotOvertaken(w)

VerdictInv ==
  /\ VerdictsMatchInput
  /\ mpc # "killed" => \A w \in Workers : WorkerVerdicts(w)

\* With RingInv, inductive.
RecordInv == OrderInv /\ VerdictInv
=============================================================================
