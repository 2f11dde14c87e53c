# Mishegos in TLA+

A TLA+ development of [mishegos](../src/README.md), a differential fuzzer for
x86 decoders. It models the fuzzer's ring of input chunks, its worker processes
and threads, the SIGCHLD handler that resumes crashed workers, start-up, the
futex wait/notify functions, the output stream, the cohort filter, the mutators
and their random generator, the decoder adapters, the engine behind the ghidra
adapter, `mish2jsonl` and the analysis passes. TLC checks the models on small
instances; TLAPS proves every invariant that TLC checks on runs that pass, and
the safety part of the refinements, for every instance. Paths
below are relative to the repository, `mishegos.c` is `src/mishegos/mishegos.c`.

## 1. Inventory

| component | state | operations | interacts with |
|---|---|---|---|
| Fuzzing ring: `main()` loop, `worker()`, `sigchld_handler()` (`mishegos.c:128-201, 297-334, 399-508`) | 16 shared `input_chunk`s (`generation`, `remaining_workers`, `input_count`, `inputs`), per worker 16 `output_chunk`s (`remaining`, `outputs`), `struct worker_config` (`start_gen`, `start_idx`, `sigchld`, `pid`), locals `gen`, `idx`, `exit_idx` | main: wait, restart, report, fill, publish, exit, join; worker: load, take a chunk, decode a slot, crash, give the chunk back, test for the end; handler: reap, locate the crash, mark for restart | shared memory and atomics between main and workers; fork and SIGCHLD; mutator called by main; filter and output stream called by main |
| Futex wait/notify (`mishegos.c:30-98`) | `val` and `waiters` of each atomic | wait_for, load, store, fetch_add, notify | used by main and workers for `generation` and `remaining_workers`; the handler changes the value without waking |
| Start-up (`mishegos.c:250-294, 336-439`) | `workers[]`, a pipe per fork | option parsing, reading `workers.spec`, `worker_start` handshake | forks workers; races with the handler through `pid` |
| Output stream (`mishegos.c:208-248, 507`) | stdio buffer of every process | `write_output`, flush when full and at exit | main's buffer is copied by fork |
| Cohort filter (`mishegos.c:203-235, 348-375, 433-438`) | `filter_*` variables | parse, normalise, decide | reads the outputs of all workers |
| Mutators (`mutator.c`) | the sliding candidate `insn_cand`, the random generator, stdin for `manual` | sliding, structured, havoc, dummy, manual | called by main for every input slot |
| Worker adapters (`src/worker/*`) | a library handle each | `worker_ctor`, `try_decode`, `worker_dtor` | called by `worker()` through dlsym |
| Ghidra SLEIGH glue (`ghidra.cc:30-174`, `src/worker/ghidra/sleighMishegos.*`) | the loader's window, the context database, one `ParserContext` with its buffer, context words and tree | `worker_ctor`; per decode `setData`, `obtainContext`, `resolve` with a tree walker, `printAssembly`; any may throw | used by the ghidra adapter; rests on Ghidra's symbols and walkers |
| `mish2jsonl` | one `cohort_results`, `m_finished_parsing` | read a cohort, write hex and escapes, print as JSONL or, with `-n`, as an array | reads the output stream |
| Analysis (`src/analysis/*`) | one object of each cohort | a chain of passes from `passes.yml` | reads JSONL |
| `mishmat` | none | JSONL to HTML | reads JSONL |

What is hard here, and what makes each component correct:

* **Ring.** Main and the workers only share two counters per chunk. The
  handler, which interrupts main anywhere, decrements a counter main waits on,
  and main increments it again when it restarts the worker. Correct means: the
  counter is exact; nobody is in a chunk main reports or refills; what the
  handler deduces from `remaining` is where the worker crashed; every candidate
  is reported once, in order, with the verdict each decoder gave on it; the
  campaign ends.
* **Futex.** A waiter registers, re-checks and sleeps while a notifier stores,
  looks for waiters and wakes. Correct means: no wake-up is lost, and the
  functions behave as the awaits the ring takes them for.
* **Output stream.** A fork in the middle of main's buffered output duplicates
  it. Correct means: the stream is a sequence of cohorts.
* **Filter.** The lengths of successful decoders are compared in one pass whose
  result must not depend on the order of the workers; negative bounds count
  from the number of workers.
* **Mutators.** Windows of a candidate longer than an instruction, slots that
  are reused. Correct means: no write leaves its buffer, a slot holds bytes of
  one candidate, every window is handed out once.
* **Start-up.** A child may die before its pid is stored: the pipe handshake
  makes it wait. Main may die in the middle of the handshake. Decoders that
  cannot be loaded leave without giving their chunk back. Correct means: the
  handler knows every child it reaps, a worker never has two processes, one that
  owes a chunk is never forgotten, no child waits for ever.
* **Adapters.** An output slot is used again and again, and is only partly reset
  between decodes. Correct means: nothing of an earlier input is reported with a
  later one, whatever path an adapter takes and wherever it crashes, and `len` stays
  within the slot.
* **Ghidra SLEIGH glue.** Every input is decoded at one address by one parser, and
  prefixes change the context in the middle of a parse. Correct means: the answer
  depends on the input alone, the many steps, exceptions and crashes of a parse
  look like one step to `worker()`, and every parse ends.
* **mish2jsonl, analysis.** A stream that ends anywhere, empty texts, passes that
  are missing or end with an error, chains of passes none of which was written
  for the others. Correct means: what arrived is printed and nothing else, a parser
  can read it, and a profile shows what `passes.yml` and the headers of its passes
  say it is for.

The line of each hazard, and the properties aimed at it, are in `PROJECT.json`
under `hazards`.

## 2. Modules

| module | models | main definitions |
|---|---|---|
| `Mishegos` | the ring, in process mode and in thread mode | worker: `Load`, `BeginChunk`, `Decode`, `Crash`, `FinishChunk`, `CheckExit`; handler: `SigchldHandler`; main: `WaitForWorkers`, `RestartWorker`, `EndRestarts`, `ProcessSlot`, `EndProcess`, `Fill`, `Arm`, `Publish`, `JoinThreads` |
| `Campaign` | what the ring promises: candidates drawn in order, judged by every worker at its own pace, reported in order, at most a ring ahead | `Draw`, `Judge`, `Report` |
| `CampaignRefinement` | the mapping of the ring onto a `Campaign` | `Judged`, `ImplementsCampaign` |
| `WaitNotify` | `mish_atomic_wait_for` and `mish_atomic_notify` step by step, on the two counters of one chunk, with the handler | `Check`, `Register`, `FutexWait`, `Unregister`, `Store`, `LoadWaiters`, `FutexWake`, `LoadFirst`/`LateStore` (reordering) |
| `AwaitChunk` | the same chunk with awaits: what `Mishegos` assumes | |
| `OutputStream` | `Mishegos` with stdio buffers: every `write_output` of `process()` is a step, forks copy the buffer, exits flush it | `WritePart`, `StreamRestartWorker`, `StreamWorker`, `StreamEndProcess` |
| `Filter` | `-s`, `-n` and the loop of `process()` | `ParseOption`, `Normalise`, `CountOutput`, `Decide` |
| `Processes` | `workers.spec`, `worker_start` with its pipe, pids, the handler and the restart loop, deaths of main and of workers anywhere | main: `ReadLine`, `Fork`, `StorePid`, `WriteByte`, `RestartLoop`, `NextRound`; child: `AskForSignal`, `CloseWriteEnd`, `ReadByte`, `ReadEof`; `SigchldHandler`, `Killed` |
| `Mutators` | the five mutators and the loop of main that fills slots with them | one action each |
| `Decoders` | `Mutators` with a worker behind it: what `worker()` resets and what each of the eleven adapters leaves in the output slot | one operator per adapter, `Cleared`, `DecodeSlot` |
| `Rng` | `xoroshiro256_next`, a word being the set of its one bits | `NextState`, `Random` |
| `Sleigh` | the engine behind the ghidra adapter: one call of `printAssembly` after the other, over any grammar | `WorkerCtor`, `ObtainContext`, `ResolveLeaf`, `ResolveSubtable`, `FinishConstructor` |
| `GhidraWorker` | `Decoders` with ghidra's `try_decode` around `Sleigh`, and a reference disassembler | `Begin`, `Step`, `Return`, `Crash`; `Instruction` |
| `Hex` | hex digits as `mish2jsonl` writes them and the manual mutator reads them | `Hexbuf`, `Hex2Bytes` |
| `Json` | `json_escape_string`, and the part of a JSON parser that reads it | `Escape`, `ReadAll` |
| `Mish2Jsonl` | the bytes `process()` writes, cut anywhere, and the reader of them | one action per `m_fread`, `PrintCohort` |
| `Passes` | every analysis pass and every profile, as operators on a line | one operator per pass, `Raises`, `Profile`, `Chain` |
| `Report` | `Mish2Jsonl` piped into the passes of a profile, each a process | `ReaderStep`, `PassLine`, `PassFails` |
| `MCMishegos`, `MCOutputStream`, `MCFilter`, `MCProcesses`, `MCDecoders`, `MCReport` | values of the constants for TLC | |
| `MishegosProofs`, `CampaignProofs`, `WaitNotifyProofs`, `ProcessesProofs`, `FilterProofs`, `DecodersProofs`, `JsonlProofs`, `ReportProofs` | the proofs | |

`Mishegos`, `Filter` and `OutputStream` split one function, `process()`:
`Mishegos` reports every cohort, `Filter` says which are kept, `OutputStream`
how one is written.

Correspondence. Variables have the names of the code's; `mpc` and `wpc` are the
places main and each worker can be at, `out` and `crashed` are history. The
grain of the steps is the code's shared accesses: an action touches at most one
atomic or belongs to data that only its process may touch then
(`ChunkExclusive` is the property that justifies it for the chunk's contents).
`input_count` is the exception the model keeps: `CheckExit` reads it when the
chunk is no longer the worker's. `Crash` leaves the status of the slot alone,
as the code does: it still holds the verdict on an earlier input until the
handler writes `S_CRASH`. The handler is one step, since main is suspended
while it runs and it shares nothing but atomic additions with live workers.

`Processes` looks at the same handler and the same restart loop from the other
side: of the chunks it keeps only whether a worker left one unfinished, of a
process what it does between `fork` and `worker()`. Together with `Mishegos`,
where forking is one step, it covers lines 250-334 and 399-461.

`Sleigh` builds the parse tree as a function from the path of operand numbers to a
node, one operand a step; `crumbs` is the walker. The grammar is a constant:
which constructor fits a byte in a context, what it does to the context, its
operands with the operand each counts its offset from. `GhidraWorker` puts it
where `Decoders` has one step, and shows that this is right: seen through the
variables of `Decoders`, a call is one `DecodeSlot` (`ImplementsDecoders`).

`Report` composes two programs and up to seven passes, which only share pipes:
`pipe[k]` holds the lines pass `k` has still to read.

## 3. What TLC checks

| run | instance | shows |
|---|---|---|
| `ring` | 2 workers, 2 chunks of 2 slots, 7 candidates, six possible crashes, worker 1 may fail to load (also after a restart), fair | `RemainingWorkersExact`, `ChunkExclusive`, `CrashPositionExact`, `CohortsInOrder`, `VerdictsMatchInput`, `CompleteOutput`, `NoUnreportedOverwrite`, `ChunksOneByOne`, the inductive `RingInv`; the ring implements `Campaign`; `CrashedResumes`, `TerminatesUnlessStaleExit` |
| `threads` | thread mode, 2 workers, 2 chunks of 2 slots, 6 candidates (each chunk is filled twice, the last fill is empty), some crashes, fair | `CompleteOutput`; `EndsOrKilled`: the campaign ends and every thread is joined, or one crash ends everything, or a worker left on a stale count (finding 1) and main waits |
| `stale_exit` | 1 slot per chunk, 3 candidates, no crash | **violated**: a worker leaves before the last chunk (finding 1) |
| `futex` | 2 workers, 2 fills, 1 crash, machines that keep a load behind the store before it (x86) and machines that do not | `FutexInv`, `NoLostWakeup` on the former, and that the functions implement `AwaitChunk`, on the former with its fairness |
| `futex_arm` | the same | **violated**: on the latter a wait hangs (finding 2) |
| `processes` | 2 workers, 3 process numbers, four `workers.spec`: with a comment, with more lines than workers fit, with a file that is missing, without the last newline | `DeathsAreKnown`, `OneProcessPerWorker`, `NobodyForgotten`, `WorkersAsListed`, the inductive `ProcInv`, `HandshakeEnds` |
| `orphans` | the same | **violated**: a child works on without main (finding 3) |
| `stream` | 2 workers, 1 slot per chunk, 4 candidates, a buffer of 6 parts (a cohort has 8, so that it is written in pieces) | `RepeatsBounded`: a worker that never crashed repeats none of them, one whose decoder loads again after a crash at most a buffer (one whose decoder does not load writes a buffer at every attempt) |
| `stream_dup` | the same | **violated**: the stream is not a sequence of cohorts (finding 4) |
| `filter` | 3 workers, numbers -5..4 at and beyond both ends, two lengths | `KeepsExactly`: what is kept is what the bounds and `-n` say; `OptionsMean`: 0, 1, 1:-1, 1:-2 and 1:0 are what the usage text says, a lone -1 is not (section 5); `FilterInv` |
| `decoders` | all mutators over one slot used over and over, up to three lines of 0, 1, 2, 30 and 31 digits; all adapters, texts of 192, 247, 248 and 249 bytes, crashes before, between and after the stores of an answer; ghidra over two lines of 1 to 6 digits, a buffer of 4 bytes of 4 classes, a grammar of 8 constructors in 3 tables | `WithinBuffers`, `OneCandidate`, `SlidesThrough`, `CampaignDrawn`; `NothingOld`, `TextFits`; `SingleShot`, `ImplementsDecoders`, `CallsReturn`; that `Rng` computes two known numbers |
| `report` | all profiles; a campaign of two cohorts whose stream ends after each of its bytes, as JSONL and as an array, whole campaigns of one or two cohorts by two, three and five decoders in every combination of answers, an input twice, also with contradicting answers, a decoder twice, cohorts all of whose decoders fail, campaigns without a decoder that a pass looks at, texts with quotes, backslashes and control characters | `PrintsWhatArrived`, `WellFormed`, `ProfileShowsWanted` |

Why the bounds are enough to meet the interesting cases. Seven candidates
in a ring of four slots fill every chunk twice or nearly (the last fill is short), so
generations advance, slots are overwritten and `exit_idx` is reached after a wrap-around;
crashes are possible at the last slot of a chunk, at the first, in both workers on the
same candidate and twice in a row in one worker, in the first fill of a chunk and in a
later one. With two workers
one can be waiting while the other crashes or main restarts it. A campaign
whose candidates are a multiple of the slots ends with an empty chunk, which
`threads`, `stale_exit` and `stream` meet; `threads` meets it after the ring was refilled,
with the stale exit of finding 1 on the way. In the futex runs a chunk is filled
twice, so that a value that was waited for is overtaken. Three process numbers
for two workers let a restarted worker get a number that is not the one of its
predecessor while the other worker lives, and a number be given out again.
The filter's, the mutators' and the adapters' inputs include both sides of each
comparison in the code. The small grammar has a prefix that changes how long an
immediate is, an operand that follows another one of any length, a subtable
below a subtable, and bytes that no table takes; with 4 bytes for 16 the
end of the buffer is met in the middle of each of them. The reference of `SingleShot` is defined for
calls nested `Calls` deep and says "unknown" beyond; 20 is enough for every buffer of the
instance (`AllKnown`, which TLC evaluates). Other modes than JSONL are
looked at where streams are cut, with one profile behind: the array is not piped
into passes.

`CHECK_DEADLOCK FALSE` is given where the system really may stop: in process
mode main waits forever for a worker that failed to load, in either mode for one
that left on a stale count, and in the futex runs a machine that reorders may hang.

**Fairness.** `FairSpec` and the fairness of `WaitNotify` and `Processes` are weak fairness of
each process or thread and of signal delivery: the operating system schedules
every runnable process, delivers a pending SIGCHLD, and a decoder returns or
crashes. Nothing is assumed of the order between processes, nor of the futex
beyond its kernel semantics. A decoder that loops forever is not covered: the
fuzzer has no timeout for it and hangs. `GhidraSpec` asks for the engine's next
step and for the return from a call, since a single thread runs them, and for
nothing else: that a call of ghidra's returns (`CallsReturn`) is then a fact about
the walker.

## 4. What is proved

TLAPS proves for all values of the constants (with no more than the `ASSUME`s of the
modules, which only type them):

* `MishegosProofs`: `Spec => []RingInv`, and from it `TypeOK`,
  `RemainingWorkersExact`, `ChunkExclusive`, `CrashPositionExact` and
  `ChunksOneByOne`, for any number of workers, chunks, slots and candidates,
  any crashes and load failures, both modes. In the same generality `RecordInv`, and from it `CohortsInOrder`,
  `CompleteOutput`, `NoUnreportedOverwrite` and `VerdictsMatchInput`.
* `CampaignProofs`: `ImplementsCampaign`, that is, `Mishegos` implements
  `Campaign`, for processes (in thread mode a crash ends the campaign). Of the
  stream: `OutputStream` implements `Mishegos` (`StreamImplementsRing`), so that
  everything above holds of it, and `RepeatsBounded`, for any
  buffer size and any number of outputs in a cohort.
* `WaitNotifyProofs`: `FutexInv` and `NoLostWakeup` for any number of workers,
  fills and crashes and both kinds of machine; `NoLostWakeup` speaks of those
  where a load is not performed before an earlier store (`ordered`), and
  `futex_arm` shows why it must. `StepsOfAwait`, the safety part of
  `ImplementsAwait`: `WaitNotify` implements `AwaitChunk`, on both kinds.
* `ProcessesProofs`: `ProcInv`, and from it `DeathsAreKnown`,
  `OneProcessPerWorker`, `NobodyForgotten` and `WorkersAsListed`, for any table size, any
  `workers.spec` and any set of process numbers, whoever dies when.
* `DecodersProofs`: `WithinBuffers`, `OneCandidate`, `SlidesThrough` and
  `CampaignDrawn` for any number of slots, any stdin and any choice of mutators. The generator only reaches the state zero from the state zero, and
  stays there. Behind the mutators, for every adapter: `DecodersTypeOK`, `NothingOld`
  and `TextFits`, for any lengths of text and any sizes the libraries may report and
  crashes before, between and after an adapter's stores. `TextFits` makes one exception: bfd
  adds up lengths that `vsnprintf` had to cut, so that its `len` may be too large by
  as much (section 5), and `NothingOld` then speaks of what the slot has room for.
  In the same module, for any grammar, buffer and junk behind the input, `GhidraWorker`
  implements `Decoders`: every call of ghidra's, however many steps the engine makes and
  wherever it crashes, is one answer its one-step adapter allows
  (`GhidraImplementsDecoders`, and `ImplementsDecoders` as the run has it). So all that
  is proved of the adapters holds with the engine spelled out. And `SingleShot`: the engine answers
  as the reference `Instruction` does, which disassembles the input's bytes by structural
  recursion and knows of no call before. The theorems use `FieldsAssumption`, which says
  what x86 grammars have (fields of at most 8 bytes, which the bound 23 on sizes
  rests on).
* `JsonlProofs`: `PrintsWhatArrived` and `WellFormed`, for any campaigns, any names that
  need no escapes (`PlainName`), any texts without a zero, streams that end anywhere and both modes. On the
  way: a JSON parser reads from an escaped text the same bytes
  (`EscapeRoundTrip`; a text ends at its first zero, and bytes of 128 and above go through as they
  are: whether they are UTF-8, which JSON asks for, is not looked at), and so does the manual mutator from an input that `mish2jsonl`
  printed (`HexRoundTrip`).
* `ReportProofs`: `ProfileShowsWanted`, for any campaigns, of any length and by any
  decoders, and for every profile of `passes.yml`. What a profile is for is written after
  `passes.yml` and the headers of its passes, in two parts: `Wanted` is what it is there to
  find, `Unwanted` what it must not show. For most profiles every line is one or the other. Four
  leave something between them, which the passes show and the sources do not ask for:
  `same-size-different-decodings` (equal decodings, section 5) and the three `destroy-*` (lines on
  which the decoder sides with one of the others, section 5). The property says that a profile
  shows all wanted lines and no unwanted one, in order, minimized and normalized, no input
  twice if it dedupes. Passes may end with an error: then it misses only what lies behind a
  line that lacks a decoder the profile is about (`Lacks`). Which lines
  are shown is only prescribed of those that can be judged (`Judgeable`): no decoder is there twice,
  somebody succeeds (the fuzzer drops cohorts of failures unless told otherwise), one
  that succeeds has used a byte, xed, bddisasm, zydis, capstone and ghidra leave
  `ndecoded` at 0 when they fail (their adapters do), and an input that comes twice is answered
  alike. Of other lines the profiles do show some that are not wanted: if the only
  decoder to accept an input says it used no byte, `minimize-input` takes the
  cohort for one of failures, and `status-discrepancies` misses it. The rest of the property holds
  of campaigns with such lines too, and of the lines among them that can be judged.
* `FilterProofs`: `FilterInv`, and from it `KeepsExactly` and `OptionsMean`, for any number and order of
  workers and any options.

Why the invariants need strengthening. `RemainingWorkersExact` says that the
counter is the number of workers that owe the chunk; whether a step changes who
owes it depends on where each worker is relative to main. `RingInv` adds: the
generation of each chunk is a function of main's position while it still fills
(`MainInv`); no worker is ahead of main, and one inside a chunk is at that
chunk's published fill (`WorkerPosition`); a worker has slots left only in the
chunk it is at, and exactly those from its slot on, which is what makes the
handler's deduction true (`WorkerRemaining`); what the handler noted of a reaped
worker is where that worker is (`WorkerReaped`); and once main has seen the
counter at zero and gone through all flags, nobody owes the chunk and none is
about to be forked into it (`RecycledInv`). The proof has one lemma per action and
under it one step per conjunct; a lemma on cardinalities relates the set of
debtors before and after.

`RecordInv` goes on from there, in two parts. What main does alone: every fill holds
consecutive candidates starting where the fill before it ended (`ContentInv`, with
`Preceding` for the place of a fill in the campaign), the mutator supplied exactly those
of the fills so far, and once it is exhausted main goes round once more, up to the
last fill (`SuppliedInv`); what was reported when main comes to a chunk is all that
lies before the fill in it (`ReportedInv`). Order and completeness of the cohorts
follow. What a worker adds: each slot it is through with keeps its verdict in
the output chunk until main writes new inputs there (`VerdictsKept`), one that
died left the candidate it died on in its slot, where the handler looks (`DeathNoted`), no crash
is noted on a candidate it has yet to come to (`NoCrashAhead`), and main
reports nothing it has not passed (`NotOvertaken`). A step of one worker touches
another one's part only through `crashed`, so the proof follows one worker at a time.
`CampaignProofs` adds that no worker waits for a fill after the last (`BeyondInv`);
then the number of candidates a worker has judged (`Judged`) grows by one in a decode
or when the handler finds a crash, and in no other step, in particular not where a worker
gives a chunk back, goes to the next one, dies or is started again.

`FutexInv` adds that `waiters` counts the registered
processes, that a process only goes to sleep on a value other than its target,
and that an ordered machine did no load early. `ProcInv` adds: the table has the pid of every
child but the one main has just forked (`PidsKnown`); that one has not been
answered, so it can neither run nor die (`ChildWaits`); a worker that is flagged or
being forked has no child (`ForkIsSafe`); and a dead child means a pending
signal. The first two make `DeathsAreKnown` true: a child that is dead was
answered, was therefore stored, and is found. `MutInv` adds to the mutators' properties which
windows were handed out below the current offset, and that the lines handed out
are those read but for the one that ended the input. `DecInv` says that a decoded slot
holds an answer of its own call; one lemma per way to answer covers the adapters. `StreamInv` says that what main
wrote and what it still holds are the parts so far, that a worker only comes to have
parts of main once it crashed, never more than a buffer of them, and that one whose
decoder loads writes them as it leaves for good.
`FilterInv` says what the counters of
`process()` mean for the outputs looked at so far, and what the bounds are made of.

`EngineInv` is about the stack: the walker's `crumbs` and the tree under
construction are, together, a stack of unfinished questions "which text and size has
this table at this offset", each with its operands answered up to some number; what
the reference answers to the first of them is what it
would answer if the answers to those above were filled in
(`ResolvingOK`). `ResolveLeaf`, `ResolveSubtable` and `FinishConstructor` answer, push
or pop one question, and each step leaves that final answer as it was. So when the stack is
empty the tree holds what the reference says (`PrintOK`), and when the engine throws
there is no answer (`ThrownOK`). `InCall` ties a parse to the candidate that was taken, and `ShotInv`
carries the answer from the return to the next call. The recursions (a reference that is
a function of the depth, the stack) are followed by well-founded induction over sets of
numbers, since the library's induction theorems cannot be instantiated.

`ReaderInv` says where `read_next` is: in cohort n + 1, at the byte where the field
starts that its place in the code reads, with everything before it gathered
(`AtCohort`, `AtInput`, `AtField`, `AtPrint`); or the stream ends in cohort n + 1
(`EndsIn`), and then `m_fread` has noticed, is about to, or never will since the end is
behind the first byte of the last text (`AtCut`), which is the one case in which
something of that cohort is printed. Each action has a lemma, with the two cases of
a field that is there and one that is not; that fields lie where they are read
(`StreamLies`, `CohortLies`, `RecordLies`) follows from how `process()` puts them
together. `DocumentInv` says what the document is after n objects.

`PipeInv` is about the pipeline at any moment. For each pass `k` there is a line `p[k]`
up to which it has read (`p[0]` is how much `mish2jsonl` has printed); a pass never
is ahead of the one before it, and what waits in front of it are, in order, the
lines behind `p[k]` and up to `p[k - 1]` that all passes before it let through
(`Alive`), changed as they change them (`Stage`). What dedupe has met are the inputs of
the lines it has read, so it lets through the first one of each (`First`). An action moves one
`p[k]` by one line, or by as many as were thrown away on the way (`Waiting`). When
all pipes are empty every `p[k]` is the last line, and stdout holds the lines alive
behind the last pass (`PipesEnd`). A pass that has ended with an error stays at the line that made
it end (`FailInv`), which lacks a decoder the pass looks at. Behind the last pass that is
stuck in this way the pipes are empty in the end, and what is on stdout are the lines
alive before that line (`LeftUpTo`). What is left is to say which lines these are, profile by
profile, for which a chain of two to seven passes becomes one condition on a
line (`WantedPasses`): here minimizing comes before other passes look at the line, here xed's vote
among three becomes "two of the others", here a decoder that is alone disagrees with each other one
(`AloneDisputes`), and here `Judgeable` is
used. The lines themselves are what `JsonlProofs` says `mish2jsonl` prints.
`Passes` picks elements of a sequence by their places (`Subsequence`), as the prover
knows nothing of `SelectSeq` and of sorting.

Only model-checked: liveness (`ring`, `threads`, `futex`, `processes`, `decoders`) and the
fairness part of `ImplementsAwait`, which are out of the prover's reach. Every
invariant and action property the passing runs check is a theorem.

## 5. Findings

1. *Early exit* (`mishegos.c:184`). "Not getting a full chunk indicates that we
   are exiting", but the count is read after the chunk was given back: main may
   have refilled it with the last, short batch in between. The worker leaves,
   never decodes that batch and main waits for it forever. Needs one worker to be
   suspended between two instructions while main goes round the ring, so a ring
   of 16 chunks makes it rare.
2. *Lost wake-up off x86* (`mishegos.c:95`). The relaxed load of `waiters` may be
   performed before the store of the value is visible; `README.md:59` says that
   the program runs on Apple Silicon. On x86 the store is a locked instruction
   and the window does not exist (`futex`, `WaitNotifyProofs`). The futex code
   itself is only compiled where `WITH_FUTEX` is defined.
3. *Orphans* (`mishegos.c:279-292`). A child asks for SIGHUP on its parent's
   death once it runs. If main has written the byte already and dies before that,
   for instance because the next line of `workers.spec` names a file that cannot
   be read, the child comes too late with its request, finds the byte in the pipe
   and waits in `worker()` forever, contrary to the comment at line 283.
4. *Repeated output* (`mishegos.c:273-289`). A worker restarted after a crash
   inherits main's unwritten stdout buffer and flushes it when it exits;
   `docs/output_cohorts_format.md:18` calls the stream a sequence of cohorts.

Seen while reading. In the models, and where a property runs into them an exception it
makes, but without a run of their own:

* *bfd's length* (`bfd.c:31-32`): "disassembly buffer overrun?" asks the assertion at line 28
  of the offset into bfd's buffer; the offset grows by what `vsnprintf` would have
  written, and is looked at only before a text is printed, and only where assertions are
  compiled in. With a text of 248 characters or more the slot's `len` is 249 or more, and as
  many bytes are copied (`Bfd`; the exception in `TextFits`). It takes an instruction whose
  disassembly is that long; we know of none. What lies behind the slot is not modelled;
* *`-s -1`* (`mishegos.c:434`): the usage text (line 367) and a comment (line 350) say that -1 is
  `nworkers - 1`; the code adds `nworkers + 1`, so that it is `nworkers`, as it must be for what
  the same text says of 1:-1 and 1:-2 (`OptionsMean`);
* *equal decodings* (`analysis:145`): `same-size-different-decodings` names the pass
  `filter-same-effects`, which does not exist and is dropped silently, so that cohorts whose
  decodings are equal are shown; `passes.yml:12` says that one or more decodes differently
  (`Wanted` against `Unwanted`);
* *not alone* (`filter-destroy-capstone:23`, and its like): lines on which the decoder agrees with all
  but one of the others are kept, though the headers say that only the decoder gets them
  right or wrong (`Wanted` against `Unwanted`);
* the dummy mutator fills its slot and returns false, so that main does not
  count the slot and nothing is written (`mutator.c:404-407`; action `Dummy`);
* `-s 3:` has a maximum of 0 (`mishegos.c:352`; `ParseOption`);
* the last line of `workers.spec` is ignored when it lacks a newline
  (`mishegos.c:408`; `HasLine`);
* the manual mutator takes a blank or overlong line for the end of its input
  (`mutator.c:430`; `Manual`) and drops an odd digit;
* `ndecoded` is not always a number of bytes of the input: dynamorio is not given
  the length, ghidra reads zeros behind the input (`ghidra.cc:55-67`), bfd's
  negative answers become 65535 (`bfd.c:94-111`), bfd and iced store it for what
  they reject (`Dynamorio`, `Ghidra`, `Bfd`, `Iced`);
* an input of no bytes, which a line of one digit is, lets the ghidra adapter's
  loader hand out 16 bytes from the slot on, the ones of earlier inputs and of what
  lies behind it: the window's last address wraps (`ghidra.cc:57`; `InWindow`).
  `SingleShot` leaves such inputs out;
* the answer of `getrandom` is not looked at (`mutator.c:441`); with a seed of zeros
  all random candidates would be the same (`StuckForGood`);
* `mish2jsonl` escapes texts but not the names of decoders (`mish2jsonl.c:127`), so that a
  path with a quote or a backslash in `workers.spec` makes its output unreadable; names
  are assumed to have none (`PlainName` in `Mish2JsonlAssumption`);
* `mish2jsonl` prints a `workerno` it never reads, and a last text that is cut
  short is printed as far as it goes (`mish2jsonl.c:127, 136-143`;
  `PrintsWhatArrived` says that this is the only case);
* `minimize-input` is not, as its comment guesses, the same as `filter-all-failure`: it also drops a cohort
  of failures and crashes.

## 6. Abstractions, and what is not modelled

* A candidate is a number in `Mishegos`, the content of an output slot the
  candidate it was written for and a status; a length in `Mutators` and
  `Decoders`, a text a length; classes of bytes in `Sleigh`; bytes only in `Hex`,
  `Json`, `Mish2Jsonl` and `Passes`. Hex digits the manual mutator reads are taken to be
  ASCII.
* The wait functions are awaits in `Mishegos` (justified by `WaitNotify`),
  forking is one step (looked into by `Processes`).
* Generations do not wrap (they are 32 bits wide in memory and 64 in main).
* A process number is not given out again while the table of workers holds it.
* The decoders' libraries are external: they answer, refuse or crash. The sizes
  they report are those of the bytes they may look at; the texts of capstone
  (fixed-size strings) and of ghidra are taken to fit the slot, those of the other libraries may have any
  length, as far as they do not refuse or cut them themselves. A crash of a library may come
  before, between or after the adapter's stores. What bfd's copy of too long a text
  writes behind the slot is not modelled.
* Passes handle a line in one step; Ruby's buffering only delays lines. A text has
  no zero byte, blanks are spaces and newlines.
* Ghidra's own classes (`ParserContext`, `ParserWalker`, `ContextCache`, the symbols)
  are external to `Sleigh`; only what this code relies on is modelled.
* Not modelled: the p-code half of `sleighMishegos.*` (`PcodeCacher`, `SleighBuilder`,
  `DisassemblyCache`, `resolveHandles`), which nothing reaches since `oneInstruction`
  throws at once; delay slots, which x86 has not, and context commits, which only
  p-code applies. `mishmat` and the build files (layout and no state; `mishmat -l N`
  shows one row more than N). `analysis -d` (messages), `order!` of `analysis`
  (unused), constructors of the adapters other than ghidra's (a failing one is an exit
  of the worker), the option loop of `main` but for `-s` and `-n`.

## 7. Plan

Done: all modules of section 2 and the eight proof modules.

What would be worth adding: the wrap-around of the 32-bit generations, with the
ring's invariant in terms of their difference; and which of the conditions of
`Judgeable` each profile needs.
