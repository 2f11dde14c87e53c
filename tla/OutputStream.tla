---------------------------- MODULE OutputStream ----------------------------
(***************************************************************************)
(* The bytes mishegos writes to stdout: Mishegos with the stdio buffer of  *)
(* each process.  A cohort is written by process() as a sequence of        *)
(* write_output calls.  fork copies main's buffer; a worker process that   *)
(* returns from worker() calls exit(0) (line 288), which flushes its copy. *)
(*                                                                         *)
(* stdio is external: fully buffered, a full buffer is written out as one  *)
(* block, and all processes append to one open file.  What one             *)
(* write_output call writes is one part.  Main's exit may kill its workers *)
(* (PR_SET_PDEATHSIG) at any moment: they need not take another step.      *)
(***************************************************************************)
EXTENDS Mishegos

CONSTANT BufParts  \* bound: parts stdout's buffer holds

\* Threads share main's buffer: only processes have their own.
ASSUME OutputStreamAssumption == BufParts \in Nat \ {0} /\ ~ThreadMode

VARIABLES
  part,       \* write_output calls process() made for the current cohort
  buf,        \* main's unwritten parts
  inherited,  \* per worker process: the unwritten parts of main it was forked with
  stream      \* the file: parts and who wrote them

streamVars == <<part, buf, inherited, stream>>

MainId == -1

\* nworkers and the input, then soname_len, soname and the output slot of every
\* worker.
CohortParts == 2 + 3 * NWorkers

\* Part p of the cohort of input n.
PartOf(n, p) == [input |-> n, part |-> p]

Written(parts, by) ==
  [k \in 1 .. Len(parts) |-> [input |-> parts[k].input, part |-> parts[k].part, by |-> by]]

StreamInit == part = 0 /\ buf = <<>> /\ stream = <<>> /\ inherited = [w \in Workers |-> <<>>]

\* fwrite of one part.
Put(e) ==
  IF Len(buf) = BufParts
  THEN stream' = stream \o Written(buf, MainId) /\ buf' = <<e>>
  ELSE buf' = Append(buf, e) /\ UNCHANGED stream

\* One write_output call of process(), and with the last one the cohort.
WritePart ==
  /\ mpc = "process" /\ Reportable
  /\ Put(PartOf(inputs[idx][i], part + 1))
  /\ IF part + 1 = CohortParts
     THEN part' = 0 /\ ProcessSlot
     ELSE part' = part + 1 /\ UNCHANGED vars
  /\ UNCHANGED inherited

\* fork: the new process finds main's buffer in its own.
StreamRestartWorker ==
  /\ RestartWorker
  /\ inherited' = IF sigchld[i] THEN [inherited EXCEPT ![i] = buf] ELSE inherited
  /\ UNCHANGED <<part, buf, stream>>

\* Mutant: a crash flushes too.
Flushes_Always(w) == wpc'[w] # wpc[w] /\ wpc'[w] \in {"exited", "failed", "crashed"}

\* Worker w's process calls exit(0); a signal flushes nothing.
Flushes(w) == wpc'[w] # wpc[w] /\ wpc'[w] \in {"exited", "failed"}

StreamWorker(w) ==
  /\ Worker(w)
  /\ IF Flushes(w)
     THEN /\ stream' = stream \o Written(inherited[w], w)
          /\ inherited' = [inherited EXCEPT ![w] = <<>>]
     ELSE UNCHANGED <<stream, inherited>>
  /\ UNCHANGED <<part, buf>>

\* fflush(stdout) at the end of main.
FinalFlush == stream' = stream \o Written(buf, MainId) /\ buf' = <<>>

StreamEndProcess ==
  /\ EndProcess
  /\ IF mpc' = "done" THEN FinalFlush ELSE UNCHANGED <<stream, buf>>
  /\ UNCHANGED <<part, inherited>>

StreamOther ==
  /\ \/ WaitForWorkers \/ EndRestarts \/ Fill \/ Arm \/ Publish \/ SigchldHandler \/ Terminated
  /\ UNCHANGED streamVars

StreamNext ==
  \/ WritePart \/ StreamRestartWorker \/ StreamEndProcess \/ StreamOther
  \/ \E w \in Workers : StreamWorker(w)

StreamSpec == Init /\ StreamInit /\ [][StreamNext]_<<vars, streamVars>>

-----------------------------------------------------------------------------

\* What writer w wrote of s, up to each position.
WrittenUpTo(s, w) ==
  LET upto[n \in 0 .. Len(s)] ==
        IF n = 0 THEN <<>>
        ELSE IF s[n].by = w THEN Append(upto[n - 1], s[n]) ELSE upto[n - 1]
  IN  upto

WrittenBy(s, w) == WrittenUpTo(s, w)[Len(s)]

By(w) == WrittenBy(stream, w)

\* A worker writes at most one buffer of main's parts over the whole campaign,
\* however often it crashed, and none if it never did.  One whose decoder does
\* not load again after a crash writes one at every attempt.
RepeatsBounded ==
  \A w \in Workers :
    /\ By(w) # <<>> => \E n \in 1 .. TotalInputs : <<w, n>> \in crashed
    /\ w \notin MayFailLoad => Len(By(w)) <= BufParts

\* "Mishegos's binary output is a sequence of cohorts" (output_cohorts_format.md
\* line 18): every part follows the one before it in its cohort.
SequenceOfCohorts ==
  \A k \in 1 .. Len(stream) :
    /\ stream[k].part = 1 + ((k - 1) % CohortParts)
    /\ stream[k].part > 1 => stream[k].input = stream[k - 1].input
=============================================================================
