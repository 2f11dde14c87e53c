----------------------------- MODULE Processes ------------------------------
(***************************************************************************)
(* The worker processes of mishegos (src/mishegos/mishegos.c): reading     *)
(* workers.spec, worker_start with its pipe, and the SIGCHLD handler that  *)
(* finds a dead child by its pid, as built on Linux.                       *)
(*                                                                         *)
(* Of worker() only what the handler sees is kept: whether the worker left *)
(* a chunk unfinished.  Pipes, signals and process numbers are the         *)
(* kernel's: SIGCHLD is pending once however many children died, a read    *)
(* returns nothing once every write end is closed, a child of a dead       *)
(* parent is killed if it had asked for that, and a number is not given    *)
(* out again while the table of workers still holds it.                    *)
(***************************************************************************)
EXTENDS Integers, Sequences, FiniteSets

CONSTANTS
  SpecFiles,    \* bound: what workers.spec may hold
  MaxNWorkers,  \* MISHEGOS_MAX_NWORKERS
  Pids          \* bound: process numbers

\* A comment, a shared object, or one that cannot be read, as a blank line.
Line == {"comment", "so", "missing"}

\* Whether the last line, if there is one, ends with a newline.
SpecFile == {f \in [lines : Seq(Line), newline : BOOLEAN] : f.lines = <<>> => f.newline}

ASSUME ProcessesAssumption ==
  SpecFiles \subseteq SpecFile /\ MaxNWorkers \in Nat \ {0} /\ Pids \subseteq Nat \ {0}

Table == 0 .. MaxNWorkers - 1

VARIABLES
  spec, line,            \* workers.spec and the lines read
  mpc,                   \* where main is
  nworkers, cur, i,      \* main: workers started, the one being started, the restart loop
  restarting,            \* worker_start was called by the restart loop
  published,             \* a chunk was filled
  pid, sigchld,          \* struct worker_config, by worker number
  unfinished,            \* the worker's `remaining' counters are not all 0
  child,                 \* worker_start: what fork returned
  proc,                  \* the children
  pending                \* a SIGCHLD has yet to be delivered

mainVars == <<line, mpc, nworkers, cur, i, restarting, published, child>>
vars == <<spec, mainVars, pid, sigchld, unfinished, proc, pending>>

NoPid == 0

\* A child of main: the worker it is forked for, whether SIGHUP will tell it of
\* main's death, whether it holds a write end of its pipe and what is in it.
ChildState == {"free", "forked", "asked", "reading", "loading", "running", "zombie"}
Child == [state : ChildState, who : Table, deathsig : BOOLEAN, writes : BOOLEAN, byte : BOOLEAN]

TypeOK ==
  /\ spec \in SpecFiles /\ line \in 0 .. Len(spec.lines)
  /\ mpc \in {"read", "fork", "store", "write", "ring", "ended", "aborted"}
  /\ nworkers \in 0 .. MaxNWorkers /\ i \in 0 .. MaxNWorkers
  /\ mpc \in {"fork", "store", "write"} => cur \in Table
  /\ restarting \in BOOLEAN /\ published \in BOOLEAN
  /\ pid \in [Table -> Pids \cup {NoPid}]
  /\ sigchld \in [Table -> BOOLEAN] /\ unfinished \in [Table -> BOOLEAN]
  /\ child \in Pids \cup {NoPid}
  /\ proc \in [Pids -> Child]
  /\ pending \in BOOLEAN

Free(p) == proc[p].state = "free"

Init ==
  /\ spec \in SpecFiles /\ line = 0
  /\ mpc = "read"
  /\ nworkers = 0 /\ cur = 0 /\ i = 0 /\ restarting = FALSE
  /\ published = FALSE
  /\ pid = [w \in Table |-> NoPid] /\ child = NoPid
  /\ sigchld = [w \in Table |-> FALSE] /\ unfinished = [w \in Table |-> FALSE]
  /\ proc = [p \in Pids |-> [state |-> "free", who |-> 0, deathsig |-> FALSE,
                             writes |-> FALSE, byte |-> FALSE]]
  /\ pending = FALSE

MainAlive == mpc \notin {"ended", "aborted"}

\* The kernel's part in main's death: children that asked for it get SIGHUP,
\* and nobody waits for the others any more.
MainDies(how) ==
  /\ mpc' = how
  /\ proc' = [p \in Pids |->
               IF proc[p].deathsig \/ proc[p].state = "zombie"
               THEN [proc[p] EXCEPT !.state = "free"] ELSE proc[p]]

-----------------------------------------------------------------------------
(***************************************************************************)
(* main(): workers.spec                                                    *)
(***************************************************************************)

\* Mutant: feof is not asked.
HasLine_Always == line < Len(spec.lines)

\* getline returns a line and has not met the end of the file in it.
HasLine ==
  line < Len(spec.lines) /\ (line + 1 = Len(spec.lines) => spec.newline)

ReadLine ==
  /\ mpc = "read" /\ nworkers < MaxNWorkers /\ HasLine
  /\ line' = line + 1
  /\ CASE spec.lines[line + 1] = "comment" -> UNCHANGED <<mpc, cur, proc>>
       [] spec.lines[line + 1] = "missing" -> MainDies("ended") /\ UNCHANGED cur
       [] spec.lines[line + 1] = "so"      -> mpc' = "fork" /\ cur' = nworkers /\ UNCHANGED proc
  /\ UNCHANGED <<spec, nworkers, i, restarting, published, pid, sigchld, unfinished, child, pending>>

EndOfSpec ==
  /\ mpc = "read" /\ (nworkers = MaxNWorkers \/ ~HasLine)
  /\ mpc' = "ring"
  /\ UNCHANGED <<spec, line, nworkers, cur, i, restarting, published, pid, sigchld, unfinished,
                 child, proc, pending>>

-----------------------------------------------------------------------------
(***************************************************************************)
(* worker_start(), the parent                                              *)
(***************************************************************************)

\* pipe and fork.
Fork ==
  /\ mpc = "fork"
  /\ \E p \in Pids :
       /\ Free(p) /\ \A w \in Table : pid[w] # p
       /\ proc' = [proc EXCEPT ![p] = [state |-> "forked", who |-> cur, deathsig |-> FALSE,
                                       writes |-> TRUE, byte |-> FALSE]]
       /\ child' = p
  /\ mpc' = "store"
  /\ UNCHANGED <<spec, line, nworkers, cur, i, restarting, published, pid, sigchld, unfinished, pending>>

\* pipe or fork fails: exit(1).
ForkFails ==
  /\ mpc = "fork"
  /\ MainDies("ended")
  /\ UNCHANGED <<spec, line, nworkers, cur, i, restarting, published, pid, sigchld, unfinished,
                 child, pending>>

StorePid ==
  /\ mpc = "store"
  /\ pid' = [pid EXCEPT ![cur] = child]
  /\ mpc' = "write"
  /\ UNCHANGED <<spec, line, nworkers, cur, i, restarting, published, sigchld, unfinished, child,
                 proc, pending>>

\* The byte is written and the write end closed.  A reader woken by the byte
\* finds the same whether main has closed its end yet or not.
WriteByte ==
  /\ mpc = "write"
  /\ proc' = [proc EXCEPT ![child].byte = TRUE]
  /\ IF restarting
     THEN mpc' = "ring" /\ UNCHANGED nworkers
     ELSE mpc' = "read" /\ nworkers' = nworkers + 1
  /\ UNCHANGED <<spec, line, cur, i, restarting, published, pid, sigchld, unfinished, child, pending>>

-----------------------------------------------------------------------------
(***************************************************************************)
(* worker_start(), the child                                               *)
(***************************************************************************)

Goes(p, from, to) ==
  /\ proc[p].state = from
  /\ proc' = [proc EXCEPT ![p].state = to]

\* prctl(PR_SET_PDEATHSIG, SIGHUP), which is of no use once main is dead.
AskForSignal(p) ==
  /\ proc[p].state = "forked"
  /\ proc' = [proc EXCEPT ![p].state = "asked", ![p].deathsig = MainAlive]
  /\ UNCHANGED <<spec, mainVars, pid, sigchld, unfinished, pending>>

\* Mutant: the child keeps its copy of the write end.
KeepsWriting_Yes == TRUE
KeepsWriting == FALSE

CloseWriteEnd(p) ==
  /\ proc[p].state = "asked"
  /\ proc' = [proc EXCEPT ![p].state = "reading", ![p].writes = KeepsWriting]
  /\ UNCHANGED <<spec, mainVars, pid, sigchld, unfinished, pending>>

\* Mutant: the child does not wait for main.
Answered_Always(p) == TRUE

\* read returns the byte.
Answered(p) == proc[p].byte

ReadByte(p) ==
  /\ Answered(p)
  /\ Goes(p, "reading", "loading")
  /\ UNCHANGED <<spec, mainVars, pid, sigchld, unfinished, pending>>

\* "parent died without us being killed by SIGHUP -- so exit": read returns 0
\* as main, which had not written yet, is dead and no write end is left.
ReadEof(p) ==
  /\ ~MainAlive /\ ~proc[p].byte /\ ~proc[p].writes
  /\ Goes(p, "reading", "free")
  /\ UNCHANGED <<spec, mainVars, pid, sigchld, unfinished, pending>>

-----------------------------------------------------------------------------
(***************************************************************************)
(* worker(), as far as main can tell                                       *)
(***************************************************************************)

Loads(p) ==
  /\ Goes(p, "loading", "running")
  /\ UNCHANGED <<spec, mainVars, pid, sigchld, unfinished, pending>>

\* A chunk is decoded to its end.
GivesBack(p) ==
  /\ proc[p].state = "running"
  /\ unfinished' = [unfinished EXCEPT ![proc[p].who] = FALSE]
  /\ UNCHANGED <<spec, mainVars, pid, sigchld, proc, pending>>

\* A child dies: its parent, or init, will reap it.
Dies(p, from) ==
  /\ Goes(p, from, IF MainAlive THEN "zombie" ELSE "free")
  /\ pending' = MainAlive

\* try_decode crashes.
Crashes(p) ==
  /\ published
  /\ Dies(p, "running")
  /\ unfinished' = [unfinished EXCEPT ![proc[p].who] = TRUE]
  /\ UNCHANGED <<spec, mainVars, pid, sigchld>>

\* The decoder cannot be loaded, or the campaign is over for this worker.
Exits(p) ==
  /\ \/ Dies(p, "loading")
     \/ published /\ Dies(p, "running") /\ ~unfinished[proc[p].who]
  /\ UNCHANGED <<spec, mainVars, pid, sigchld, unfinished>>

-----------------------------------------------------------------------------
(***************************************************************************)
(* sigchld_handler()                                                       *)
(***************************************************************************)

Zombies == {p \in Pids : proc[p].state = "zombie"}

Matches(p) == {w \in Table : pid[w] = p}

\* Mutant: one child per signal.
Reaped_One == {p \in Zombies : \A q \in Zombies : p <= q}

\* waitpid is called until no dead child is left.
Reaped == Zombies

\* worker_for_pid: the first match.
Found(p) == CHOOSE w \in Matches(p) : \A v \in Matches(p) : w <= v

SigchldHandler ==
  /\ MainAlive /\ pending
  /\ pending' = FALSE
  /\ IF \E p \in Reaped : Matches(p) = {}
     THEN MainDies("aborted") /\ UNCHANGED sigchld
     ELSE /\ proc' = [p \in Pids |-> IF p \in Reaped THEN [proc[p] EXCEPT !.state = "free"]
                                                      ELSE proc[p]]
          /\ sigchld' = [w \in Table |->
                          sigchld[w] \/ (unfinished[w] /\ \E p \in Reaped : Found(p) = w)]
          /\ UNCHANGED mpc
  /\ UNCHANGED <<spec, line, nworkers, cur, i, restarting, published, child, pid, unfinished>>

-----------------------------------------------------------------------------
(***************************************************************************)
(* main(): the restart loop, and the end                                   *)
(***************************************************************************)

\* Mutant: the flag is left set.
Cleared_Not(w) == sigchld
Cleared(w) == [sigchld EXCEPT ![w] = FALSE]

RestartLoop ==
  /\ mpc = "ring" /\ i < nworkers
  /\ IF sigchld[i]
     THEN sigchld' = Cleared(i) /\ cur' = i /\ restarting' = TRUE /\ mpc' = "fork"
     ELSE UNCHANGED <<sigchld, cur, restarting, mpc>>
  /\ i' = i + 1
  /\ UNCHANGED <<spec, line, nworkers, published, pid, unfinished, child, proc, pending>>

\* Another chunk, or the end of the campaign.
NextRound ==
  /\ mpc = "ring" /\ i >= nworkers
  /\ \/ i' = 0 /\ published' = TRUE /\ UNCHANGED <<mpc, proc>>
     \/ MainDies("ended") /\ UNCHANGED <<i, published>>
  /\ UNCHANGED <<spec, line, nworkers, cur, restarting, pid, sigchld, unfinished, child, pending>>

\* A signal from outside.
Killed ==
  /\ MainAlive
  /\ MainDies("ended")
  /\ UNCHANGED <<spec, line, nworkers, cur, i, restarting, published, pid, sigchld, unfinished,
                 child, pending>>

Stopped == ~MainAlive /\ (\A p \in Pids : Free(p) \/ proc[p].state = "running") /\ UNCHANGED vars

-----------------------------------------------------------------------------

MainStep ==
  \/ ReadLine \/ EndOfSpec \/ Fork \/ ForkFails \/ StorePid \/ WriteByte
  \/ RestartLoop \/ NextRound

StartStep(p) == AskForSignal(p) \/ CloseWriteEnd(p) \/ ReadByte(p) \/ ReadEof(p)

WorkerStep(p) == Loads(p) \/ GivesBack(p) \/ Crashes(p) \/ Exits(p)

Next ==
  \/ MainStep \/ SigchldHandler \/ Killed
  \/ \E p \in Pids : StartStep(p) \/ WorkerStep(p)
  \/ Stopped

\* Main and the children are scheduled, and signals delivered.
Fairness ==
  /\ WF_vars(MainStep) /\ WF_vars(SigchldHandler)
  /\ \A p \in Pids : WF_vars(StartStep(p))

Spec == Init /\ [][Next]_vars /\ Fairness

-----------------------------------------------------------------------------
(***************************************************************************)
(* Properties                                                              *)
(***************************************************************************)

\* "worker died before we even had the chance to store its pid" (line 307) never
\* happens: the child waits for a byte main writes after it stored the pid.
DeathsAreKnown == mpc # "aborted"

\* The processes that work for w, or will.
ProcessesOf(w) == {p \in Pids : proc[p].who = w /\ proc[p].state \notin {"free", "zombie"}}

\* Two processes never decode into the same output chunks, and nobody is forked
\* for a worker that is still alive.
OneProcessPerWorker ==
  \A w \in Table :
    /\ \A p, q \in ProcessesOf(w) : p = q
    /\ MainAlive /\ (sigchld[w] \/ (mpc = "fork" /\ cur = w)) => ProcessesOf(w) = {}

\* A worker that owes a chunk is alive, or will be restarted: it has just died
\* and the signal is still to come, it is flagged, or main is forking it.  A
\* second death while main restarts another worker is not lost.
NobodyForgotten ==
  MainAlive =>
    \A w \in Table : unfinished[w] =>
      \/ ProcessesOf(w) # {}
      \/ pending /\ \E p \in Zombies : proc[p].who = w
      \/ sigchld[w]
      \/ mpc = "fork" /\ cur = w

\* The handshake ends for every child, whether main lives or dies in the middle
\* of it: the child comes to run worker() or ends.
HandshakeEnds ==
  \A p \in Pids : proc[p].state = "forked" ~> proc[p].state \notin {"forked", "asked", "reading"}

\* "parent died without us being killed by SIGHUP -- so exit" (line 283): no
\* child goes on to work when main is dead.
NoOrphanStarts == ~MainAlive => \A p \in Pids : proc[p].state # "running"

\* The workers the ring has are those workers.spec lists: one for each shared
\* object before MaxNWorkers are found, none of which was missing.  A last line
\* that does not end with a newline is not listed (line 408).
WorkersAsListed ==
  mpc = "ring" =>
    LET listed == Len(spec.lines) - (IF spec.newline THEN 0 ELSE 1)
        Read(kind) == {k \in 1 .. line : spec.lines[k] = kind}
    IN  /\ line <= listed /\ (line < listed => nworkers = MaxNWorkers)
        /\ nworkers = Cardinality(Read("so")) /\ nworkers <= MaxNWorkers
        /\ Read("missing") = {}

-----------------------------------------------------------------------------
(***************************************************************************)
(* The inductive invariant behind DeathsAreKnown, OneProcessPerWorker and  *)
(* NobodyForgotten (proved in ProcessesProofs)                             *)
(***************************************************************************)

\* In worker_start, after fork.
Starting == mpc \in {"store", "write"}

\* A worker has one child at a time, counting one that is dead and not reaped.
OneChild ==
  \A p, q \in Pids : ~Free(p) /\ ~Free(q) /\ proc[p].who = proc[q].who => p = q

\* The table has the pid of every child but the one main has just forked, and
\* no pid twice.
PidsKnown ==
  /\ \A p \in Pids : ~Free(p) /\ ~(mpc = "store" /\ p = child) => pid[proc[p].who] = p
  /\ \A v, w \in Table : pid[v] = pid[w] /\ pid[v] # NoPid => v = w
  /\ mpc = "store" => \A w \in Table : pid[w] # child

\* A child main has not answered is the one it is starting, and waits for it.
ChildWaits ==
  /\ Starting => /\ child \in Pids /\ proc[child].who = cur /\ ~proc[child].byte
                  /\ proc[child].state \in {"forked", "asked", "reading"}
  /\ \A p \in Pids : ~Free(p) /\ ~(Starting /\ p = child) => proc[p].byte

\* Nobody is forked for a worker that has a child already.
ForkIsSafe ==
  /\ \A w \in Table : sigchld[w] \/ (mpc = "fork" /\ cur = w) =>
       \A p \in Pids : ~Free(p) => proc[p].who # w
  /\ \A p \in Pids : ~Free(p) => proc[p].who < nworkers \/ (Starting /\ p = child)
  /\ \A w \in Table : sigchld[w] => w < nworkers
  /\ mpc = "read" => ~restarting
  /\ mpc \in {"fork", "store", "write"} => IF restarting THEN cur < nworkers ELSE cur = nworkers
  /\ mpc = "fork" => ~sigchld[cur]

\* What holds while main is alive.
AliveInv == PidsKnown /\ ChildWaits /\ ForkIsSafe /\ (Zombies # {} => pending) /\ NobodyForgotten

ProcInv == TypeOK /\ DeathsAreKnown /\ OneChild /\ (MainAlive => AliveInv)
=============================================================================
