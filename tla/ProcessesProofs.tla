-------------------------- MODULE ProcessesProofs ---------------------------
(***************************************************************************)
(* Proofs about Processes, for every table size, workers.spec and set of   *)
(* process numbers: the handler knows every child it reaps, a worker has   *)
(* one process at a time, and no worker that owes a chunk is forgotten.    *)
(***************************************************************************)
EXTENDS Processes, FiniteSetTheorems, TLAPS

\* Nobody has been forked initially.
LEMMA InitProc == Init => ProcInv
<1>. SUFFICES ASSUME Init PROVE ProcInv
  OBVIOUS
<1>1. TypeOK
  <2>1. proc \in [Pids -> Child]
    BY ProcessesAssumption DEF Init, Child, ChildState, Table
  <2>2. spec \in SpecFiles /\ 0 \in 0 .. Len(spec.lines)
    BY ProcessesAssumption DEF Init, SpecFile
  <2>3. pid \in [Table -> Pids \cup {NoPid}] /\ child \in Pids \cup {NoPid}
    BY DEF Init
  <2>4. sigchld \in [Table -> BOOLEAN] /\ unfinished \in [Table -> BOOLEAN]
    BY DEF Init
  <2>5. nworkers \in 0 .. MaxNWorkers /\ i \in 0 .. MaxNWorkers /\ line \in 0 .. Len(spec.lines)
    BY <2>2, ProcessesAssumption DEF Init
  <2>. QED  BY <2>1, <2>2, <2>3, <2>4, <2>5 DEF Init, TypeOK
<1>2. \A p \in Pids : Free(p)
  BY DEF Init, Free
<1>3. OneChild /\ DeathsAreKnown
  BY <1>2 DEF Init, OneChild, DeathsAreKnown
<1>4. PidsKnown /\ ChildWaits /\ ForkIsSafe
  BY <1>2 DEF Init, PidsKnown, ChildWaits, ForkIsSafe, Starting
<1>5. Zombies = {} /\ NobodyForgotten
  BY <1>2 DEF Init, Zombies, Free, NobodyForgotten
<1>. QED  BY <1>1, <1>3, <1>4, <1>5 DEF ProcInv, AliveInv

(***************************************************************************)
(* Main's death                                                            *)
(***************************************************************************)

\* Some children go with main, the others stay what they are.
LEMMA DeathStep ==
  ASSUME ProcInv, MainDies("ended"), TypeOK'
  PROVE  ProcInv'
<1>1. ~MainAlive' /\ DeathsAreKnown'
  BY DEF MainDies, MainAlive, DeathsAreKnown
<1>2. ASSUME NEW p \in Pids, ~Free(p)'
      PROVE  ~Free(p) /\ proc'[p].who = proc[p].who
  BY <1>2 DEF MainDies, Free, ProcInv, TypeOK, Child
<1>3. OneChild'
  BY <1>2 DEF OneChild, ProcInv
<1>. QED  BY <1>1, <1>3 DEF ProcInv

\* The kernel's part keeps the type of proc.
LEMMA DeathType ==
  ASSUME TypeOK, NEW how \in {"ended", "aborted"}, MainDies(how)
  PROVE  proc' \in [Pids -> Child]
<1>1. ASSUME NEW p \in Pids PROVE [proc[p] EXCEPT !.state = "free"] \in Child
  BY DEF TypeOK, Child, ChildState
<1>. QED  BY <1>1 DEF MainDies, TypeOK

(***************************************************************************)
(* Steps of the children                                                   *)
(***************************************************************************)

\* The child p goes on: it stays the child of the same worker, with the same
\* byte in its pipe, and one that main is starting still waits.
LEMMA ChildMoves ==
  ASSUME ProcInv, NEW p \in Pids, ~Free(p), proc[p].state # "zombie",
         proc' \in [Pids -> Child],
         \A q \in Pids : q # p => proc'[q] = proc[q],
         proc'[p].who = proc[p].who, proc'[p].byte = proc[p].byte,
         proc'[p].state \notin {"free", "zombie"},
         MainAlive /\ ~proc[p].byte => proc'[p].state \in {"forked", "asked", "reading"},
         UNCHANGED <<spec, mainVars, pid, sigchld, unfinished, pending>>
  PROVE  ProcInv'
<1>. USE DEF mainVars
<1>1. TypeOK' /\ DeathsAreKnown'
  BY DEF ProcInv, TypeOK, DeathsAreKnown
<1>2. ASSUME NEW q \in Pids
      PROVE  /\ Free(q)' <=> Free(q)
             /\ proc'[q].who = proc[q].who /\ proc'[q].byte = proc[q].byte
             /\ q \in Zombies' <=> q \in Zombies
  BY DEF Free, Zombies
<1>3. OneChild'
  BY <1>2 DEF OneChild, ProcInv
<1>4. ASSUME MainAlive' PROVE AliveInv'
  <2>1. AliveInv
    BY <1>4 DEF ProcInv, MainAlive
  <2>2. PidsKnown'
    BY <1>2, <2>1 DEF AliveInv, PidsKnown
  <2>3. ChildWaits'
    <3>1. Starting => proc'[child].state \in {"forked", "asked", "reading"}
      BY <1>4, <2>1 DEF AliveInv, ChildWaits, MainAlive
    <3>. QED  BY <1>2, <2>1, <3>1 DEF AliveInv, ChildWaits, Starting
  <2>4. ForkIsSafe'
    BY <1>2, <2>1 DEF AliveInv, ForkIsSafe, Starting
  <2>5. Zombies' # {} => pending'
    <3>1. Zombies' = Zombies
      BY <1>2 DEF Zombies
    <3>. QED  BY <2>1, <3>1 DEF AliveInv
  <2>6. NobodyForgotten'
    <3>1. \A w \in Table : ProcessesOf(w)' = ProcessesOf(w)
      BY <1>2 DEF ProcessesOf, Free, Zombies
    <3>2. \A q \in Zombies : proc'[q].who = proc[q].who /\ q \in Zombies'
      BY <1>2 DEF Zombies
    <3>. QED  BY <2>1, <3>1, <3>2 DEF AliveInv, NobodyForgotten, MainAlive
  <2>. QED  BY <2>2, <2>3, <2>4, <2>5, <2>6 DEF AliveInv
<1>. QED  BY <1>1, <1>3, <1>4 DEF ProcInv

\* Up to worker(), a child goes on step by step and waits for the byte.
LEMMA StartSteps ==
  ASSUME ProcInv, NEW p \in Pids, StartStep(p)
  PROVE  ProcInv'
<1>. USE DEF mainVars
<1>1. CASE AskForSignal(p)
  <2>1. proc' \in [Pids -> Child]
    <3>1. [proc[p] EXCEPT !.state = "asked", !.deathsig = MainAlive] \in Child
      BY DEF ProcInv, TypeOK, Child, ChildState, MainAlive
    <3>2. proc' = [proc EXCEPT ![p] = [proc[p] EXCEPT !.state = "asked", !.deathsig = MainAlive]]
      BY <1>1 DEF AskForSignal
    <3>. QED  BY <3>1, <3>2 DEF ProcInv, TypeOK
  <2>2. /\ proc[p].state = "forked" /\ proc'[p].state = "asked"
        /\ proc'[p].who = proc[p].who /\ proc'[p].byte = proc[p].byte
        /\ \A q \in Pids : q # p => proc'[q] = proc[q]
    BY <1>1 DEF AskForSignal, ProcInv, TypeOK, Child
  <2>3. UNCHANGED <<spec, mainVars, pid, sigchld, unfinished, pending>>
    BY <1>1 DEF AskForSignal
  <2>. QED  BY <2>1, <2>2, <2>3, ChildMoves DEF Free
<1>2. CASE CloseWriteEnd(p)
  <2>1. proc' \in [Pids -> Child]
    <3>1. [proc[p] EXCEPT !.state = "reading", !.writes = KeepsWriting] \in Child
      BY DEF ProcInv, TypeOK, Child, ChildState, KeepsWriting
    <3>2. proc' = [proc EXCEPT ![p] = [proc[p] EXCEPT !.state = "reading", !.writes = KeepsWriting]]
      BY <1>2 DEF CloseWriteEnd
    <3>. QED  BY <3>1, <3>2 DEF ProcInv, TypeOK
  <2>2. /\ proc[p].state = "asked" /\ proc'[p].state = "reading"
        /\ proc'[p].who = proc[p].who /\ proc'[p].byte = proc[p].byte
        /\ \A q \in Pids : q # p => proc'[q] = proc[q]
    BY <1>2 DEF CloseWriteEnd, ProcInv, TypeOK, Child
  <2>3. UNCHANGED <<spec, mainVars, pid, sigchld, unfinished, pending>>
    BY <1>2 DEF CloseWriteEnd
  <2>. QED  BY <2>1, <2>2, <2>3, ChildMoves DEF Free
<1>3. CASE ReadByte(p)
  <2>1. proc' \in [Pids -> Child]
    BY <1>3 DEF ReadByte, Goes, ProcInv, TypeOK, Child, ChildState
  <2>2. /\ proc[p].state = "reading" /\ proc'[p].state = "loading"
        /\ proc'[p].who = proc[p].who /\ proc'[p].byte = proc[p].byte /\ proc[p].byte
        /\ \A q \in Pids : q # p => proc'[q] = proc[q]
    BY <1>3 DEF ReadByte, Answered, Goes, ProcInv, TypeOK, Child
  <2>3. UNCHANGED <<spec, mainVars, pid, sigchld, unfinished, pending>>
    BY <1>3 DEF ReadByte
  <2>. QED  BY <2>1, <2>2, <2>3, ChildMoves DEF Free
<1>4. CASE ReadEof(p)
  <2>1. proc' \in [Pids -> Child]
    BY <1>4 DEF ReadEof, Goes, ProcInv, TypeOK, Child, ChildState
  <2>2. TypeOK' /\ DeathsAreKnown' /\ ~MainAlive'
    BY <1>4, <2>1 DEF ReadEof, ProcInv, TypeOK, DeathsAreKnown, MainAlive
  <2>3. \A q \in Pids : ~Free(q)' => ~Free(q) /\ proc'[q].who = proc[q].who
    BY <1>4 DEF ReadEof, Goes, Free, ProcInv, TypeOK, Child
  <2>4. OneChild'
    BY <2>3 DEF OneChild, ProcInv
  <2>. QED  BY <2>2, <2>4 DEF ProcInv
<1>. QED  BY <1>1, <1>2, <1>3, <1>4 DEF StartStep

\* The child p dies: a zombie whose signal is pending, or nothing once main is
\* dead.  A worker that owes a chunk has just died then.
LEMMA DiesStep ==
  ASSUME ProcInv, NEW p \in Pids, NEW from \in {"loading", "running"}, Dies(p, from),
         \/ unfinished' = unfinished
         \/ unfinished' = [unfinished EXCEPT ![proc[p].who] = TRUE],
         UNCHANGED <<spec, mainVars, pid, sigchld>>
  PROVE  ProcInv'
<1>. USE DEF mainVars
<1>1. /\ ~Free(p) /\ proc[p].state = from
      /\ proc'[p].state = IF MainAlive THEN "zombie" ELSE "free"
      /\ proc'[p].who = proc[p].who /\ proc'[p].byte = proc[p].byte
      /\ \A q \in Pids : q # p => proc'[q] = proc[q]
  BY DEF Dies, Goes, Free, ProcInv, TypeOK, Child
<1>2. TypeOK' /\ DeathsAreKnown'
  <2>1. proc' \in [Pids -> Child]
    BY DEF Dies, Goes, ProcInv, TypeOK, Child, ChildState
  <2>2. unfinished' \in [Table -> BOOLEAN] /\ pending' \in BOOLEAN
    BY DEF Dies, ProcInv, TypeOK, MainAlive
  <2>. QED  BY <2>1, <2>2 DEF ProcInv, TypeOK, DeathsAreKnown
<1>3. ASSUME NEW q \in Pids
      PROVE  /\ ~Free(q)' => ~Free(q)
             /\ proc'[q].who = proc[q].who /\ proc'[q].byte = proc[q].byte
  BY <1>1 DEF Free
<1>4. OneChild'
  BY <1>3 DEF OneChild, ProcInv
<1>5. ASSUME MainAlive' PROVE AliveInv'
  <2>1. AliveInv /\ MainAlive /\ pending'
    BY <1>5 DEF Dies, ProcInv, MainAlive
  <2>2. ~(Starting /\ p = child)
    BY <1>1, <2>1 DEF AliveInv, ChildWaits
  <2>3. PidsKnown'
    BY <1>3, <2>1 DEF AliveInv, PidsKnown
  <2>4. ChildWaits'
    <3>1. Starting => proc'[child] = proc[child]
      BY <1>1, <2>1, <2>2 DEF AliveInv, ChildWaits
    <3>. QED  BY <1>3, <2>1, <3>1 DEF AliveInv, ChildWaits, Starting
  <2>5. ForkIsSafe'
    BY <1>3, <2>1 DEF AliveInv, ForkIsSafe, Starting
  <2>6. NobodyForgotten'
    <3>. SUFFICES ASSUME NEW w \in Table, unfinished'[w]
                  PROVE  \/ ProcessesOf(w)' # {}
                         \/ \E q \in Zombies' : proc'[q].who = w
                         \/ sigchld'[w]
                         \/ mpc' = "fork" /\ cur' = w
      BY <2>1 DEF NobodyForgotten
    <3>1. CASE proc[p].who = w
      BY <1>1, <2>1, <3>1 DEF Zombies
    <3>2. CASE proc[p].who # w
      <4>1. unfinished[w]
        BY <3>2 DEF ProcInv, TypeOK
      <4>2. ProcessesOf(w)' = ProcessesOf(w)
        BY <1>1, <1>3, <3>2 DEF ProcessesOf
      <4>3. \A q \in Zombies : q \in Zombies' /\ proc'[q].who = proc[q].who
        BY <1>1, <1>3, <2>1 DEF Zombies
      <4>. QED  BY <2>1, <4>1, <4>2, <4>3 DEF AliveInv, NobodyForgotten
    <3>. QED  BY <3>1, <3>2
  <2>. QED  BY <2>1, <2>3, <2>4, <2>5, <2>6 DEF AliveInv
<1>. QED  BY <1>2, <1>4, <1>5 DEF ProcInv

\* The steps of a child in worker().
LEMMA WorkerSteps ==
  ASSUME ProcInv, NEW p \in Pids, WorkerStep(p)
  PROVE  ProcInv'
<1>. USE DEF mainVars
<1>1. CASE Loads(p)
  <2>1. proc' \in [Pids -> Child]
    BY <1>1 DEF Loads, Goes, ProcInv, TypeOK, Child, ChildState
  <2>2. /\ proc[p].state = "loading" /\ proc'[p].state = "running"
        /\ proc'[p].who = proc[p].who /\ proc'[p].byte = proc[p].byte
        /\ \A q \in Pids : q # p => proc'[q] = proc[q]
    BY <1>1 DEF Loads, Goes, ProcInv, TypeOK, Child
  <2>3. UNCHANGED <<spec, mainVars, pid, sigchld, unfinished, pending>>
    BY <1>1 DEF Loads
  <2>4. MainAlive => proc[p].byte
    BY <2>2 DEF ProcInv, AliveInv, ChildWaits, Free
  <2>. QED  BY <2>1, <2>2, <2>3, <2>4, ChildMoves DEF Free
<1>2. CASE GivesBack(p)
  <2>1. /\ UNCHANGED <<spec, mainVars, pid, sigchld, proc, pending>>
        /\ unfinished' = [unfinished EXCEPT ![proc[p].who] = FALSE]
        /\ TypeOK /\ unfinished \in [Table -> BOOLEAN]
    BY <1>2 DEF GivesBack, ProcInv, TypeOK
  <2>2. /\ unfinished' \in [Table -> BOOLEAN]
        /\ \A w \in Table : unfinished'[w] => unfinished[w]
    BY <2>1
  <2>3. TypeOK'
    BY <2>1, <2>2 DEF TypeOK
  <2>4. DeathsAreKnown' /\ OneChild'
    BY <2>1 DEF ProcInv, DeathsAreKnown, OneChild, Free
  <2>5. ASSUME MainAlive' PROVE AliveInv'
    <3>1. MainAlive /\ AliveInv
      BY <2>1, <2>5 DEF ProcInv, MainAlive
    <3>2. PidsKnown' /\ ChildWaits'
      BY <2>1, <3>1 DEF AliveInv, PidsKnown, ChildWaits, Free, Starting
    <3>3. ForkIsSafe'
      BY <2>1, <3>1 DEF AliveInv, ForkIsSafe, Free, Starting
    <3>4. NobodyForgotten' /\ (Zombies # {} => pending)'
      BY <2>1, <2>2, <3>1 DEF AliveInv, NobodyForgotten, Zombies, ProcessesOf
    <3>. QED  BY <3>2, <3>3, <3>4 DEF AliveInv
  <2>. QED  BY <2>3, <2>4, <2>5 DEF ProcInv
<1>3. CASE Crashes(p)
  BY <1>3, DiesStep DEF Crashes
<1>4. CASE Exits(p)
  BY <1>4, DiesStep DEF Exits
<1>. QED  BY <1>1, <1>2, <1>3, <1>4 DEF WorkerStep

(***************************************************************************)
(* The handler                                                             *)
(***************************************************************************)

\* A dead child's pid is in the table, once: the handler finds the child's worker.
LEMMA HandlerFinds ==
  ASSUME ProcInv, MainAlive, NEW p \in Zombies
  PROVE  /\ p \in Pids /\ ~Free(p) /\ ~(Starting /\ p = child)
         /\ Matches(p) = {proc[p].who} /\ Found(p) = proc[p].who
<1>1. AliveInv /\ p \in Pids /\ proc[p].state = "zombie" /\ ~Free(p)
  BY DEF ProcInv, Zombies, Free
<1>2. ~(Starting /\ p = child)
  BY <1>1 DEF AliveInv, ChildWaits
<1>3. proc[p].who \in Table /\ pid[proc[p].who] = p /\ p # NoPid
  BY <1>1, <1>2, ProcessesAssumption DEF AliveInv, PidsKnown, Starting, ProcInv, TypeOK, Child, NoPid
<1>4. \A w \in Table : pid[w] = p => w = proc[p].who
  BY <1>1, <1>3 DEF AliveInv, PidsKnown
<1>5. Matches(p) = {proc[p].who}
  BY <1>3, <1>4 DEF Matches
<1>6. Found(p) = proc[p].who
  <2>1. \A v \in Matches(p) : v = proc[p].who
    BY <1>5
  <2>2. proc[p].who <= proc[p].who
    BY <1>3 DEF Table
  <2>. QED  BY <1>5, <2>2 DEF Found
<1>. QED  BY <1>1, <1>2, <1>5, <1>6

\* The handler reaps every dead child and flags those that owe a chunk.
LEMMA HandlerStep ==
  ASSUME ProcInv, SigchldHandler
  PROVE  ProcInv'
<1>. USE DEF Reaped
<1>1. /\ MainAlive /\ AliveInv /\ pending /\ ~pending'
      /\ UNCHANGED <<spec, line, mpc, nworkers, cur, i, restarting, published, child, pid, unfinished>>
      /\ proc' = [p \in Pids |-> IF p \in Zombies THEN [proc[p] EXCEPT !.state = "free"] ELSE proc[p]]
      /\ sigchld' = [w \in Table |->
                      sigchld[w] \/ (unfinished[w] /\ \E p \in Zombies : Found(p) = w)]
  <2>1. MainAlive /\ AliveInv
    BY DEF SigchldHandler, ProcInv
  <2>2. ~\E p \in Reaped : Matches(p) = {}
    BY <2>1, HandlerFinds
  <2>. QED  BY <2>1, <2>2 DEF SigchldHandler
<1>2. \A p \in Pids : p \in Zombies <=> proc[p].state = "zombie"
  BY DEF Zombies
<1>3. ASSUME NEW p \in Pids
      PROVE  /\ proc'[p].who = proc[p].who /\ proc'[p].byte = proc[p].byte
             /\ proc'[p] \in Child
             /\ p \in Zombies => proc'[p].state = "free"
             /\ p \notin Zombies => proc'[p] = proc[p]
  BY <1>1 DEF ProcInv, TypeOK, Child, ChildState
<1>4. \A p \in Pids : ~Free(p)' <=> ~Free(p) /\ p \notin Zombies
  BY <1>2, <1>3 DEF Free
<1>5. \A w \in Table : sigchld'[w] <=>
        sigchld[w] \/ (unfinished[w] /\ \E p \in Zombies : proc[p].who = w)
  BY <1>1, HandlerFinds
<1>6. TypeOK' /\ DeathsAreKnown'
  <2>1. proc' \in [Pids -> Child]
    BY <1>1, <1>3
  <2>2. sigchld' \in [Table -> BOOLEAN] /\ pending' \in BOOLEAN
    BY <1>1 DEF ProcInv, TypeOK, SigchldHandler
  <2>. QED  BY <1>1, <2>1, <2>2 DEF ProcInv, TypeOK, DeathsAreKnown
<1>7. OneChild'
  BY <1>3, <1>4 DEF OneChild, ProcInv
<1>8. PidsKnown'
  BY <1>1, <1>3, <1>4 DEF AliveInv, PidsKnown
<1>9. ChildWaits'
  <2>1. Starting => proc'[child] = proc[child]
    BY <1>1, <1>2, <1>3 DEF AliveInv, ChildWaits
  <2>. QED  BY <1>1, <1>3, <1>4, <2>1 DEF AliveInv, ChildWaits, Starting
<1>10. ForkIsSafe'
  <2>1. ASSUME NEW p \in Zombies, NEW w \in Table, proc[p].who = w
        PROVE  /\ \A q \in Pids : ~Free(q)' => proc'[q].who # w
               /\ w < nworkers /\ ~(mpc = "fork" /\ cur = w)
    <3>1. p \in Pids /\ ~Free(p) /\ ~(Starting /\ p = child)
      BY <1>1, HandlerFinds
    <3>2. \A q \in Pids : ~Free(q) /\ proc[q].who = w => q = p
      BY <2>1, <3>1 DEF ProcInv, OneChild
    <3>3. \A q \in Pids : ~Free(q)' => proc'[q].who # w
      BY <1>3, <1>4, <3>2
    <3>4. w < nworkers /\ ~(mpc = "fork" /\ cur = w)
      BY <1>1, <2>1, <3>1 DEF AliveInv, ForkIsSafe
    <3>. QED  BY <3>3, <3>4
  <2>2. \A w \in Table : sigchld'[w] \/ (mpc' = "fork" /\ cur' = w) =>
          \A q \in Pids : ~Free(q)' => proc'[q].who # w
    <3>. SUFFICES ASSUME NEW w \in Table, sigchld'[w] \/ (mpc' = "fork" /\ cur' = w)
                  PROVE  \A q \in Pids : ~Free(q)' => proc'[q].who # w
      OBVIOUS
    <3>1. CASE \E p \in Zombies : proc[p].who = w
      BY <2>1, <3>1
    <3>2. CASE ~\E p \in Zombies : proc[p].who = w
      <4>1. sigchld[w] \/ (mpc = "fork" /\ cur = w)
        BY <1>1, <1>5, <3>2
      <4>. QED  BY <1>1, <1>3, <1>4, <4>1 DEF AliveInv, ForkIsSafe
    <3>. QED  BY <3>1, <3>2
  <2>3. \A p \in Pids : ~Free(p)' => proc'[p].who < nworkers' \/ (Starting' /\ p = child')
    BY <1>1, <1>3, <1>4 DEF AliveInv, ForkIsSafe, Starting
  <2>4. \A w \in Table : sigchld'[w] => w < nworkers'
    BY <1>1, <1>5, <2>1 DEF AliveInv, ForkIsSafe
  <2>5. mpc' = "fork" => ~sigchld'[cur']
    <3>. SUFFICES ASSUME mpc = "fork", sigchld'[cur] PROVE FALSE
      BY <1>1
    <3>1. cur \in Table
      BY DEF ProcInv, TypeOK
    <3>. QED  BY <1>1, <1>5, <2>1, <3>1 DEF AliveInv, ForkIsSafe
  <2>6. /\ mpc' = "read" => ~restarting'
        /\ mpc' \in {"fork", "store", "write"} => IF restarting' THEN cur' < nworkers' ELSE cur' = nworkers'
    BY <1>1 DEF AliveInv, ForkIsSafe
  <2>. QED  BY <2>2, <2>3, <2>4, <2>5, <2>6 DEF ForkIsSafe
<1>11. Zombies' = {}
  BY <1>3, <1>2 DEF Zombies
<1>12. NobodyForgotten'
  <2>. SUFFICES ASSUME NEW w \in Table, unfinished[w]
                PROVE  ProcessesOf(w)' # {} \/ sigchld'[w] \/ (mpc' = "fork" /\ cur' = w)
    BY <1>1 DEF NobodyForgotten
  <2>1. ProcessesOf(w) \subseteq ProcessesOf(w)'
    BY <1>2, <1>3 DEF ProcessesOf
  <2>. QED  BY <1>1, <1>5, <2>1 DEF AliveInv, NobodyForgotten
<1>. QED  BY <1>6, <1>7, <1>8, <1>9, <1>10, <1>11, <1>12 DEF ProcInv, AliveInv

(***************************************************************************)
(* Main                                                                    *)
(***************************************************************************)

\* Main reads workers.spec: it forks for a worker number nobody has yet.
LEMMA ReadSteps ==
  ASSUME ProcInv, ReadLine \/ EndOfSpec
  PROVE  ProcInv'
<1>. USE DEF mainVars
<1>1. MainAlive /\ AliveInv /\ mpc = "read"
  BY DEF ReadLine, EndOfSpec, MainAlive, ProcInv
<1>2. CASE /\ proc' = proc /\ mpc' \in {"read", "ring"} /\ cur' = cur
           /\ line' = line \/ (line' = line + 1 /\ HasLine)
           /\ UNCHANGED <<spec, nworkers, i, restarting, published, pid, sigchld, unfinished, child, pending>>
  <2>1. TypeOK' /\ DeathsAreKnown'
    <3>1. line' \in 0 .. Len(spec'.lines)
      BY <1>2, ProcessesAssumption DEF ProcInv, TypeOK, HasLine, SpecFile
    <3>. QED  BY <1>1, <1>2, <3>1 DEF ProcInv, TypeOK, DeathsAreKnown
  <2>. QED
    BY <1>1, <1>2, <2>1 DEF ProcInv, OneChild, Free, AliveInv, PidsKnown, ChildWaits, Starting, ForkIsSafe,
         Zombies, NobodyForgotten, ProcessesOf, MainAlive
<1>3. CASE ReadLine /\ spec.lines[line + 1] = "missing"
  <2>1. MainDies("ended") /\ UNCHANGED cur
    BY <1>3 DEF ReadLine
  <2>2. TypeOK'
    <3>1. line' \in 0 .. Len(spec'.lines)
      BY <1>3, ProcessesAssumption DEF ProcInv, TypeOK, HasLine, SpecFile, ReadLine
    <3>2. proc' \in [Pids -> Child] /\ mpc' = "ended"
      BY <2>1, DeathType DEF ProcInv, MainDies
    <3>. QED  BY <1>3, <2>1, <3>1, <3>2 DEF ProcInv, TypeOK, ReadLine
  <2>. QED  BY <2>1, <2>2, DeathStep
<1>4. CASE ReadLine /\ spec.lines[line + 1] = "so"
  <2>1. /\ mpc' = "fork" /\ cur' = nworkers /\ UNCHANGED proc /\ nworkers < MaxNWorkers /\ HasLine /\ line' = line + 1
        /\ UNCHANGED <<spec, nworkers, i, restarting, published, pid, sigchld, unfinished, child, pending>>
    BY <1>4 DEF ReadLine
  <2>2. TypeOK' /\ DeathsAreKnown'
    <3>1. line' \in 0 .. Len(spec'.lines)
      BY <2>1, ProcessesAssumption DEF ProcInv, TypeOK, HasLine, SpecFile
    <3>2. cur' \in Table
      BY <2>1, ProcessesAssumption DEF ProcInv, TypeOK, Table
    <3>. QED  BY <1>1, <2>1, <3>1, <3>2 DEF ProcInv, TypeOK, DeathsAreKnown
  <2>3. OneChild' /\ PidsKnown' /\ ChildWaits' /\ (Zombies' # {} => pending')
    BY <1>1, <2>1 DEF ProcInv, OneChild, Free, AliveInv, PidsKnown, ChildWaits, Starting, Zombies
  <2>4. ForkIsSafe'
    <3>1. \A p \in Pids : ~Free(p) => proc[p].who < nworkers
      BY <1>1 DEF AliveInv, ForkIsSafe, Starting
    <3>2. nworkers \in Nat /\ ~restarting /\ \A w \in Table : sigchld[w] => w < nworkers
      BY <1>1, ProcessesAssumption DEF AliveInv, ForkIsSafe, ProcInv, TypeOK
    <3>3. nworkers \in Table /\ ~sigchld[nworkers]
      BY <2>1, <3>2, ProcessesAssumption DEF Table
    <3>4. \A p \in Pids : ~Free(p)' => proc'[p].who # nworkers /\ proc'[p].who < nworkers'
      BY <2>1, <3>1, <3>2 DEF Free
    <3>5. \A w \in Table : sigchld[w] => \A p \in Pids : ~Free(p) => proc[p].who # w
      BY <1>1 DEF AliveInv, ForkIsSafe
    <3>. QED  BY <2>1, <3>2, <3>3, <3>4, <3>5 DEF ForkIsSafe, Free, Starting
  <2>5. NobodyForgotten'
    BY <1>1, <2>1 DEF AliveInv, NobodyForgotten, ProcessesOf, Zombies, MainAlive
  <2>. QED  BY <2>2, <2>3, <2>4, <2>5 DEF ProcInv, AliveInv
<1>5. ReadLine => spec.lines[line + 1] \in Line
  BY ProcessesAssumption DEF ReadLine, HasLine, ProcInv, TypeOK, SpecFile
<1>6. CASE ReadLine /\ spec.lines[line + 1] = "comment"
  <2>1. UNCHANGED <<mpc, cur, proc>>
    BY <1>6 DEF ReadLine
  <2>. QED  BY <1>1, <1>2, <1>6, <2>1 DEF ReadLine
<1>7. CASE EndOfSpec
  <2>1. /\ proc' = proc /\ line' = line /\ cur' = cur /\ mpc' = "ring"
        /\ UNCHANGED <<spec, nworkers, i, restarting, published, pid, sigchld, unfinished, child, pending>>
    BY <1>7 DEF EndOfSpec
  <2>. QED  BY <1>2, <2>1
<1>. QED  BY <1>3, <1>4, <1>5, <1>6, <1>7 DEF Line

\* fork: the new child is the only one of its worker.
LEMMA ForkStep ==
  ASSUME ProcInv, Fork
  PROVE  ProcInv'
<1>1. PICK p \in Pids :
        /\ Free(p) /\ (\A w \in Table : pid[w] # p)
        /\ proc' = [proc EXCEPT ![p] = [state |-> "forked", who |-> cur, deathsig |-> FALSE,
                                        writes |-> TRUE, byte |-> FALSE]]
        /\ child' = p
  BY DEF Fork
<1>2. /\ MainAlive /\ AliveInv /\ mpc = "fork" /\ mpc' = "store" /\ cur \in Table
      /\ UNCHANGED <<spec, line, nworkers, cur, i, restarting, published, pid, sigchld, unfinished, pending>>
  BY DEF Fork, MainAlive, ProcInv, TypeOK
<1>3. /\ proc'[p].state = "forked" /\ proc'[p].who = cur /\ ~proc'[p].byte /\ proc'[p] \in Child
      /\ \A q \in Pids : q # p => proc'[q] = proc[q]
      /\ ~Free(p)'
  BY <1>1, <1>2 DEF ProcInv, TypeOK, Child, ChildState, Free
<1>4. \A q \in Pids : q # p => (Free(q)' <=> Free(q))
  BY <1>3 DEF Free
<1>5. \A q \in Pids : ~Free(q) => proc[q].who # cur
  BY <1>2 DEF AliveInv, ForkIsSafe
<1>6. TypeOK' /\ DeathsAreKnown'
  BY <1>1, <1>2, <1>3 DEF ProcInv, TypeOK, DeathsAreKnown
<1>7. OneChild'
  BY <1>3, <1>4, <1>5 DEF OneChild, ProcInv
<1>8. PidsKnown'
  BY <1>1, <1>2, <1>3, <1>4 DEF AliveInv, PidsKnown
<1>9. ChildWaits'
  BY <1>1, <1>2, <1>3, <1>4 DEF AliveInv, ChildWaits, Starting
<1>10. ForkIsSafe'
  <2>1. /\ ~sigchld[cur] /\ (IF restarting THEN cur < nworkers ELSE cur = nworkers)
        /\ \A w \in Table : sigchld[w] => w < nworkers /\ w # cur
        /\ \A q \in Pids : ~Free(q) => proc[q].who < nworkers
        /\ \A w \in Table : sigchld[w] => \A q \in Pids : ~Free(q) => proc[q].who # w
    BY <1>2 DEF AliveInv, ForkIsSafe, Starting
  <2>2. \A q \in Pids : ~Free(q)' => proc'[q].who < nworkers \/ q = p
    BY <1>3, <1>4, <2>1
  <2>3. \A w \in Table : sigchld[w] => \A q \in Pids : ~Free(q)' => proc'[q].who # w
    BY <1>3, <1>4, <2>1
  <2>. QED  BY <1>1, <1>2, <2>1, <2>2, <2>3 DEF ForkIsSafe, Starting
<1>11. Zombies' # {} => pending'
  <2>1. Zombies' = Zombies
    BY <1>1, <1>3 DEF Zombies, Free
  <2>. QED  BY <1>2, <2>1 DEF AliveInv
<1>12. NobodyForgotten'
  <2>1. p \in ProcessesOf(cur)'
    BY <1>2, <1>3 DEF ProcessesOf
  <2>2. \A w \in Table : ProcessesOf(w) \subseteq ProcessesOf(w)'
    BY <1>1, <1>3 DEF ProcessesOf, Free
  <2>3. \A q \in Zombies : q \in Zombies' /\ proc'[q] = proc[q]
    BY <1>1, <1>3 DEF Zombies, Free
  <2>. QED  BY <1>2, <2>1, <2>2, <2>3 DEF AliveInv, NobodyForgotten
<1>. QED  BY <1>6, <1>7, <1>8, <1>9, <1>10, <1>11, <1>12 DEF ProcInv, AliveInv

\* The pid is stored before the child is told to go on.
LEMMA AnswerSteps ==
  ASSUME ProcInv, StorePid \/ WriteByte
  PROVE  ProcInv'
<1>1. /\ MainAlive /\ AliveInv /\ Starting /\ cur \in Table /\ child \in Pids
      /\ proc[child].who = cur /\ proc[child].state \in {"forked", "asked", "reading"} /\ ~Free(child)
  BY DEF StorePid, WriteByte, MainAlive, ProcInv, TypeOK, Starting, AliveInv, ChildWaits, Free
<1>2. CASE StorePid
  <2>1. /\ mpc = "store" /\ mpc' = "write" /\ pid' = [pid EXCEPT ![cur] = child]
        /\ UNCHANGED <<spec, line, nworkers, cur, i, restarting, published, sigchld, unfinished, child,
                       proc, pending>>
    BY <1>2 DEF StorePid
  <2>2. TypeOK' /\ DeathsAreKnown'
    BY <1>1, <2>1 DEF ProcInv, TypeOK, DeathsAreKnown
  <2>3. OneChild' /\ ChildWaits' /\ ForkIsSafe' /\ (Zombies' # {} => pending')
    BY <1>1, <2>1 DEF ProcInv, OneChild, Free, AliveInv, ChildWaits, Starting, ForkIsSafe, Zombies
  <2>4. PidsKnown'
    <3>1. \A w \in Table : pid'[w] = IF w = cur THEN child ELSE pid[w]
      BY <2>1 DEF ProcInv, TypeOK
    <3>2. \A q \in Pids : ~Free(q) /\ q # child => proc[q].who # cur /\ pid[proc[q].who] = q /\ proc[q].who \in Table
      BY <1>1, <2>1 DEF ProcInv, TypeOK, OneChild, AliveInv, PidsKnown, Child
    <3>3. \A q \in Pids : ~Free(q) => pid'[proc[q].who] = q
      BY <1>1, <3>1, <3>2
    <3>4. \A v, w \in Table : pid'[v] = pid'[w] /\ pid'[v] # NoPid => v = w
      BY <1>1, <2>1, <3>1 DEF AliveInv, PidsKnown
    <3>. QED  BY <2>1, <3>3, <3>4 DEF PidsKnown, Free
  <2>5. NobodyForgotten'
    BY <1>1, <2>1 DEF AliveInv, NobodyForgotten, ProcessesOf, Zombies, MainAlive
  <2>. QED  BY <2>2, <2>3, <2>4, <2>5 DEF ProcInv, AliveInv
<1>3. CASE WriteByte
  <2>1. /\ mpc = "write" /\ mpc' = (IF restarting THEN "ring" ELSE "read")
        /\ nworkers' = (IF restarting THEN nworkers ELSE nworkers + 1)
        /\ proc' = [proc EXCEPT ![child].byte = TRUE]
        /\ UNCHANGED <<spec, line, cur, i, restarting, published, pid, sigchld, unfinished, child, pending>>
    BY <1>3 DEF WriteByte
  <2>2. /\ \A q \in Pids : /\ proc'[q].who = proc[q].who /\ proc'[q].state = proc[q].state
                           /\ proc'[q].byte = (IF q = child THEN TRUE ELSE proc[q].byte)
                           /\ Free(q)' <=> Free(q)
        /\ proc' \in [Pids -> Child]
    BY <1>1, <2>1 DEF ProcInv, TypeOK, Child, Free
  <2>3. IF restarting THEN cur < nworkers ELSE cur = nworkers
    BY <1>1, <2>1 DEF AliveInv, ForkIsSafe
  <2>4. TypeOK' /\ DeathsAreKnown'
    <3>1. nworkers' \in 0 .. MaxNWorkers
      BY <1>1, <2>1, <2>3, ProcessesAssumption DEF ProcInv, TypeOK, Table
    <3>. QED  BY <1>1, <2>1, <2>2, <3>1 DEF ProcInv, TypeOK, DeathsAreKnown
  <2>5. OneChild' /\ PidsKnown' /\ ChildWaits'
    <3>1. OneChild'
      BY <2>2 DEF ProcInv, OneChild
    <3>2. PidsKnown'
      BY <1>1, <2>1, <2>2 DEF AliveInv, PidsKnown
    <3>3. ChildWaits'
      BY <1>1, <2>1, <2>2 DEF AliveInv, ChildWaits, Starting
    <3>. QED  BY <3>1, <3>2, <3>3
  <2>6. Zombies' = Zombies /\ \A w \in Table : ProcessesOf(w)' = ProcessesOf(w)
    BY <2>2 DEF Zombies, ProcessesOf
  <2>7. ForkIsSafe'
    <3>1. \A q \in Pids : ~Free(q) => proc[q].who < nworkers'
      <4>1. nworkers \in Int /\ cur \in Int
        BY <1>1 DEF ProcInv, TypeOK, Table
      <4>2. \A q \in Pids : ~Free(q) /\ q # child => proc[q].who < nworkers /\ proc[q].who \in Int
        BY <1>1 DEF AliveInv, ForkIsSafe, ProcInv, TypeOK, Child, Table
      <4>. QED  BY <1>1, <2>1, <2>3, <4>1, <4>2
    <3>2. \A w \in Table : sigchld[w] => w < nworkers'
      BY <1>1, <2>1 DEF AliveInv, ForkIsSafe, ProcInv, TypeOK, Table
    <3>. QED  BY <1>1, <2>1, <2>2, <3>1, <3>2 DEF AliveInv, ForkIsSafe
  <2>8. NobodyForgotten'
    BY <1>1, <2>1, <2>2, <2>6 DEF AliveInv, NobodyForgotten, Zombies
  <2>. QED  BY <1>1, <2>1, <2>4, <2>5, <2>6, <2>7, <2>8 DEF ProcInv, AliveInv
<1>. QED  BY <1>2, <1>3

\* The restart loop forks for a flagged worker only; another chunk changes
\* nothing the processes depend on.
LEMMA LoopSteps ==
  ASSUME ProcInv, RestartLoop \/ (NextRound /\ ~MainDies("ended"))
  PROVE  ProcInv'
<1>1. MainAlive /\ AliveInv /\ mpc = "ring"
  BY DEF RestartLoop, NextRound, MainAlive, ProcInv
<1>2. CASE /\ i' \in 0 .. MaxNWorkers /\ published' \in BOOLEAN
           /\ UNCHANGED <<spec, line, mpc, nworkers, cur, restarting, pid, sigchld, unfinished, child, proc, pending>>
  <2>1. TypeOK' /\ DeathsAreKnown'
    BY <1>1, <1>2 DEF ProcInv, TypeOK, DeathsAreKnown
  <2>. QED
    BY <1>1, <1>2, <2>1 DEF ProcInv, OneChild, Free, AliveInv, PidsKnown, ChildWaits, Starting, ForkIsSafe,
         Zombies, NobodyForgotten, ProcessesOf, MainAlive
<1>3. CASE RestartLoop /\ sigchld[i]
  <2>1. /\ i < nworkers /\ i' = i + 1 /\ cur' = i /\ restarting' /\ restarting' \in BOOLEAN /\ mpc' = "fork"
        /\ sigchld' = [sigchld EXCEPT ![i] = FALSE]
        /\ UNCHANGED <<spec, line, nworkers, published, pid, unfinished, child, proc, pending>>
    BY <1>3 DEF RestartLoop, Cleared
  <2>2. i \in Table /\ i + 1 \in 0 .. MaxNWorkers
    BY <2>1, ProcessesAssumption DEF ProcInv, TypeOK, Table
  <2>3. \A w \in Table : sigchld'[w] <=> sigchld[w] /\ w # i
    BY <2>1, <2>2 DEF ProcInv, TypeOK
  <2>4. TypeOK' /\ DeathsAreKnown'
    BY <1>1, <2>1, <2>2 DEF ProcInv, TypeOK, DeathsAreKnown
  <2>5. OneChild' /\ PidsKnown' /\ ChildWaits' /\ (Zombies' # {} => pending')
    BY <1>1, <2>1 DEF ProcInv, OneChild, Free, AliveInv, PidsKnown, ChildWaits, Starting, Zombies
  <2>6. ForkIsSafe'
    <3>1. \A w \in Table : sigchld'[w] \/ w = i => \A p \in Pids : ~Free(p) => proc[p].who # w
      BY <1>1, <1>3, <2>2, <2>3 DEF AliveInv, ForkIsSafe
    <3>2. \A w \in Table : sigchld'[w] => w < nworkers
      BY <1>1, <2>3 DEF AliveInv, ForkIsSafe
    <3>3. \A p \in Pids : ~Free(p) => proc[p].who < nworkers
      BY <1>1 DEF AliveInv, ForkIsSafe, Starting
    <3>. QED  BY <2>1, <2>2, <2>3, <3>1, <3>2, <3>3 DEF ForkIsSafe, Free, Starting
  <2>7. NobodyForgotten'
    BY <1>1, <2>1, <2>2, <2>3 DEF AliveInv, NobodyForgotten, ProcessesOf, Zombies, MainAlive
  <2>. QED  BY <2>4, <2>5, <2>6, <2>7 DEF ProcInv, AliveInv
<1>4. CASE RestartLoop /\ ~sigchld[i]
  <2>1. i' \in 0 .. MaxNWorkers /\ published' \in BOOLEAN
    BY <1>4, ProcessesAssumption DEF RestartLoop, ProcInv, TypeOK
  <2>2. UNCHANGED <<spec, line, mpc, nworkers, cur, restarting, pid, sigchld, unfinished, child, proc, pending>>
    BY <1>4 DEF RestartLoop
  <2>. QED  BY <1>2, <2>1, <2>2
<1>5. CASE NextRound /\ ~MainDies("ended")
  <2>1. i' \in 0 .. MaxNWorkers /\ published' \in BOOLEAN
    <3>1. i' = 0 /\ published' = TRUE
      BY <1>5 DEF NextRound
    <3>. QED  BY <3>1, ProcessesAssumption
  <2>2. UNCHANGED <<spec, line, mpc, nworkers, cur, restarting, pid, sigchld, unfinished, child, proc, pending>>
    BY <1>5 DEF NextRound
  <2>. QED  BY <1>2, <2>1, <2>2
<1>. QED  BY <1>3, <1>4, <1>5

\* Main ends: by itself, on an error or killed.
LEMMA EndSteps ==
  ASSUME ProcInv, MainDies("ended"), ForkFails \/ NextRound \/ Killed
  PROVE  ProcInv'
<1>1. /\ i' = i /\ published' = published
      /\ UNCHANGED <<spec, line, nworkers, cur, restarting, pid, sigchld, unfinished, child, pending>>
  <2>1. CASE ForkFails \/ Killed
    BY <2>1 DEF ForkFails, Killed
  <2>2. CASE NextRound
    BY <2>2 DEF NextRound, MainDies
  <2>. QED  BY <2>1, <2>2
<1>2. proc' \in [Pids -> Child] /\ mpc' = "ended"
  BY DeathType DEF ProcInv, MainDies
<1>3. TypeOK'
  BY <1>1, <1>2 DEF ProcInv, TypeOK
<1>. QED  BY <1>3, DeathStep

-----------------------------------------------------------------------------

\* The invariant is preserved by every step.
LEMMA NextProc == ProcInv /\ [Next]_vars => ProcInv'
<1>. SUFFICES ASSUME ProcInv, [Next]_vars PROVE ProcInv'
  OBVIOUS
<1>1. CASE MainStep
  <2>1. CASE ReadLine \/ EndOfSpec
    BY <2>1, ReadSteps
  <2>2. CASE Fork
    BY <2>2, ForkStep
  <2>3. CASE ForkFails
    <3>1. MainDies("ended")
      BY <2>3 DEF ForkFails
    <3>. QED  BY <2>3, <3>1, EndSteps
  <2>4. CASE StorePid \/ WriteByte
    BY <2>4, AnswerSteps
  <2>5. CASE RestartLoop
    BY <2>5, LoopSteps
  <2>6. CASE NextRound /\ MainDies("ended")
    BY <2>6, EndSteps
  <2>7. CASE NextRound /\ ~MainDies("ended")
    BY <2>7, LoopSteps
  <2>. QED  BY <1>1, <2>1, <2>2, <2>3, <2>4, <2>5, <2>6, <2>7 DEF MainStep
<1>2. CASE SigchldHandler
  BY <1>2, HandlerStep
<1>3. CASE Killed
  <2>1. MainDies("ended")
    BY <1>3 DEF Killed
  <2>. QED  BY <1>3, <2>1, EndSteps
<1>4. CASE \E p \in Pids : StartStep(p) \/ WorkerStep(p)
  BY <1>4, StartSteps, WorkerSteps
<1>5. CASE UNCHANGED vars
  BY <1>5 DEF vars, mainVars, ProcInv, TypeOK, DeathsAreKnown, OneChild, Free, MainAlive, AliveInv,
              PidsKnown, ChildWaits, Starting, ForkIsSafe, Zombies, NobodyForgotten, ProcessesOf
<1>6. CASE Stopped
  BY <1>5, <1>6 DEF Stopped
<1>. QED  BY <1>1, <1>2, <1>3, <1>4, <1>5, <1>6 DEF Next

\* The processes, their numbers and the flags fit together in every state, for
\* any number of workers, whatever dies and whenever.
THEOREM ProcessInvariant == Spec => []ProcInv
<1>1. Init => ProcInv
  BY InitProc
<1>2. ProcInv /\ [Next]_vars => ProcInv'
  BY NextProc
<1>. QED  BY <1>1, <1>2, PTL DEF Spec

\* The handler never aborts: main has stored the pid of every child it can
\* hear of ("died before we even had the chance to store its pid", line 307).
THEOREM HandlerNeverAborts == Spec => []DeathsAreKnown
<1>1. ProcInv => DeathsAreKnown
  BY DEF ProcInv
<1>. QED  BY <1>1, ProcessInvariant, PTL

\* No worker that owes a chunk is forgotten by the handler and the restart loop.
THEOREM EveryCrashIsSeen == Spec => []NobodyForgotten
<1>1. ProcInv => NobodyForgotten
  BY DEF ProcInv, AliveInv, NobodyForgotten
<1>. QED  BY <1>1, ProcessInvariant, PTL

\* worker_start never forks for a worker that is still alive.
THEOREM OneProcess == Spec => []OneProcessPerWorker
<1>1. ProcInv => OneProcessPerWorker
  <2>. SUFFICES ASSUME ProcInv, NEW w \in Table
                PROVE  /\ \A p, q \in ProcessesOf(w) : p = q
                       /\ MainAlive /\ (sigchld[w] \/ (mpc = "fork" /\ cur = w)) => ProcessesOf(w) = {}
    BY DEF OneProcessPerWorker
  <2>1. \A p \in ProcessesOf(w) : p \in Pids /\ ~Free(p) /\ proc[p].who = w
    BY DEF ProcessesOf, Free
  <2>2. \A p, q \in ProcessesOf(w) : p = q
    BY <2>1 DEF ProcInv, OneChild
  <2>3. MainAlive /\ (sigchld[w] \/ (mpc = "fork" /\ cur = w)) => ProcessesOf(w) = {}
    BY <2>1 DEF ProcInv, AliveInv, ForkIsSafe
  <2>. QED  BY <2>2, <2>3
<1>. QED  BY <1>1, ProcessInvariant, PTL

(***************************************************************************)
(* workers.spec                                                            *)
(***************************************************************************)

\* The lines that count, and those of them read that are of a kind.
Listed == Len(spec.lines) - (IF spec.newline THEN 0 ELSE 1)
LinesRead(kind) == {k \in 1 .. line : spec.lines[k] = kind}

\* The lines are read, and the worker of the last one may be about to start.
Listing == mpc = "read" \/ (mpc \in {"fork", "store", "write"} /\ ~restarting)

\* As many workers were started as shared objects were listed so far; later on
\* nothing is read any more.
ListInv ==
  MainAlive =>
    /\ spec \in SpecFile /\ line \in Nat /\ line <= Listed
    /\ LinesRead("missing") = {}
    /\ Cardinality(LinesRead("so")) = nworkers + (IF Listing /\ mpc # "read" THEN 1 ELSE 0)
    /\ ~Listing => line = Listed \/ nworkers = MaxNWorkers

LEMMA InitList == Init => ListInv
<1>. SUFFICES ASSUME Init PROVE ListInv
  OBVIOUS
<1>1. spec \in SpecFile /\ 0 <= Listed
  BY ProcessesAssumption DEF Init, SpecFile, Listed
<1>2. \A kind : LinesRead(kind) = {}
  BY DEF Init, LinesRead
<1>3. Cardinality(LinesRead("so")) = 0
  BY <1>2, FS_EmptySet
<1>. QED  BY <1>1, <1>2, <1>3 DEF Init, ListInv, Listing

\* One more line is read.
LEMMA ReadLineList == ProcInv /\ ListInv /\ ReadLine => ListInv'
<1>. SUFFICES ASSUME ProcInv, ListInv, ReadLine, MainAlive' PROVE ListInv'
  BY DEF ListInv
<1>. DEFINE read == spec.lines[line + 1]
<1>1. mpc = "read" /\ nworkers < MaxNWorkers /\ HasLine /\ line' = line + 1
      /\ spec' = spec /\ nworkers' = nworkers /\ restarting' = restarting
  BY DEF ReadLine
<1>2. MainAlive /\ ~restarting
  BY <1>1 DEF MainAlive, ProcInv, AliveInv, ForkIsSafe
<1>3. spec \in SpecFile /\ line \in Nat /\ LinesRead("missing") = {}
      /\ Cardinality(LinesRead("so")) = nworkers
  <2>1. nworkers \in Nat
    BY DEF ProcInv, TypeOK
  <2>. QED  BY <1>1, <1>2, <2>1 DEF ListInv, Listing
<1>4. Len(spec.lines) \in Nat /\ spec.newline \in BOOLEAN /\ read \in Line
  BY <1>1, <1>3 DEF SpecFile, HasLine
<1>5. line + 1 <= Listed /\ Listed' = Listed
  BY <1>1, <1>3, <1>4 DEF HasLine, Listed
<1>6. \A kind : LinesRead(kind)' = LinesRead(kind) \cup (IF read = kind THEN {line + 1} ELSE {})
  BY <1>1, <1>3 DEF LinesRead
<1>7. CASE read = "comment"
  <2>1. mpc' = mpc
    BY <1>7 DEF ReadLine
  <2>2. LinesRead("so")' = LinesRead("so") /\ LinesRead("missing")' = {}
    BY <1>3, <1>6, <1>7
  <2>3. Cardinality(LinesRead("so"))' = nworkers' + 0 /\ Listing'
    <3>1. nworkers \in Nat
      BY DEF ProcInv, TypeOK
    <3>. QED  BY <1>1, <1>3, <2>1, <2>2, <3>1 DEF Listing
  <2>. QED  BY <1>1, <1>3, <1>5, <2>1, <2>2, <2>3 DEF ListInv
<1>8. CASE read = "missing"
  <2>1. MainDies("ended")
    BY <1>8 DEF ReadLine
  <2>. QED  BY <2>1 DEF MainDies, MainAlive
<1>9. CASE read = "so"
  <2>1. mpc' = "fork"
    BY <1>9 DEF ReadLine
  <2>2. IsFiniteSet(LinesRead("so")) /\ line + 1 \notin LinesRead("so")
    <3>1. LinesRead("so") \subseteq 1 .. line /\ IsFiniteSet(1 .. line)
      BY <1>3, FS_Interval DEF LinesRead
    <3>. QED  BY <3>1, <1>3, FS_Subset
  <2>3. Cardinality(LinesRead("so") \cup {line + 1}) = nworkers + 1
    BY <2>2, <1>3, FS_AddElement
  <2>4. LinesRead("so")' = LinesRead("so") \cup {line + 1} /\ LinesRead("missing")' = {}
    BY <1>3, <1>6, <1>9
  <2>5. Cardinality(LinesRead("so"))' = nworkers' + 1
    BY <1>1, <2>3, <2>4
  <2>. QED  BY <1>1, <1>2, <1>3, <1>5, <2>1, <2>4, <2>5 DEF ListInv, Listing
<1>. QED  BY <1>4, <1>7, <1>8, <1>9 DEF Line

\* Main goes on without reading.
LEMMA SameLines ==
  ASSUME ProcInv, ListInv, MainAlive, UNCHANGED <<spec, line>>,
         nworkers' + (IF Listing' /\ mpc' # "read" THEN 1 ELSE 0)
           = nworkers + (IF Listing /\ mpc # "read" THEN 1 ELSE 0),
         ~Listing' => line = Listed \/ nworkers' = MaxNWorkers
  PROVE  ListInv'
<1>1. Listed' = Listed /\ (\A kind : LinesRead(kind)' = LinesRead(kind))
  BY DEF Listed, LinesRead
<1>. QED  BY <1>1 DEF ListInv

LEMMA NextList == ProcInv /\ ListInv /\ [Next]_vars => ListInv'
<1>. SUFFICES ASSUME ProcInv, ListInv, [Next]_vars, MainAlive' PROVE ListInv'
  BY DEF ListInv
<1>. USE DEF MainAlive, Listing
<1>0. ASSUME NEW how, MainDies(how), how \in {"ended", "aborted"} PROVE FALSE
  BY <1>0 DEF MainDies
<1>1. CASE ReadLine
  BY <1>1, ReadLineList
<1>2. CASE EndOfSpec
  <2>1. line = Listed \/ nworkers = MaxNWorkers
    <3>1. spec \in SpecFile /\ line \in Nat /\ line <= Listed
      BY <1>2 DEF EndOfSpec, ListInv
    <3>2. Len(spec.lines) \in Nat /\ spec.newline \in BOOLEAN
      BY <3>1 DEF SpecFile
    <3>. QED  BY <1>2, <3>1, <3>2 DEF EndOfSpec, HasLine, Listed
  <2>. QED  BY <1>2, <2>1, SameLines DEF EndOfSpec, ProcInv, TypeOK
<1>3. CASE Fork \/ StorePid \/ RestartLoop
  BY <1>3, SameLines DEF Fork, StorePid, RestartLoop, ListInv, ProcInv, TypeOK, AliveInv, ForkIsSafe
<1>4. CASE WriteByte
  BY <1>4, SameLines DEF WriteByte, ListInv, ProcInv, TypeOK
<1>5. CASE NextRound
  BY <1>0, <1>5, SameLines DEF NextRound, ListInv, ProcInv, TypeOK
<1>6. CASE ForkFails \/ Killed
  BY <1>0, <1>6 DEF ForkFails, Killed
<1>7. CASE SigchldHandler
  <2>1. UNCHANGED mpc
    BY <1>0, <1>7 DEF SigchldHandler
  <2>. QED  BY <1>7, <2>1, SameLines DEF SigchldHandler, ListInv, ProcInv, TypeOK
<1>8. CASE UNCHANGED <<spec, mainVars>>
  BY <1>8, SameLines DEF mainVars, ListInv, ProcInv, TypeOK
<1>9. ASSUME NEW p \in Pids, StartStep(p) \/ WorkerStep(p) PROVE UNCHANGED <<spec, mainVars>>
  BY <1>9 DEF StartStep, WorkerStep, AskForSignal, CloseWriteEnd, ReadByte, ReadEof, Loads, GivesBack,
              Crashes, Exits
<1>10. CASE UNCHANGED vars
  BY <1>8, <1>10 DEF vars
<1>. QED
  BY <1>1, <1>2, <1>3, <1>4, <1>5, <1>6, <1>7, <1>8, <1>9, <1>10 DEF Next, MainStep, Stopped

\* The ring's workers are the shared objects that workers.spec lists, none
\* missing, whatever dies while they are started (mishegos.c:396-427).
THEOREM SpecIsRead == Spec => []WorkersAsListed
<1>1. Init => ProcInv /\ ListInv
  BY InitProc, InitList
<1>2. ProcInv /\ ListInv /\ [Next]_vars => (ProcInv /\ ListInv)'
  BY NextProc, NextList
<1>3. ProcInv /\ ListInv => WorkersAsListed
  <2>. SUFFICES ASSUME ProcInv, ListInv, mpc = "ring" PROVE WorkersAsListed
    BY DEF WorkersAsListed
  <2>1. MainAlive /\ ~Listing /\ nworkers \in 0 .. MaxNWorkers
    BY DEF MainAlive, Listing, ProcInv, TypeOK
  <2>2. line <= Listed /\ (line < Listed => nworkers = MaxNWorkers)
    BY <2>1 DEF ListInv
  <2>3. nworkers = Cardinality(LinesRead("so")) /\ LinesRead("missing") = {}
    <3>1. Cardinality(LinesRead("so")) = nworkers + 0 /\ LinesRead("missing") = {}
      BY <2>1 DEF ListInv
    <3>. QED  BY <2>1, <3>1
  <2>4. nworkers <= MaxNWorkers
    BY <2>1, ProcessesAssumption
  <2>. QED  BY <2>2, <2>3, <2>4 DEF WorkersAsListed, Listed, LinesRead
<1>. QED  BY <1>1, <1>2, <1>3, PTL DEF Spec
=============================================================================
