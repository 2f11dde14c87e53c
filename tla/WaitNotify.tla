----------------------------- MODULE WaitNotify -----------------------------
(***************************************************************************)
(* mish_atomic_wait_for and mish_atomic_notify (src/mishegos/mishegos.c,   *)
(* lines 56-98) down to the futex calls, used the way main, the workers    *)
(* and the SIGCHLD handler use them on the two counters of one chunk.      *)
(*                                                                         *)
(* A waiter that spins re-reads a value it already knows, which changes    *)
(* nothing: only the round in which it goes to sleep is an action.  Values *)
(* do not wrap: LastGen is far below 2^32.                                 *)
(***************************************************************************)
EXTENDS Integers, FiniteSets

CONSTANTS
  NWorkers,    \* workers that share the chunk
  LastGen,     \* bound: fills of the chunk
  MaxCrashes   \* bound: crashes of all workers together

ASSUME WaitNotifyAssumption ==
  NWorkers \in Nat /\ LastGen \in Nat /\ MaxCrashes \in Nat

Main    == 0
Workers == 1 .. NWorkers
Procs   == {Main} \cup Workers
Vars    == {"generation", "remaining_workers"}

VARIABLES
  ordered,       \* the machine's: a load stays after the stores before it (x86)
  val, waiters,  \* mish_atomic_uint, one per member of Vars
  pc,            \* where main and the workers are
  old,           \* local of mish_atomic_wait_for
  seen,          \* `waiters' as loaded by mish_atomic_notify
  gen,           \* locals of main and the workers
  sigchld,       \* workers reaped and not yet forked again
  crashes        \* number of crashes so far

vars == <<ordered, val, waiters, pc, old, seen, gen, sigchld, crashes>>

WaitPc   == {"check", "register", "futex", "asleep", "unregister"}
NotifyPc == {"store", "late", "load", "wake"}
Pc       == WaitPc \cup NotifyPc \cup {"woken", "arm", "work", "crashed", "reaped", "exited", "done"}

TypeOK ==
  /\ ordered \in BOOLEAN
  /\ val \in [Vars -> Int] /\ waiters \in [Vars -> Nat]
  /\ pc \in [Procs -> Pc]
  /\ old \in [Procs -> Int] /\ seen \in [Procs -> Nat]
  /\ gen \in [Procs -> Nat \ {0}]
  /\ sigchld \subseteq Workers
  /\ crashes \in 0 .. MaxCrashes

Init ==
  /\ ordered \in BOOLEAN
  /\ val = [v \in Vars |-> 0] /\ waiters = [v \in Vars |-> 0]
  /\ pc = [p \in Procs |-> "check"]
  /\ old = [p \in Procs |-> 0] /\ seen = [p \in Procs |-> 0]
  /\ gen = [p \in Procs |-> 1]
  /\ sigchld = {} /\ crashes = 0

-----------------------------------------------------------------------------
(***************************************************************************)
(* mish_atomic_wait_for(var, target)                                       *)
(***************************************************************************)

WaitsOn(p) == IF p = Main THEN "remaining_workers" ELSE "generation"
Target(p)  == IF p = Main THEN 0 ELSE gen[p]

\* Where the caller goes on.
Returned(p) == IF p = Main THEN "woken" ELSE "work"

Check(p) ==
  /\ pc[p] = "check"
  /\ IF val[WaitsOn(p)] = Target(p)
     THEN pc' = [pc EXCEPT ![p] = Returned(p)] /\ UNCHANGED old
     ELSE /\ old' = [old EXCEPT ![p] = val[WaitsOn(p)]]
          /\ pc' = [pc EXCEPT ![p] = "register"]
  /\ UNCHANGED <<ordered, val, waiters, seen, gen, sigchld, crashes>>

Register(p) ==
  /\ pc[p] = "register"
  /\ waiters' = [waiters EXCEPT ![WaitsOn(p)] = @ + 1]
  /\ pc' = [pc EXCEPT ![p] = "futex"]
  /\ UNCHANGED <<ordered, val, old, seen, gen, sigchld, crashes>>

\* The kernel puts the caller to sleep only if the value is still `old'.
FutexWait(p) ==
  /\ pc[p] = "futex"
  /\ pc' = [pc EXCEPT ![p] = IF val[WaitsOn(p)] = old[p] THEN "asleep" ELSE "unregister"]
  /\ UNCHANGED <<ordered, val, waiters, old, seen, gen, sigchld, crashes>>

\* Mutant: whoever was woken takes the target value for granted.
AfterSleep_Trust(p) == Returned(p)

\* The loop reads the value again after every sleep.
AfterSleep(p) == "check"

Unregister(p) ==
  /\ pc[p] = "unregister"
  /\ waiters' = [waiters EXCEPT ![WaitsOn(p)] = @ - 1]
  /\ pc' = [pc EXCEPT ![p] = AfterSleep(p)]
  /\ UNCHANGED <<ordered, val, old, seen, gen, sigchld, crashes>>

WaitFor(p) == Check(p) \/ Register(p) \/ FutexWait(p) \/ Unregister(p)

-----------------------------------------------------------------------------
(***************************************************************************)
(* A store or fetch_add followed by mish_atomic_notify(var)                *)
(***************************************************************************)

Notifies(p) == IF p = Main THEN "generation" ELSE "remaining_workers"

NewValue(p) == IF p = Main THEN gen[p] ELSE val["remaining_workers"] - 1

\* Mutant: a worker only notifies when there was nobody left before it.
NotifiesAfter_Zero(p) == p = Main \/ val["remaining_workers"] = 0

\* Main always notifies, a worker if it was the last one.
NotifiesAfter(p) == p = Main \/ val["remaining_workers"] = 1

\* Where p goes on after it.
After(p) == IF p # Main /\ gen[p] = LastGen THEN "exited" ELSE "check"

Stored(p) == val' = [val EXCEPT ![Notifies(p)] = NewValue(p)]

Store(p) ==
  /\ pc[p] = "store"
  /\ Stored(p)
  /\ IF NotifiesAfter(p)
     THEN pc' = [pc EXCEPT ![p] = "load"] /\ UNCHANGED gen
     ELSE pc' = [pc EXCEPT ![p] = After(p)] /\ gen' = [gen EXCEPT ![p] = @ + 1]
  /\ UNCHANGED <<ordered, waiters, old, seen, sigchld, crashes>>

\* Mutant: the waiters are looked up before the store on every machine.
MayLoadFirst_Always == TRUE

\* The relaxed load may be done before the store is visible to others.
MayLoadFirst == ~ordered

\* A worker has by then read that it is the last one.
LoadFirst(p) ==
  /\ pc[p] = "store" /\ MayLoadFirst /\ NotifiesAfter(p)
  /\ seen' = [seen EXCEPT ![p] = waiters[Notifies(p)]]
  /\ pc' = [pc EXCEPT ![p] = "late"]
  /\ UNCHANGED <<ordered, val, waiters, old, gen, sigchld, crashes>>

\* The store becomes visible; the value loaded before is acted upon.
LateStore(p) ==
  /\ pc[p] = "late"
  /\ Stored(p)
  /\ IF seen[p] # 0
     THEN pc' = [pc EXCEPT ![p] = "wake"] /\ UNCHANGED gen
     ELSE pc' = [pc EXCEPT ![p] = After(p)] /\ gen' = [gen EXCEPT ![p] = @ + 1]
  /\ UNCHANGED <<ordered, waiters, old, seen, sigchld, crashes>>

LoadWaiters(p) ==
  /\ pc[p] = "load"
  /\ seen' = [seen EXCEPT ![p] = waiters[Notifies(p)]]
  /\ IF waiters[Notifies(p)] # 0
     THEN pc' = [pc EXCEPT ![p] = "wake"] /\ UNCHANGED gen
     ELSE pc' = [pc EXCEPT ![p] = After(p)] /\ gen' = [gen EXCEPT ![p] = @ + 1]
  /\ UNCHANGED <<ordered, val, waiters, old, sigchld, crashes>>

Sleepers(v) == {q \in Procs : pc[q] = "asleep" /\ WaitsOn(q) = v}

FutexWake(p) ==
  /\ pc[p] = "wake"
  /\ pc' = [q \in Procs |-> IF q = p THEN After(p)
                            ELSE IF q \in Sleepers(Notifies(p)) THEN "unregister"
                            ELSE pc[q]]
  /\ gen' = [gen EXCEPT ![p] = @ + 1]
  /\ UNCHANGED <<ordered, val, waiters, old, seen, sigchld, crashes>>

Notify(p) == Store(p) \/ LoadFirst(p) \/ LateStore(p) \/ LoadWaiters(p) \/ FutexWake(p)

-----------------------------------------------------------------------------
(***************************************************************************)
(* The callers                                                             *)
(***************************************************************************)

\* The chunk came back: fork crashed workers again and wait for them, or arm
\* and publish the next generation, or end.
Restart ==
  /\ pc[Main] = "woken" /\ sigchld # {}
  /\ val' = [val EXCEPT !["remaining_workers"] = @ + Cardinality(sigchld)]
  /\ pc' = [p \in Procs |-> IF p \in sigchld \/ p = Main THEN "check" ELSE pc[p]]
  /\ sigchld' = {}
  /\ UNCHANGED <<ordered, waiters, old, seen, gen, crashes>>

Arm ==
  /\ pc[Main] = "woken" /\ sigchld = {} /\ gen[Main] <= LastGen
  /\ val' = [val EXCEPT !["remaining_workers"] = NWorkers]
  /\ pc' = [pc EXCEPT ![Main] = "store"]
  /\ UNCHANGED <<ordered, waiters, old, seen, gen, sigchld, crashes>>

Finish ==
  /\ pc[Main] = "woken" /\ sigchld = {} /\ gen[Main] > LastGen
  /\ pc' = [pc EXCEPT ![Main] = "done"]
  /\ UNCHANGED <<ordered, val, waiters, old, seen, gen, sigchld, crashes>>

\* The decode loop ends, or try_decode crashes.
Work(w) ==
  /\ pc[w] = "work"
  /\ \/ pc' = [pc EXCEPT ![w] = "store"] /\ UNCHANGED crashes
     \/ /\ crashes < MaxCrashes /\ crashes' = crashes + 1
        /\ pc' = [pc EXCEPT ![w] = "crashed"]
  /\ UNCHANGED <<ordered, val, waiters, old, seen, gen, sigchld>>

\* The signal interrupts main.  "No need to explicitly wake, however: the futex
\* syscall will be restarted and detect that the value changed".
SigchldHandler(w) ==
  /\ pc[w] = "crashed"
  /\ val' = [val EXCEPT !["remaining_workers"] = @ - 1]
  /\ sigchld' = sigchld \cup {w}
  /\ pc' = [pc EXCEPT ![w] = "reaped", ![Main] = IF @ = "asleep" THEN "futex" ELSE @]
  /\ UNCHANGED <<ordered, waiters, old, seen, gen, crashes>>

MainStep   == WaitFor(Main) \/ Notify(Main) \/ Restart \/ Arm \/ Finish
Worker(w)  == WaitFor(w) \/ Work(w) \/ Notify(w)
Terminated == pc[Main] = "done" /\ UNCHANGED vars

Next ==
  \/ MainStep
  \/ \E w \in Workers : Worker(w) \/ SigchldHandler(w)
  \/ Terminated

\* Every process is scheduled and signals are delivered.
Fairness ==
  /\ WF_vars(MainStep)
  /\ \A w \in Workers : WF_vars(Worker(w)) /\ WF_vars(SigchldHandler(w))

Spec == Init /\ [][Next]_vars /\ Fairness

-----------------------------------------------------------------------------
(***************************************************************************)
(* Properties                                                              *)
(***************************************************************************)

\* Somebody will still look at the waiters of v, or wake them.
WakeComing(v) == \E p \in Procs : pc[p] \in {"load", "wake"} /\ Notifies(p) = v

\* Where loads are not done early, no process sleeps on a counter that has its target value unless the process
\* that stored the value is still to wake it: the window between the load of
\* `waiters' (line 95) and the registration (line 72) loses no wake-up.
NoLostWakeup ==
  ordered =>
    \A p \in Procs :
      pc[p] = "asleep" /\ val[WaitsOn(p)] = Target(p) => WakeComing(WaitsOn(p))

\* Main and the workers as seen by the callers: whoever is in a wait waits, whoever
\* notifies is through with its store.
Notifying(p) == pc[p] \in {"load", "wake"}

MainState ==
  CASE pc[Main] \in WaitPc \/ Notifying(Main) -> "wait"
    [] pc[Main] \in {"store", "late"}         -> "armed"
    [] OTHER                                  -> pc[Main]

WorkerState(w) ==
  CASE pc[w] \in WaitPc            -> "wait"
    [] pc[w] \in {"store", "late"} -> "work"
    [] Notifying(w)                -> IF After(w) = "check" THEN "wait" ELSE "exited"
    [] OTHER                       -> pc[w]

NextGen(p) == IF Notifying(p) THEN gen[p] + 1 ELSE gen[p]

A == INSTANCE AwaitChunk WITH
       generation <- val["generation"],
       remaining  <- val["remaining_workers"],
       mstate     <- MainState,
       mgen       <- NextGen(Main),
       wstate     <- [w \in Workers |-> WorkerState(w)],
       wgen       <- [w \in Workers |-> NextGen(w)]

\* The futex is an implementation detail: every step is one of a chunk handed
\* back and forth with awaits, whatever the order of loads and stores, and where
\* loads are not done early every wait whose value has come returns.
StepsOfAwait == A!Init /\ [][A!Next]_(A!vars)
ImplementsAwait == StepsOfAwait /\ (ordered => A!Fairness)

\* The workers and main come to an end: no wait hangs.
EveryWaitReturns == <>(pc[Main] = "done")
-----------------------------------------------------------------------------
(***************************************************************************)
(* The inductive invariant behind NoLostWakeup (proved in                  *)
(* WaitNotifyProofs)                                                       *)
(***************************************************************************)

Registered(v) == {p \in Procs : WaitsOn(p) = v /\ pc[p] \in {"futex", "asleep", "unregister"}}

\* `waiters' counts the processes that may be asleep.
WaitersExact == \A v \in Vars : waiters[v] = Cardinality(Registered(v))

\* A process goes to sleep only on a value it does not wait for.
SleepsOnOther ==
  \A p \in Procs : pc[p] \in {"register", "futex", "asleep"} => old[p] # Target(p)

\* An ordered machine does no load before its store, and the reaped workers are the flagged ones.
Settled ==
  /\ ordered => \A p \in Procs : pc[p] # "late"
  /\ sigchld = {w \in Workers : pc[w] = "reaped"}

FutexInv == TypeOK /\ Settled /\ WaitersExact /\ SleepsOnOther /\ NoLostWakeup
=============================================================================
