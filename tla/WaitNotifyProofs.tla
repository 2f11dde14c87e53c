-------------------------- MODULE WaitNotifyProofs --------------------------
(***************************************************************************)
(* Proofs about WaitNotify, for every number of workers: no wake-up is     *)
(* lost where the load of `waiters' stays after the store, and the other   *)
(* parts of the invariant hold wherever it goes; and wherever it goes, the *)
(* functions implement awaits.                                             *)
(***************************************************************************)
EXTENDS WaitNotify, FiniteSetTheorems, TLAPS

\* The processes in or around the futex call.
Inside(p) == pc[p] \in {"futex", "asleep", "unregister"}

\* Sets of processes are finite.
LEMMA ProcsFinite == \A S \in SUBSET Procs : IsFiniteSet(S) /\ Cardinality(S) \in Nat
<1>1. IsFiniteSet(Workers)
  BY FS_Interval, WaitNotifyAssumption DEF Workers
<1>2. IsFiniteSet(Procs)
  <2>1. Procs = Workers \cup {Main}
    BY DEF Procs
  <2>. QED  BY <1>1, <2>1, FS_AddElement
<1>. QED  BY <1>2, FS_Subset, FS_CardinalityType

\* A step by which nobody enters or leaves the futex call keeps the count.
LEMMA SameWaiters ==
  ASSUME WaitersExact, waiters' = waiters, \A p \in Procs : Inside(p)' <=> Inside(p)
  PROVE  WaitersExact'
<1>1. ASSUME NEW v \in Vars PROVE Registered(v)' = Registered(v)
  BY DEF Registered, Inside, WaitsOn
<1>. QED  BY <1>1 DEF WaitersExact

\* A process that may be asleep on v is counted.
LEMMA SleeperCounted ==
  ASSUME WaitersExact, NEW p \in Procs, pc[p] = "asleep"
  PROVE  waiters[WaitsOn(p)] # 0
<1>1. WaitsOn(p) \in Vars
  BY DEF WaitsOn, Vars
<1>2. p \in Registered(WaitsOn(p))
  BY DEF Registered
<1>3. IsFiniteSet(Registered(WaitsOn(p)))
  BY ProcsFinite DEF Registered
<1>4. Cardinality(Registered(WaitsOn(p))) # 0
  BY <1>2, <1>3, FS_EmptySet
<1>. QED  BY <1>1, <1>4 DEF WaitersExact

\* A sleeper whose value has come is still to be woken after a step that
\* changes no counter, puts nobody to sleep and takes no notifier away.
LEMMA SameSleepers ==
  ASSUME NoLostWakeup, ordered' = ordered, val' = val, gen' = gen,
         \A p \in Procs : pc'[p] = "asleep" => pc[p] = "asleep",
         \A p \in Procs : pc[p] \in {"load", "wake"} => pc'[p] \in {"load", "wake"}
  PROVE  NoLostWakeup'
BY DEF NoLostWakeup, WakeComing, Target, WaitsOn, Notifies

\* FutexInv holds initially: nobody waits yet.
LEMMA InitFutex == Init => FutexInv
<1>. SUFFICES ASSUME Init PROVE FutexInv
  OBVIOUS
<1>1. TypeOK
  BY WaitNotifyAssumption DEF Init, TypeOK, Pc, WaitPc, Vars
<1>2. Settled /\ SleepsOnOther /\ NoLostWakeup
  BY DEF Init, Settled, Procs, SleepsOnOther, NoLostWakeup
<1>3. ASSUME NEW v \in Vars PROVE waiters[v] = Cardinality(Registered(v))
  <2>1. Registered(v) = {}
    BY DEF Init, Registered
  <2>. QED  BY <2>1, FS_EmptySet DEF Init
<1>. QED  BY <1>1, <1>2, <1>3 DEF FutexInv, WaitersExact

(***************************************************************************)
(* mish_atomic_wait_for                                                    *)
(***************************************************************************)

\* Reading the counter.
LEMMA CheckStep ==
  ASSUME FutexInv, NEW p \in Procs, Check(p)
  PROVE  FutexInv'
<1>. USE DEF FutexInv
<1>1. val[WaitsOn(p)] \in Int /\ Target(p) \in Int
  BY DEF TypeOK, WaitsOn, Vars, Target
<1>2. pc'[p] \in {"woken", "work", "register"} /\ pc' = [pc EXCEPT ![p] = pc'[p]]
  BY DEF Check, TypeOK, Returned
<1>3. TypeOK'
  <2>1. pc' \in [Procs -> Pc]
    BY <1>2 DEF TypeOK, Pc, WaitPc
  <2>2. old' \in [Procs -> Int]
    BY <1>1 DEF Check, TypeOK
  <2>. QED  BY <2>1, <2>2 DEF Check, TypeOK
<1>4. Settled'
  BY <1>2 DEF Check, Settled, TypeOK, Procs
<1>5. WaitersExact'
  <2>1. \A q \in Procs : Inside(q)' <=> Inside(q)
    BY <1>2 DEF Check, Inside, TypeOK
  <2>. QED  BY <2>1, SameWaiters DEF Check
<1>6. SleepsOnOther'
  BY <1>2 DEF Check, SleepsOnOther, TypeOK, Target, WaitsOn, Returned
<1>7. NoLostWakeup'
  BY <1>2, SameSleepers DEF Check, TypeOK
<1>. QED  BY <1>3, <1>4, <1>5, <1>6, <1>7

\* Registering as a waiter.
LEMMA RegisterStep ==
  ASSUME FutexInv, NEW p \in Procs, Register(p)
  PROVE  FutexInv'
<1>. USE DEF FutexInv
<1>. DEFINE u == WaitsOn(p)
<1>1. u \in Vars /\ pc' = [pc EXCEPT ![p] = "futex"]
  BY DEF Register, WaitsOn, Vars
<1>2. TypeOK'
  BY <1>1 DEF Register, TypeOK, Pc, WaitPc, WaitsOn
<1>3. Settled' /\ SleepsOnOther'
  BY <1>1 DEF Register, Settled, Procs, SleepsOnOther, TypeOK, Target
<1>4. WaitersExact'
  <2>1. Registered(u)' = Registered(u) \cup {p} /\ p \notin Registered(u)
    BY <1>1 DEF Register, Registered, TypeOK, WaitsOn
  <2>2. Cardinality(Registered(u)') = Cardinality(Registered(u)) + 1
    BY <2>1, ProcsFinite, FS_AddElement DEF Registered
  <2>3. ASSUME NEW v \in Vars, v # u PROVE Registered(v)' = Registered(v)
    BY <1>1, <2>3 DEF Register, Registered, TypeOK, WaitsOn
  <2>4. waiters' = [waiters EXCEPT ![u] = @ + 1]
    BY DEF Register
  <2>. QED  BY <1>1, <2>2, <2>3, <2>4 DEF WaitersExact, TypeOK
<1>5. NoLostWakeup'
  BY <1>1, SameSleepers DEF Register, TypeOK
<1>. QED  BY <1>2, <1>3, <1>4, <1>5

\* Going to sleep: only on the old value, which is not the target.
LEMMA FutexWaitStep ==
  ASSUME FutexInv, NEW p \in Procs, FutexWait(p)
  PROVE  FutexInv'
<1>. USE DEF FutexInv
<1>1. /\ pc'[p] = IF val[WaitsOn(p)] = old[p] THEN "asleep" ELSE "unregister"
      /\ pc' = [pc EXCEPT ![p] = pc'[p]]
  BY DEF FutexWait, TypeOK
<1>2. TypeOK'
  BY <1>1 DEF FutexWait, TypeOK, Pc, WaitPc
<1>3. Settled' /\ SleepsOnOther'
  BY <1>1 DEF FutexWait, Settled, Procs, SleepsOnOther, TypeOK, Target
<1>4. WaitersExact'
  <2>1. \A q \in Procs : Inside(q)' <=> Inside(q)
    BY <1>1 DEF FutexWait, Inside, TypeOK
  <2>. QED  BY <2>1, SameWaiters DEF FutexWait
<1>5. NoLostWakeup'
  <2>1. old[p] # Target(p)
    BY DEF FutexWait, SleepsOnOther
  <2>2. ASSUME NEW q \in Procs, q # p PROVE pc'[q] = pc[q]
    BY <1>1, <2>2 DEF TypeOK
  <2>3. pc[p] = "futex" /\ val' = val /\ gen' = gen /\ ordered' = ordered
    BY DEF FutexWait
  <2>. QED  BY <1>1, <2>1, <2>2, <2>3
            DEF NoLostWakeup, WakeComing, Target, WaitsOn, Notifies
<1>. QED  BY <1>2, <1>3, <1>4, <1>5

\* Woken up, or never put to sleep.
LEMMA UnregisterStep ==
  ASSUME FutexInv, NEW p \in Procs, Unregister(p)
  PROVE  FutexInv'
<1>. USE DEF FutexInv
<1>. DEFINE u == WaitsOn(p)
<1>1. u \in Vars /\ pc' = [pc EXCEPT ![p] = "check"]
  BY DEF Unregister, AfterSleep, WaitsOn, Vars
<1>2. Settled' /\ SleepsOnOther'
  BY <1>1 DEF Unregister, AfterSleep, Settled, Procs, SleepsOnOther, TypeOK, Target
<1>3. WaitersExact'
  <2>1. Registered(u)' = Registered(u) \ {p} /\ p \in Registered(u)
    BY <1>1 DEF Unregister, AfterSleep, Registered, TypeOK, WaitsOn
  <2>2. Cardinality(Registered(u)') = Cardinality(Registered(u)) - 1
    BY <2>1, ProcsFinite, FS_RemoveElement DEF Registered
  <2>3. ASSUME NEW v \in Vars, v # u PROVE Registered(v)' = Registered(v)
    BY <1>1, <2>3 DEF Unregister, AfterSleep, Registered, TypeOK, WaitsOn
  <2>4. waiters' = [waiters EXCEPT ![u] = @ - 1]
    BY DEF Unregister, AfterSleep
  <2>. QED  BY <1>1, <2>2, <2>3, <2>4 DEF WaitersExact, TypeOK
<1>4. TypeOK'
  <2>1. ASSUME NEW v \in Vars PROVE Cardinality(Registered(v)') \in Nat
    <3>1. Registered(v)' \in SUBSET Procs
      BY DEF Registered
    <3>. QED  BY <3>1, ProcsFinite
  <2>2. waiters' \in [Vars -> Nat]
    <3>1. waiters' = [waiters EXCEPT ![u] = @ - 1]
      BY DEF Unregister, AfterSleep
    <3>2. \A v \in Vars : waiters'[v] = Cardinality(Registered(v)')
      BY <1>3 DEF WaitersExact
    <3>. QED  BY <2>1, <3>1, <3>2 DEF TypeOK
  <2>. QED  BY <1>1, <2>2 DEF Unregister, AfterSleep, TypeOK, Pc, WaitPc
<1>5. NoLostWakeup'
  BY <1>1, SameSleepers DEF Unregister, AfterSleep, TypeOK
<1>. QED  BY <1>2, <1>3, <1>4, <1>5

(***************************************************************************)
(* A store and mish_atomic_notify                                          *)
(***************************************************************************)

\* Only a worker that brings the count to zero, or main, makes a value
\* somebody waits for, and these go on to look at the waiters.
LEMMA StoreStep ==
  ASSUME FutexInv, NEW p \in Procs, Store(p)
  PROVE  FutexInv'
<1>. USE DEF FutexInv
<1>1. /\ pc'[p] \in {"load", "check", "exited"} /\ pc' = [pc EXCEPT ![p] = pc'[p]]
      /\ NotifiesAfter(p) => pc'[p] = "load" /\ gen' = gen
  BY DEF Store, TypeOK, After
<1>2. gen' \in [Procs -> Nat \ {0}] /\ \A q \in Procs : q # p => gen'[q] = gen[q]
  BY DEF Store, TypeOK
<1>3. val' \in [Vars -> Int]
  BY DEF Store, Stored, TypeOK, NewValue, Notifies, Vars
<1>4. TypeOK'
  BY <1>1, <1>2, <1>3 DEF Store, TypeOK, Pc, WaitPc, NotifyPc
<1>5. Settled'
  BY <1>1 DEF Store, Settled, TypeOK, Procs
<1>6. WaitersExact'
  <2>1. \A q \in Procs : Inside(q)' <=> Inside(q)
    BY <1>1 DEF Store, Inside, TypeOK
  <2>. QED  BY <2>1, SameWaiters DEF Store
<1>7. SleepsOnOther'
  BY <1>1, <1>2 DEF Store, SleepsOnOther, TypeOK, Target
<1>8. NoLostWakeup'
  <2>. SUFFICES ASSUME ordered', NEW q \in Procs, pc'[q] = "asleep",
                       val'[WaitsOn(q)] = Target(q)'
                PROVE  WakeComing(WaitsOn(q))'
    BY DEF NoLostWakeup, WaitsOn
  <2>0. ordered
    BY DEF Store
  <2>1. q # p /\ pc[q] = "asleep" /\ Target(q)' = Target(q)
    BY <1>1, <1>2 DEF TypeOK, Target
  <2>2. ASSUME NEW r \in Procs, pc[r] \in {"load", "wake"}
        PROVE  pc'[r] \in {"load", "wake"}
    BY <1>1, <2>2 DEF Store, TypeOK
  <2>3. CASE val[WaitsOn(q)] = Target(q)
    BY <2>0, <2>1, <2>2, <2>3 DEF NoLostWakeup, WakeComing, WaitsOn, Notifies
  <2>4. CASE val[WaitsOn(q)] # Target(q)
    <3>1. Notifies(p) = WaitsOn(q)
      BY <2>1, <2>4 DEF Store, Stored, TypeOK, WaitsOn, Vars
    <3>2. NotifiesAfter(p)
      <4>1. CASE p = Main
        BY <4>1 DEF NotifiesAfter
      <4>2. CASE p # Main
        <5>1. q = Main /\ Target(q) = 0
          BY <3>1, <4>2 DEF Notifies, WaitsOn, Target
        <5>2. val'["remaining_workers"] = val["remaining_workers"] - 1
          BY <4>2 DEF Store, Stored, Notifies, NewValue, TypeOK, Vars
        <5>3. val["remaining_workers"] \in Int /\ val'["remaining_workers"] = 0
          BY <2>1, <5>1 DEF TypeOK, Vars, WaitsOn
        <5>. QED  BY <5>2, <5>3 DEF NotifiesAfter
      <4>. QED  BY <4>1, <4>2
    <3>. QED  BY <1>1, <3>1, <3>2 DEF WakeComing, Notifies, WaitsOn
  <2>. QED  BY <2>3, <2>4
<1>. QED  BY <1>4, <1>5, <1>6, <1>7, <1>8

\* A notifier that finds no waiters leaves no sleeper behind.
LEMMA LoadStep ==
  ASSUME FutexInv, NEW p \in Procs, LoadWaiters(p)
  PROVE  FutexInv'
<1>. USE DEF FutexInv
<1>1. /\ pc'[p] \in {"wake", "check", "exited"} /\ pc' = [pc EXCEPT ![p] = pc'[p]]
      /\ waiters[Notifies(p)] # 0 => pc'[p] = "wake"
  BY DEF LoadWaiters, TypeOK, After
<1>2. gen' \in [Procs -> Nat \ {0}] /\ \A q \in Procs : q # p => gen'[q] = gen[q]
  BY DEF LoadWaiters, TypeOK
<1>3. seen' \in [Procs -> Nat]
  BY DEF LoadWaiters, TypeOK, Notifies, Vars
<1>4. TypeOK'
  BY <1>1, <1>2, <1>3 DEF LoadWaiters, TypeOK, Pc, WaitPc, NotifyPc
<1>5. Settled'
  BY <1>1 DEF LoadWaiters, Settled, TypeOK, Procs
<1>6. WaitersExact'
  <2>1. \A q \in Procs : Inside(q)' <=> Inside(q)
    BY <1>1 DEF LoadWaiters, Inside, TypeOK
  <2>. QED  BY <2>1, SameWaiters DEF LoadWaiters
<1>7. SleepsOnOther'
  BY <1>1, <1>2 DEF LoadWaiters, SleepsOnOther, TypeOK, Target
<1>8. NoLostWakeup'
  <2>. SUFFICES ASSUME ordered', NEW q \in Procs, pc'[q] = "asleep",
                       val'[WaitsOn(q)] = Target(q)'
                PROVE  WakeComing(WaitsOn(q))'
    BY DEF NoLostWakeup, WaitsOn
  <2>0. ordered
    BY DEF LoadWaiters
  <2>1. q # p /\ pc[q] = "asleep" /\ Target(q)' = Target(q) /\ val' = val
    BY <1>1, <1>2 DEF LoadWaiters, TypeOK, Target
  <2>2. PICK r \in Procs : pc[r] \in {"load", "wake"} /\ Notifies(r) = WaitsOn(q)
    BY <2>0, <2>1 DEF NoLostWakeup, WakeComing
  <2>3. waiters[WaitsOn(q)] # 0
    BY <2>1, SleeperCounted
  <2>4. pc'[r] \in {"load", "wake"}
    BY <1>1, <2>2, <2>3 DEF TypeOK
  <2>. QED  BY <2>2, <2>4 DEF WakeComing, Notifies, WaitsOn
<1>. QED  BY <1>4, <1>5, <1>6, <1>7, <1>8

\* The wake-up reaches every sleeper.
LEMMA WakeStep ==
  ASSUME FutexInv, NEW p \in Procs, FutexWake(p)
  PROVE  FutexInv'
<1>. USE DEF FutexInv
<1>1. /\ pc[p] = "wake" /\ pc'[p] \in {"check", "exited"}
      /\ \A q \in Procs : q # p => pc'[q] = IF q \in Sleepers(Notifies(p)) THEN "unregister" ELSE pc[q]
  BY DEF FutexWake, After
<1>2. gen' \in [Procs -> Nat \ {0}] /\ \A q \in Procs : q # p => gen'[q] = gen[q]
  BY DEF FutexWake, TypeOK
<1>3. TypeOK'
  <2>1. ASSUME NEW q \in Procs PROVE pc'[q] \in Pc
    BY <1>1 DEF TypeOK, Pc, WaitPc
  <2>2. pc' \in [Procs -> Pc]
    BY <2>1 DEF FutexWake
  <2>. QED  BY <1>2, <2>2 DEF FutexWake, TypeOK
<1>4. Settled'
  BY <1>1 DEF FutexWake, Settled, Procs, Sleepers
<1>5. WaitersExact'
  <2>1. \A q \in Procs : Inside(q)' <=> Inside(q)
    BY <1>1 DEF FutexWake, Inside, Sleepers
  <2>. QED  BY <2>1, SameWaiters DEF FutexWake
<1>6. SleepsOnOther'
  BY <1>1, <1>2 DEF FutexWake, SleepsOnOther, Target
<1>7. NoLostWakeup'
  <2>. SUFFICES ASSUME ordered', NEW q \in Procs, pc'[q] = "asleep",
                       val'[WaitsOn(q)] = Target(q)'
                PROVE  WakeComing(WaitsOn(q))'
    BY DEF NoLostWakeup, WaitsOn
  <2>0. ordered
    BY DEF FutexWake
  <2>1. q # p /\ pc[q] = "asleep" /\ Target(q)' = Target(q) /\ val' = val
    BY <1>1, <1>2 DEF FutexWake, Target
  <2>2. WaitsOn(q) # Notifies(p)
    BY <1>1, <2>1 DEF Sleepers
  <2>3. PICK r \in Procs : pc[r] \in {"load", "wake"} /\ Notifies(r) = WaitsOn(q)
    BY <2>0, <2>1 DEF NoLostWakeup, WakeComing
  <2>4. pc'[r] = pc[r]
    BY <1>1, <2>2, <2>3 DEF Sleepers
  <2>. QED  BY <2>3, <2>4 DEF WakeComing, Notifies, WaitsOn
<1>. QED  BY <1>3, <1>4, <1>5, <1>6, <1>7

\* A notifier may load `waiters' before its store only on a machine that is not
\* ordered, of which NoLostWakeup says nothing.
LEMMA EarlyLoadStep ==
  ASSUME FutexInv, NEW p \in Procs, LoadFirst(p) \/ LateStore(p)
  PROVE  FutexInv'
<1>. USE DEF FutexInv
<1>1. ~ordered /\ ordered' = ordered
  BY DEF LoadFirst, LateStore, MayLoadFirst, Settled
<1>2. /\ pc[p] \in {"store", "late"} /\ pc'[p] \in {"late", "wake", "check", "exited"}
      /\ pc' = [pc EXCEPT ![p] = pc'[p]]
  BY DEF LoadFirst, LateStore, TypeOK, After
<1>3. gen' \in [Procs -> Nat \ {0}] /\ \A q \in Procs : q # p => gen'[q] = gen[q]
  BY DEF LoadFirst, LateStore, TypeOK
<1>4. TypeOK'
  <2>1. val' \in [Vars -> Int]
    BY DEF LoadFirst, LateStore, Stored, TypeOK, NewValue, Notifies, Vars
  <2>2. seen' \in [Procs -> Nat]
    BY DEF LoadFirst, LateStore, TypeOK, Notifies, Vars
  <2>3. pc' \in [Procs -> Pc]
    BY <1>2 DEF TypeOK, Pc, WaitPc, NotifyPc
  <2>. QED  BY <1>3, <2>1, <2>2, <2>3 DEF LoadFirst, LateStore, TypeOK
<1>5. Settled'
  <2>1. sigchld' = sigchld
    BY DEF LoadFirst, LateStore
  <2>2. \A w \in Workers : pc'[w] = "reaped" <=> pc[w] = "reaped"
    BY <1>2 DEF TypeOK, Procs
  <2>. QED  BY <1>1, <2>1, <2>2 DEF Settled
<1>6. WaitersExact'
  <2>1. \A q \in Procs : Inside(q)' <=> Inside(q)
    BY <1>2 DEF Inside, TypeOK
  <2>. QED  BY <2>1, SameWaiters DEF LoadFirst, LateStore
<1>7. SleepsOnOther'
  BY <1>2, <1>3 DEF LoadFirst, LateStore, SleepsOnOther, TypeOK, Target
<1>8. NoLostWakeup'
  BY <1>1 DEF NoLostWakeup
<1>. QED  BY <1>4, <1>5, <1>6, <1>7, <1>8

(***************************************************************************)
(* The callers                                                             *)
(***************************************************************************)

\* Main changes the count only while it is awake; the handler, which also
\* does, makes main's futex call start again.
LEMMA CallerStep ==
  ASSUME FutexInv,
         Restart \/ Arm \/ Finish \/ (\E w \in Workers : Work(w) \/ SigchldHandler(w))
  PROVE  FutexInv'
<1>. USE DEF FutexInv
<1>0. Main \in Procs /\ Workers \subseteq Procs /\ "remaining_workers" \in Vars /\ Main \notin Workers
  BY DEF Procs, Vars, Main, Workers
<1>1. /\ ordered' = ordered /\ waiters' = waiters /\ old' = old /\ gen' = gen /\ seen' = seen
      /\ \A v \in Vars : v # "remaining_workers" => val'[v] = val[v]
  BY DEF Restart, Arm, Finish, Work, SigchldHandler, TypeOK, Vars
<1>2. ASSUME NEW q \in Procs
      PROVE  \/ pc'[q] = pc[q]
             \/ q = Main /\ pc[q] = "asleep" /\ pc'[q] = "futex"
             \/ /\ ~Inside(q) /\ pc[q] \notin {"load", "wake"}
                /\ pc'[q] \in {"check", "store", "done", "crashed", "reaped"}
  <2>1. CASE Restart
    BY <2>1, <1>0 DEF Restart, Inside, TypeOK, Settled
  <2>2. CASE Arm
    BY <2>2, <1>0 DEF Arm, Inside, TypeOK
  <2>3. CASE Finish
    BY <2>3, <1>0 DEF Finish, Inside, TypeOK
  <2>4. CASE \E w \in Workers : Work(w)
    BY <2>4, <1>0 DEF Work, Inside, TypeOK
  <2>5. CASE \E w \in Workers : SigchldHandler(w)
    BY <2>5, <1>0 DEF SigchldHandler, Inside, TypeOK
  <2>. QED  BY <2>1, <2>2, <2>3, <2>4, <2>5
<1>3. pc'[Main] = "asleep" => pc[Main] = "asleep" /\ val' = val
  BY <1>0 DEF Restart, Arm, Finish, Work, SigchldHandler, TypeOK
<1>4. TypeOK'
  <2>1. DOMAIN pc' = Procs /\ \A q \in Procs : pc'[q] \in Pc
    BY <1>2 DEF Restart, Arm, Finish, Work, SigchldHandler, TypeOK, Pc, WaitPc, NotifyPc
  <2>2. pc' \in [Procs -> Pc]
    BY <2>1 DEF Restart, Arm, Finish, Work, SigchldHandler, TypeOK
  <2>3. Cardinality(sigchld) \in Int /\ NWorkers \in Int
    BY ProcsFinite, WaitNotifyAssumption, <1>0 DEF TypeOK
  <2>4. val' \in [Vars -> Int]
    BY <2>3 DEF Restart, Arm, Finish, Work, SigchldHandler, TypeOK
  <2>5. sigchld' \subseteq Workers /\ crashes' \in 0 .. MaxCrashes
    BY WaitNotifyAssumption DEF Restart, Arm, Finish, Work, SigchldHandler, TypeOK
  <2>. QED  BY <1>1, <2>2, <2>4, <2>5 DEF TypeOK
<1>5. Settled'
  <2>1. ordered' => \A q \in Procs : pc'[q] # "late"
    BY <1>1, <1>2 DEF Settled
  <2>2. CASE Restart
    BY <2>2, <1>0 DEF Restart, Settled, TypeOK
  <2>3. CASE Arm \/ Finish
    BY <2>3, <1>0 DEF Arm, Finish, Settled, TypeOK
  <2>4. CASE \E w \in Workers : Work(w)
    BY <2>4, <1>0 DEF Work, Settled, TypeOK
  <2>5. CASE \E w \in Workers : SigchldHandler(w)
    BY <2>5, <1>0 DEF SigchldHandler, Settled, TypeOK
  <2>. QED  BY <2>1, <2>2, <2>3, <2>4, <2>5 DEF Settled
<1>6. WaitersExact'
  <2>1. \A q \in Procs : Inside(q)' <=> Inside(q)
    BY <1>2 DEF Inside
  <2>. QED  BY <1>1, <2>1, SameWaiters
<1>7. SleepsOnOther'
  <2>1. ASSUME NEW q \in Procs, pc'[q] \in {"register", "futex", "asleep"}
        PROVE  pc[q] \in {"register", "futex", "asleep"}
    BY <1>2, <2>1
  <2>. QED  BY <1>1, <2>1 DEF SleepsOnOther, Target
<1>8. NoLostWakeup'
  <2>. SUFFICES ASSUME ordered', NEW q \in Procs, pc'[q] = "asleep",
                       val'[WaitsOn(q)] = Target(q)'
                PROVE  WakeComing(WaitsOn(q))'
    BY DEF NoLostWakeup, WaitsOn
  <2>0. ordered
    BY DEF Restart, Arm, Finish, Work, SigchldHandler
  <2>1. pc[q] = "asleep"
    BY <1>2
  <2>2. val'[WaitsOn(q)] = val[WaitsOn(q)]
    BY <1>1, <1>3 DEF WaitsOn, Vars
  <2>3. PICK r \in Procs : pc[r] \in {"load", "wake"} /\ Notifies(r) = WaitsOn(q)
    BY <2>0, <1>1, <2>1, <2>2 DEF NoLostWakeup, WakeComing, Target
  <2>4. pc'[r] = pc[r]
    BY <1>2, <2>3
  <2>. QED  BY <2>3, <2>4 DEF WakeComing, Notifies, WaitsOn
<1>. QED  BY <1>4, <1>5, <1>6, <1>7, <1>8

(***************************************************************************)
(* The theorems                                                            *)
(***************************************************************************)

\* FutexInv is inductive, for any number of workers, generations and crashes.
THEOREM FutexInvariant == Spec => []FutexInv
<1>1. ASSUME FutexInv, [Next]_vars PROVE FutexInv'
  <2>1. CASE \E p \in Procs : WaitFor(p)
    BY <1>1, <2>1, CheckStep, RegisterStep, FutexWaitStep, UnregisterStep DEF WaitFor
  <2>2. CASE \E p \in Procs : Notify(p)
    BY <1>1, <2>2, StoreStep, EarlyLoadStep, LoadStep, WakeStep DEF Notify
  <2>3. CASE Restart \/ Arm \/ Finish \/ \E w \in Workers : Work(w) \/ SigchldHandler(w)
    BY <1>1, <2>3, CallerStep
  <2>4. CASE UNCHANGED vars
    BY <1>1, <2>4
    DEF vars, FutexInv, TypeOK, Settled, WaitersExact, Registered, SleepsOnOther, Target,
        NoLostWakeup, WakeComing
  <2>5. Main \in Procs /\ Workers \subseteq Procs
    BY DEF Procs
  <2>. QED  BY <1>1, <2>1, <2>2, <2>3, <2>4, <2>5 DEF Next, MainStep, Worker, Terminated
<1>. QED  BY <1>1, InitFutex, PTL DEF Spec

\* Where loads are not done early, no process sleeps on a value that has come
\* with nobody about to wake it.
THEOREM WakeupsArrive == Spec => []NoLostWakeup
<1>1. FutexInv => NoLostWakeup
  BY DEF FutexInv
<1>. QED  BY <1>1, FutexInvariant, PTL

(***************************************************************************)
(* The steps of AwaitChunk                                                 *)
(***************************************************************************)

\* A step of q that the callers do not see.
Unseen(q) ==
  \/ gen'[q] = gen[q] /\ pc'[q] = pc[q]
  \/ gen'[q] = gen[q] /\ {pc[q], pc'[q]} \subseteq WaitPc
  \/ gen'[q] = gen[q] /\ {pc[q], pc'[q]} \subseteq {"store", "late"}
  \/ gen'[q] = gen[q] /\ {pc[q], pc'[q]} \subseteq {"load", "wake"}
  \/ gen'[q] = gen[q] + 1 /\ pc[q] \in {"load", "wake"} /\ pc'[q] = After(q)

LEMMA UnseenMain ==
  ASSUME Unseen(Main)
  PROVE  MainState' = MainState /\ NextGen(Main)' = NextGen(Main)
<1>1. CASE gen'[Main] = gen[Main] + 1 /\ pc[Main] \in {"load", "wake"} /\ pc'[Main] = After(Main)
  <2>1. pc'[Main] = "check"
    BY <1>1 DEF After
  <2>. QED  BY <1>1, <2>1 DEF MainState, NextGen, Notifying, WaitPc
<1>2. CASE ~(gen'[Main] = gen[Main] + 1 /\ pc[Main] \in {"load", "wake"} /\ pc'[Main] = After(Main))
  BY <1>2 DEF Unseen, MainState, NextGen, Notifying, WaitPc
<1>. QED  BY <1>1, <1>2

LEMMA UnseenWorker ==
  ASSUME NEW w \in Workers, Unseen(w)
  PROVE  WorkerState(w)' = WorkerState(w) /\ NextGen(w)' = NextGen(w)
<1>1. CASE gen'[w] = gen[w]
  BY <1>1 DEF Unseen, WorkerState, NextGen, Notifying, WaitPc, After
<1>2. CASE gen'[w] = gen[w] + 1 /\ pc[w] \in {"load", "wake"} /\ pc'[w] = After(w)
  <2>1. After(w) \in {"check", "exited"}
    BY DEF After
  <2>2. WorkerState(w) = IF After(w) = "check" THEN "wait" ELSE "exited"
    BY <1>2 DEF WorkerState, Notifying, WaitPc
  <2>3. WorkerState(w)' = IF pc'[w] = "check" THEN "wait" ELSE "exited"
    BY <1>2, <2>1 DEF WorkerState, Notifying, WaitPc
  <2>4. NextGen(w)' = NextGen(w)
    BY <1>2, <2>1 DEF NextGen, Notifying
  <2>. QED  BY <1>2, <2>2, <2>3, <2>4
<1>. QED  BY <1>1, <1>2 DEF Unseen

LEMMA UnseenStep ==
  ASSUME val' = val, \A q \in Procs : Unseen(q)
  PROVE  UNCHANGED A!vars
<1>1. MainState' = MainState /\ NextGen(Main)' = NextGen(Main)
  BY UnseenMain DEF Procs
<1>2. \A w \in Workers : WorkerState(w)' = WorkerState(w) /\ NextGen(w)' = NextGen(w)
  BY UnseenWorker DEF Procs
<1>. QED  BY <1>1, <1>2 DEF A!vars

\* The workers but for one as the callers see them.
LEMMA OnlyWorker ==
  ASSUME NEW w \in Workers, \A q \in Procs \ {w} : Unseen(q),
         NEW s, NEW g, WorkerState(w)' = s, NextGen(w)' = g
  PROVE  /\ MainState' = MainState /\ NextGen(Main)' = NextGen(Main)
         /\ [v \in Workers |-> WorkerState(v)]' =
              [[v \in Workers |-> WorkerState(v)] EXCEPT ![w] = s]
         /\ [v \in Workers |-> NextGen(v)]' = [[v \in Workers |-> NextGen(v)] EXCEPT ![w] = g]
<1>1. Main \in Procs \ {w} /\ Workers \subseteq Procs
  BY WaitNotifyAssumption DEF Procs, Main, Workers
<1>2. \A v \in Workers \ {w} : WorkerState(v)' = WorkerState(v) /\ NextGen(v)' = NextGen(v)
  BY <1>1, UnseenWorker
<1>. QED  BY <1>1, <1>2, UnseenMain

LEMMA OnlyMain ==
  ASSUME \A q \in Workers : Unseen(q)
  PROVE  /\ [v \in Workers |-> WorkerState(v)]' = [v \in Workers |-> WorkerState(v)]
         /\ [v \in Workers |-> NextGen(v)]' = [v \in Workers |-> NextGen(v)]
BY UnseenWorker

LEMMA CheckAwaits ==
  ASSUME FutexInv, NEW p \in Procs, Check(p)
  PROVE  [A!Next]_A!vars
<1>0. pc \in [Procs -> Pc] /\ pc[p] = "check" /\ val' = val /\ gen' = gen
  BY DEF FutexInv, TypeOK, Check
<1>1. CASE val[WaitsOn(p)] # Target(p)
  <2>1. pc' = [pc EXCEPT ![p] = "register"]
    BY <1>1 DEF Check
  <2>2. \A q \in Procs : Unseen(q)
    BY <1>0, <2>1 DEF Unseen, WaitPc
  <2>. QED  BY <1>0, <2>2, UnseenStep
<1>2. CASE val[WaitsOn(p)] = Target(p) /\ p = Main
  <2>1. pc' = [pc EXCEPT ![Main] = "woken"] /\ val["remaining_workers"] = 0
    BY <1>2 DEF Check, Returned, WaitsOn, Target
  <2>2. \A q \in Workers : Unseen(q)
    BY <1>0, <2>1, WaitNotifyAssumption DEF Unseen, Procs, Main, Workers
  <2>3. MainState = "wait" /\ MainState' = "woken" /\ NextGen(Main)' = NextGen(Main)
    BY <1>0, <1>2, <2>1 DEF MainState, NextGen, Notifying, WaitPc
  <2>4. A!Collect
    BY <1>0, <2>1, <2>2, <2>3, OnlyMain DEF A!Collect
  <2>. QED  BY <2>4 DEF A!Next, A!MainStep
<1>3. CASE val[WaitsOn(p)] = Target(p) /\ p # Main
  <2>1. p \in Workers /\ pc' = [pc EXCEPT ![p] = "work"] /\ val["generation"] = gen[p]
    BY <1>3 DEF Check, Returned, WaitsOn, Target, Procs
  <2>2. \A q \in Procs \ {p} : Unseen(q)
    BY <1>0, <2>1 DEF Unseen
  <2>3. /\ WorkerState(p) = "wait" /\ WorkerState(p)' = "work"
        /\ NextGen(p) = gen[p] /\ NextGen(p)' = NextGen(p)
    BY <1>0, <2>1 DEF WorkerState, NextGen, Notifying, WaitPc
  <2>4. A!Take(p)
    BY <1>0, <2>1, <2>2, <2>3, OnlyWorker DEF A!Take
  <2>. QED  BY <2>1, <2>4 DEF A!Next
<1>. QED  BY <1>1, <1>2, <1>3

\* The rest of a wait shows nothing.
LEMMA WaitUnseen ==
  ASSUME FutexInv, NEW p \in Procs, Register(p) \/ FutexWait(p) \/ Unregister(p)
  PROVE  UNCHANGED A!vars
<1>1. pc \in [Procs -> Pc] /\ val' = val /\ gen' = gen
  BY DEF FutexInv, TypeOK, Register, FutexWait, Unregister
<1>2. \E x \in WaitPc : pc[p] \in WaitPc /\ pc' = [pc EXCEPT ![p] = x]
  BY DEF Register, FutexWait, Unregister, AfterSleep, WaitPc
<1>3. \A q \in Procs : Unseen(q)
  BY <1>1, <1>2 DEF Unseen
<1>. QED  BY <1>1, <1>3, UnseenStep

\* The store is the step of a notification that the others see.
LEMMA StoreAwaits ==
  ASSUME FutexInv, NEW p \in Procs, Store(p) \/ LateStore(p)
  PROVE  A!Next
<1>1. /\ pc \in [Procs -> Pc] /\ gen \in [Procs -> Nat \ {0}] /\ val \in [Vars -> Int]
      /\ pc[p] \in {"store", "late"} /\ Stored(p)
  BY DEF FutexInv, TypeOK, Store, LateStore
<1>2. \/ gen' = gen /\ \E x \in {"load", "wake"} : pc' = [pc EXCEPT ![p] = x]
      \/ gen' = [gen EXCEPT ![p] = @ + 1] /\ pc' = [pc EXCEPT ![p] = After(p)]
  BY DEF Store, LateStore
<1>3. After(p) \in {"check", "exited"} /\ gen[p] \in Nat
  BY <1>1 DEF After
<1>4. \A q \in Procs \ {p} : Unseen(q)
  BY <1>1, <1>2 DEF Unseen
<1>5. NextGen(p) = gen[p] /\ NextGen(p)' = gen[p] + 1
  BY <1>1, <1>2, <1>3 DEF NextGen, Notifying
<1>6. CASE p = Main
  <2>1. val' = [val EXCEPT !["generation"] = gen[Main]]
    BY <1>1, <1>6 DEF Stored, Notifies, NewValue
  <2>2. After(Main) = "check"
    BY DEF After
  <2>3. MainState = "armed" /\ MainState' = "wait"
    BY <1>1, <1>2, <1>6, <2>2 DEF MainState, Notifying, WaitPc
  <2>4. \A q \in Workers : Unseen(q)
    BY <1>4, <1>6, WaitNotifyAssumption DEF Procs, Main, Workers
  <2>5. val'["generation"] = gen[Main] /\ val'["remaining_workers"] = val["remaining_workers"]
    BY <1>1, <2>1 DEF Vars
  <2>6. A!Publish
    BY <1>5, <1>6, <2>3, <2>4, <2>5, OnlyMain DEF A!Publish
  <2>. QED  BY <2>6 DEF A!Next, A!MainStep
<1>7. CASE p # Main
  <2>1. p \in Workers /\ val' = [val EXCEPT !["remaining_workers"] = @ - 1]
    BY <1>1, <1>7 DEF Stored, Notifies, NewValue, Procs
  <2>2. After(p) = IF gen[p] = LastGen THEN "exited" ELSE "check"
    BY <1>7 DEF After
  <2>3. WorkerState(p) = "work" /\ WorkerState(p)' = IF gen[p] = LastGen THEN "exited" ELSE "wait"
    <3>1. WorkerState(p) = "work"
      BY <1>1 DEF WorkerState, Notifying, WaitPc
    <3>2. CASE gen' = gen /\ \E x \in {"load", "wake"} : pc' = [pc EXCEPT ![p] = x]
      <4>1. pc'[p] \in {"load", "wake"} /\ After(p)' = After(p)
        BY <1>1, <3>2 DEF After
      <4>2. WorkerState(p)' = IF After(p)' = "check" THEN "wait" ELSE "exited"
        BY <4>1 DEF WorkerState, Notifying, WaitPc
      <4>. QED  BY <2>2, <3>1, <4>1, <4>2
    <3>3. CASE pc' = [pc EXCEPT ![p] = After(p)]
      <4>1. pc'[p] = After(p)
        BY <1>1, <3>3
      <4>2. WorkerState(p)' = IF pc'[p] = "check" THEN "wait" ELSE "exited"
        BY <1>3, <4>1 DEF WorkerState, Notifying, WaitPc
      <4>. QED  BY <2>2, <3>1, <4>1, <4>2
    <3>. QED  BY <1>2, <3>2, <3>3
  <2>4. val'["generation"] = val["generation"]
        /\ val'["remaining_workers"] = val["remaining_workers"] - 1
    BY <1>1, <2>1 DEF Vars
  <2>5. /\ MainState' = MainState /\ NextGen(Main)' = NextGen(Main)
        /\ [v \in Workers |-> WorkerState(v)]' =
             [[v \in Workers |-> WorkerState(v)] EXCEPT
                ![p] = IF gen[p] = LastGen THEN "exited" ELSE "wait"]
        /\ [v \in Workers |-> NextGen(v)]' = [[v \in Workers |-> NextGen(v)] EXCEPT ![p] = gen[p] + 1]
    BY <1>4, <1>5, <2>1, <2>3, OnlyWorker
  <2>6. A!Give(p)
    BY <1>5, <2>1, <2>3, <2>4, <2>5 DEF A!Give
  <2>. QED  BY <2>1, <2>6 DEF A!Next
<1>. QED  BY <1>6, <1>7

LEMMA NotifyUnseen ==
  ASSUME FutexInv, NEW p \in Procs, LoadFirst(p) \/ LoadWaiters(p) \/ FutexWake(p)
  PROVE  UNCHANGED A!vars
<1>0. pc \in [Procs -> Pc] /\ gen \in [Procs -> Nat \ {0}]
  BY DEF FutexInv, TypeOK
<1>1. val' = val
  BY DEF LoadFirst, LoadWaiters, FutexWake
<1>2. CASE LoadFirst(p)
  <2>1. \A q \in Procs : Unseen(q)
    BY <1>0, <1>2 DEF LoadFirst, Unseen
  <2>. QED  BY <1>1, <2>1, UnseenStep
<1>3. CASE LoadWaiters(p)
  <2>1. \A q \in Procs : Unseen(q)
    BY <1>0, <1>3 DEF LoadWaiters, Unseen
  <2>. QED  BY <1>1, <2>1, UnseenStep
<1>4. CASE FutexWake(p)
  <2>1. \A q \in Procs : Unseen(q)
    <3>. SUFFICES ASSUME NEW q \in Procs PROVE Unseen(q)
      OBVIOUS
    <3>1. CASE q = p
      BY <1>0, <1>4, <3>1 DEF FutexWake, Unseen
    <3>2. CASE q # p
      BY <1>0, <1>4, <3>2 DEF FutexWake, Unseen, Sleepers, WaitPc
    <3>. QED  BY <3>1, <3>2
  <2>. QED  BY <1>1, <2>1, UnseenStep
<1>. QED  BY <1>2, <1>3, <1>4

\* The reaped workers are the ones main has to start again.
LEMMA ReapedAre ==
  ASSUME FutexInv
  PROVE  {w \in Workers : [v \in Workers |-> WorkerState(v)][w] = "reaped"} = sigchld
<1>1. \A w \in Workers : WorkerState(w) = "reaped" <=> pc[w] = "reaped"
  BY DEF WorkerState, Notifying, WaitPc
<1>. QED  BY <1>1 DEF FutexInv, Settled

\* Both modules count with the same operator.
LEMMA SameCardinality == \A S : A!Cardinality(S) = Cardinality(S)
BY Zenon DEF A!Cardinality, Cardinality

LEMMA MainAwaits ==
  ASSUME FutexInv, Restart \/ Arm \/ Finish
  PROVE  A!Next
<1>0. /\ pc \in [Procs -> Pc] /\ val \in [Vars -> Int] /\ sigchld \subseteq Workers
      /\ pc[Main] = "woken" /\ gen' = gen /\ Main \notin Workers /\ Main \in Procs
      /\ Workers \subseteq Procs
  BY WaitNotifyAssumption DEF FutexInv, TypeOK, Restart, Arm, Finish, Main, Workers, Procs
<1>1. MainState = "woken" /\ A!Reaped = sigchld
  BY <1>0, ReapedAre DEF MainState, Notifying, WaitPc, A!Reaped
<1>2. CASE Restart
  <2>1. /\ pc' = [p \in Procs |-> IF p \in sigchld \/ p = Main THEN "check" ELSE pc[p]]
        /\ val' = [val EXCEPT !["remaining_workers"] = @ + Cardinality(sigchld)] /\ sigchld # {}
    BY <1>2 DEF Restart
  <2>2. MainState' = "wait" /\ NextGen(Main)' = NextGen(Main)
    BY <1>0, <2>1 DEF MainState, NextGen, Notifying, WaitPc
  <2>3. \A w \in Workers : /\ WorkerState(w)' = IF w \in sigchld THEN "wait" ELSE WorkerState(w)
                           /\ NextGen(w)' = NextGen(w)
    <3>. SUFFICES ASSUME NEW w \in Workers
                  PROVE  /\ WorkerState(w)' = IF w \in sigchld THEN "wait" ELSE WorkerState(w)
                         /\ NextGen(w)' = NextGen(w)
      OBVIOUS
    <3>1. CASE w \in sigchld
      <4>1. pc'[w] = "check" /\ pc[w] = "reaped"
        BY <1>0, <2>1, <3>1 DEF FutexInv, Settled
      <4>. QED  BY <1>0, <3>1, <4>1 DEF WorkerState, NextGen, Notifying, WaitPc
    <3>2. CASE w \notin sigchld
      <4>1. Unseen(w)
        BY <1>0, <2>1, <3>2 DEF Unseen
      <4>. QED  BY <3>2, <4>1, UnseenWorker
    <3>. QED  BY <3>1, <3>2
  <2>4. /\ val'["remaining_workers"] = val["remaining_workers"] + Cardinality(sigchld)
        /\ val'["generation"] = val["generation"]
    BY <1>0, <2>1 DEF Vars
  <2>5. A!Restart
    BY <1>1, <2>1, <2>2, <2>3, <2>4, SameCardinality DEF A!Restart
  <2>. QED  BY <2>5 DEF A!Next, A!MainStep
<1>3. CASE Arm
  <2>1. /\ pc' = [pc EXCEPT ![Main] = "store"] /\ sigchld = {} /\ gen[Main] <= LastGen
        /\ val' = [val EXCEPT !["remaining_workers"] = NWorkers]
    BY <1>3 DEF Arm
  <2>2. MainState' = "armed" /\ NextGen(Main)' = NextGen(Main) /\ NextGen(Main) = gen[Main]
    BY <1>0, <2>1 DEF MainState, NextGen, Notifying, WaitPc
  <2>3. \A q \in Workers : Unseen(q)
    BY <1>0, <2>1 DEF Unseen
  <2>4. val'["remaining_workers"] = NWorkers /\ val'["generation"] = val["generation"]
    BY <1>0, <2>1 DEF Vars
  <2>5. Cardinality(Workers) = NWorkers
    BY FS_Interval, WaitNotifyAssumption DEF Workers
  <2>6. A!Arm
    BY <1>1, <2>1, <2>2, <2>3, <2>4, <2>5, OnlyMain, SameCardinality DEF A!Arm
  <2>. QED  BY <2>6 DEF A!Next, A!MainStep
<1>4. CASE Finish
  <2>1. pc' = [pc EXCEPT ![Main] = "done"] /\ sigchld = {} /\ gen[Main] > LastGen /\ val' = val
    BY <1>4 DEF Finish
  <2>2. MainState' = "done" /\ NextGen(Main)' = NextGen(Main) /\ NextGen(Main) = gen[Main]
    BY <1>0, <2>1 DEF MainState, NextGen, Notifying, WaitPc
  <2>3. \A q \in Workers : Unseen(q)
    BY <1>0, <2>1 DEF Unseen
  <2>4. A!Finish
    BY <1>1, <2>1, <2>2, <2>3, OnlyMain DEF A!Finish
  <2>. QED  BY <2>4 DEF A!Next, A!MainStep
<1>. QED  BY <1>2, <1>3, <1>4

LEMMA WorkAwaits ==
  ASSUME FutexInv, NEW w \in Workers, Work(w)
  PROVE  [A!Next]_A!vars
<1>0. pc \in [Procs -> Pc] /\ pc[w] = "work" /\ val' = val /\ gen' = gen /\ w \in Procs
  BY DEF FutexInv, TypeOK, Work, Procs
<1>1. \A q \in Procs \ {w} : Unseen(q)
  BY <1>0 DEF Work, Unseen
<1>2. WorkerState(w) = "work" /\ NextGen(w)' = NextGen(w)
  BY <1>0 DEF Work, WorkerState, NextGen, Notifying, WaitPc
<1>3. CASE pc' = [pc EXCEPT ![w] = "store"]
  <2>1. WorkerState(w)' = "work"
    BY <1>0, <1>3 DEF WorkerState, Notifying, WaitPc
  <2>2. UNCHANGED A!vars
    BY <1>0, <1>1, <1>2, <2>1, OnlyWorker DEF A!vars
  <2>. QED  BY <2>2
<1>4. CASE pc' = [pc EXCEPT ![w] = "crashed"]
  <2>1. WorkerState(w)' = "crashed"
    BY <1>0, <1>4 DEF WorkerState, Notifying, WaitPc
  <2>2. A!Crash(w)
    BY <1>0, <1>1, <1>2, <2>1, OnlyWorker DEF A!Crash
  <2>. QED  BY <2>2 DEF A!Next
<1>. QED  BY <1>3, <1>4 DEF Work

\* The handler's decrement is seen, main's return to the futex is not.
LEMMA HandlerAwaits ==
  ASSUME FutexInv, NEW w \in Workers, SigchldHandler(w)
  PROVE  A!Next
<1>0. /\ pc \in [Procs -> Pc] /\ val \in [Vars -> Int] /\ pc[w] = "crashed" /\ gen' = gen
      /\ w \in Procs /\ Main \in Procs /\ w # Main
  BY WaitNotifyAssumption DEF FutexInv, TypeOK, SigchldHandler, Procs, Main, Workers
<1>1. pc'[w] = "reaped" /\ \A q \in Procs \ {w} : Unseen(q)
  <2>1. pc' = [pc EXCEPT ![w] = "reaped", ![Main] = IF @ = "asleep" THEN "futex" ELSE @]
    BY DEF SigchldHandler
  <2>. QED  BY <1>0, <2>1 DEF Unseen, WaitPc
<1>2. /\ WorkerState(w) = "crashed" /\ WorkerState(w)' = "reaped"
      /\ NextGen(w)' = NextGen(w)
  BY <1>0, <1>1 DEF WorkerState, NextGen, Notifying, WaitPc
<1>3. /\ val'["remaining_workers"] = val["remaining_workers"] - 1
      /\ val'["generation"] = val["generation"]
  BY <1>0 DEF SigchldHandler, Vars
<1>4. A!Reap(w)
  BY <1>1, <1>2, <1>3, OnlyWorker DEF A!Reap
<1>. QED  BY <1>4 DEF A!Next

LEMMA InitAwait == Init => A!Init
<1>. SUFFICES ASSUME Init PROVE A!Init
  OBVIOUS
<1>1. \A p \in Procs : pc[p] = "check" /\ gen[p] = 1
  BY DEF Init
<1>2. Main \in Procs /\ Workers \subseteq Procs
  BY DEF Procs
<1>3. MainState = "wait" /\ NextGen(Main) = 1
  BY <1>1, <1>2 DEF MainState, NextGen, Notifying, WaitPc
<1>4. \A w \in Workers : WorkerState(w) = "wait" /\ NextGen(w) = 1
  BY <1>1, <1>2 DEF WorkerState, NextGen, Notifying, WaitPc
<1>5. val["generation"] = 0 /\ val["remaining_workers"] = 0
  BY DEF Init, Vars
<1>. QED  BY <1>3, <1>4, <1>5 DEF A!Init

\* Seen by their callers the wait and notify functions are awaits and stores, in
\* whatever order the machine does loads and stores: the safety part of
\* ImplementsAwait.
THEOREM FutexIsAwait == Spec => StepsOfAwait
<1>1. ASSUME FutexInv, [Next]_vars PROVE [A!Next]_A!vars
  <2>1. ASSUME NEW p \in Procs, WaitFor(p) PROVE [A!Next]_A!vars
    BY <1>1, <2>1, CheckAwaits, WaitUnseen DEF WaitFor
  <2>2. ASSUME NEW p \in Procs, Notify(p) PROVE [A!Next]_A!vars
    BY <1>1, <2>2, StoreAwaits, NotifyUnseen DEF Notify
  <2>3. CASE UNCHANGED vars
    <3>1. \A q \in Procs : Unseen(q)
      BY <2>3 DEF vars, Unseen
    <3>. QED  BY <2>3, <3>1, UnseenStep DEF vars
  <2>4. Main \in Procs /\ Workers \subseteq Procs
    BY DEF Procs
  <2>. QED  BY <1>1, <2>1, <2>2, <2>3, <2>4, MainAwaits, WorkAwaits, HandlerAwaits
            DEF Next, MainStep, Worker, Terminated
<1>. QED  BY <1>1, FutexInvariant, InitAwait, PTL DEF Spec, StepsOfAwait
=============================================================================
