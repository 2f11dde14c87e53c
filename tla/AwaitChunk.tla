----------------------------- MODULE AwaitChunk -----------------------------
(***************************************************************************)
(* One chunk handed back and forth between main and the workers, with      *)
(* every mish_atomic_wait_for an await: what Mishegos assumes of the wait  *)
(* and notify functions, and WaitNotify implements.                        *)
(***************************************************************************)
EXTENDS Integers, FiniteSets

CONSTANTS Workers, LastGen

VARIABLES
  generation, remaining,  \* the two counters of the chunk
  mstate, mgen,           \* main, and the generation it publishes next
  wstate, wgen            \* the workers, and the generation each waits for

vars == <<generation, remaining, mstate, mgen, wstate, wgen>>

Init ==
  /\ generation = 0 /\ remaining = 0
  /\ mstate = "wait" /\ mgen = 1
  /\ wstate = [w \in Workers |-> "wait"] /\ wgen = [w \in Workers |-> 1]

Reaped == {w \in Workers : wstate[w] = "reaped"}

Collect ==
  /\ mstate = "wait" /\ remaining = 0
  /\ mstate' = "woken"
  /\ UNCHANGED <<generation, remaining, mgen, wstate, wgen>>

Restart ==
  /\ mstate = "woken" /\ Reaped # {}
  /\ remaining' = remaining + Cardinality(Reaped)
  /\ wstate' = [w \in Workers |-> IF w \in Reaped THEN "wait" ELSE wstate[w]]
  /\ mstate' = "wait"
  /\ UNCHANGED <<generation, mgen, wgen>>

Arm ==
  /\ mstate = "woken" /\ Reaped = {} /\ mgen <= LastGen
  /\ remaining' = Cardinality(Workers)
  /\ mstate' = "armed"
  /\ UNCHANGED <<generation, mgen, wstate, wgen>>

Publish ==
  /\ mstate = "armed"
  /\ generation' = mgen
  /\ mgen' = mgen + 1
  /\ mstate' = "wait"
  /\ UNCHANGED <<remaining, wstate, wgen>>

Finish ==
  /\ mstate = "woken" /\ Reaped = {} /\ mgen > LastGen
  /\ mstate' = "done"
  /\ UNCHANGED <<generation, remaining, mgen, wstate, wgen>>

Take(w) ==
  /\ wstate[w] = "wait" /\ generation = wgen[w]
  /\ wstate' = [wstate EXCEPT ![w] = "work"]
  /\ UNCHANGED <<generation, remaining, mstate, mgen, wgen>>

Give(w) ==
  /\ wstate[w] = "work"
  /\ remaining' = remaining - 1
  /\ wstate' = [wstate EXCEPT ![w] = IF wgen[w] = LastGen THEN "exited" ELSE "wait"]
  /\ wgen' = [wgen EXCEPT ![w] = @ + 1]
  /\ UNCHANGED <<generation, mstate, mgen>>

Crash(w) ==
  /\ wstate[w] = "work"
  /\ wstate' = [wstate EXCEPT ![w] = "crashed"]
  /\ UNCHANGED <<generation, remaining, mstate, mgen, wgen>>

Reap(w) ==
  /\ wstate[w] = "crashed"
  /\ remaining' = remaining - 1
  /\ wstate' = [wstate EXCEPT ![w] = "reaped"]
  /\ UNCHANGED <<generation, mstate, mgen, wgen>>

MainStep == Collect \/ Restart \/ Arm \/ Publish \/ Finish

Next == MainStep \/ \E w \in Workers : Take(w) \/ Give(w) \/ Crash(w) \/ Reap(w)

Fairness ==
  /\ WF_vars(MainStep)
  /\ \A w \in Workers : WF_vars(Take(w) \/ Give(w) \/ Crash(w)) /\ WF_vars(Reap(w))

Spec == Init /\ [][Next]_vars /\ Fairness
=============================================================================
