------------------------------ MODULE Campaign ------------------------------
(***************************************************************************)
(* What a fuzzing campaign of mishegos promises, without the ring: the     *)
(* inputs of the mutator are judged by every worker in order, each at its  *)
(* own pace, and reported in order once all workers have judged them; the  *)
(* mutator is never more than Window inputs ahead of the report.           *)
(***************************************************************************)
EXTENDS Integers, Sequences

CONSTANTS
  Workers,  \* the decoders that judge every input
  Window,   \* inputs that may be on their way
  Total     \* inputs the mutator has

VARIABLES
  drawn,    \* number of inputs taken from the mutator
  verdicts, \* per worker, its verdicts on the inputs 1, 2, ...
  report    \* the cohorts: an input and the verdict of every worker on it

vars == <<drawn, verdicts, report>>

Verdict == {"decoded", "crash"}

Init ==
  /\ drawn = 0
  /\ verdicts = [w \in Workers |-> <<>>]
  /\ report = <<>>

\* A batch of inputs at a time.
Draw ==
  /\ drawn' \in drawn + 1 .. Total
  /\ drawn' <= Len(report) + Window
  /\ UNCHANGED <<verdicts, report>>

\* Some workers finish their next input.
Judge ==
  /\ \E W \in (SUBSET {w \in Workers : Len(verdicts[w]) < drawn}) \ {{}} :
       \E v \in [W -> Verdict] :
         verdicts' = [w \in Workers |->
                       IF w \in W THEN Append(verdicts[w], v[w]) ELSE verdicts[w]]
  /\ UNCHANGED <<drawn, report>>

Report ==
  LET n == Len(report) + 1 IN
  /\ n <= drawn
  /\ \A w \in Workers : n <= Len(verdicts[w])
  /\ report' = Append(report, [input |-> n, outs |-> [w \in Workers |-> verdicts[w][n]]])
  /\ UNCHANGED <<drawn, verdicts>>

Next == Draw \/ Judge \/ Report

Spec == Init /\ [][Next]_vars
=============================================================================
