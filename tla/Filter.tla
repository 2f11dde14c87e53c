------------------------------- MODULE Filter -------------------------------
(***************************************************************************)
(* The filter of mishegos: the options -s <min>[:<max>] and -n, and the    *)
(* loop of process() that decides whether a cohort is written.             *)
(*                                                                         *)
(* An option text is the numbers strtol finds in it, a number is Empty     *)
(* where it finds none.  Of an output slot only success and the decoded    *)
(* length count; Mishegos reports every cohort instead.                    *)
(***************************************************************************)
EXTENDS Integers, FiniteSets

CONSTANTS
  NWorkers,  \* workers started
  MaxNWorkers, \* MISHEGOS_MAX_NWORKERS
  Numbers,   \* bound: numbers given to -s
  Lengths,   \* bound: decoded lengths
  Empty      \* no number

ASSUME FilterAssumption ==
  /\ MaxNWorkers \in Nat /\ NWorkers \in 0 .. MaxNWorkers
  /\ Numbers \subseteq Int /\ Lengths \subseteq Nat /\ Empty \notin Int

Workers == 0 .. NWorkers - 1
Texts   == [min : Numbers \cup {Empty}, colon : BOOLEAN, max : Numbers \cup {Empty}, junk : BOOLEAN]
NoOption == [min |-> 1, colon |-> FALSE, max |-> Empty, junk |-> FALSE]
Outputs == [success : BOOLEAN, ndecoded : Lengths]

VARIABLES
  option, given,        \* text of -s and whether it was given
  filter_min_success, filter_max_success, filter_ndecoded_same,
  outputs,              \* the output slots of the cohort
  pc, j, num_success, last_ndecoded, ndecoded_same, \* process()
  kept

vars == <<option, given, filter_min_success, filter_max_success, filter_ndecoded_same,
          outputs, pc, j, num_success, last_ndecoded, ndecoded_same, kept>>

TypeOK ==
  /\ option \in Texts \cup {NoOption} /\ given \in BOOLEAN
  /\ filter_min_success \in Int /\ filter_max_success \in Int
  /\ filter_ndecoded_same \in BOOLEAN
  /\ outputs \in [Workers -> Outputs]
  /\ pc \in {"options", "normalise", "count", "done", "refused"}
  /\ j \in 0 .. NWorkers /\ num_success \in Nat
  /\ last_ndecoded \in Lengths \cup {-1} /\ ndecoded_same \in BOOLEAN
  /\ kept \in BOOLEAN

Init ==
  /\ \/ given = TRUE /\ option \in {o \in Texts : o.colon \/ o.max = Empty}
     \/ given = FALSE /\ option = NoOption
  /\ filter_min_success = 1 /\ filter_max_success = MaxNWorkers
  /\ filter_ndecoded_same \in BOOLEAN
  /\ outputs \in [Workers -> Outputs]
  /\ pc = "options"
  /\ j = 0 /\ num_success = 0 /\ last_ndecoded = -1 /\ ndecoded_same = TRUE
  /\ kept = FALSE

\* strtol
Number(t) == IF t = Empty THEN 0 ELSE t

ParseOption ==
  /\ pc = "options"
  /\ IF given
     THEN /\ filter_min_success' = Number(option.min)
          /\ filter_max_success' = IF option.colon THEN Number(option.max) ELSE filter_max_success
          /\ pc' = IF option.junk THEN "refused" ELSE "normalise"
     ELSE pc' = "normalise" /\ UNCHANGED <<filter_min_success, filter_max_success>>
  /\ UNCHANGED <<option, given, filter_ndecoded_same, outputs, j, num_success,
                 last_ndecoded, ndecoded_same, kept>>

\* Mutant: before workers are counted, all of them are as many as there may be.
FromEnd_Early(n) == IF n < 0 THEN n + MaxNWorkers + 1 ELSE n

\* Negative numbers count from the number of workers, -1 is all of them.
FromEnd(n) == IF n < 0 THEN n + NWorkers + 1 ELSE n

Normalise ==
  /\ pc = "normalise"
  /\ filter_min_success' = FromEnd(filter_min_success)
  /\ filter_max_success' = FromEnd(filter_max_success)
  /\ pc' = "count"
  /\ UNCHANGED <<option, given, filter_ndecoded_same, outputs, j, num_success,
                 last_ndecoded, ndecoded_same, kept>>

\* Mutant: the last worker decides whether the lengths are the same.
StillSame_Last(n) == last_ndecoded \in {-1, n}

\* Whether the lengths are still the same after one more success.
StillSame(n) == ndecoded_same /\ last_ndecoded \in {-1, n}

CountOutput ==
  LET o == outputs[j] IN
  /\ pc = "count" /\ j < NWorkers
  /\ IF o.success
     THEN /\ num_success' = num_success + 1
          /\ last_ndecoded' = IF last_ndecoded = -1 THEN o.ndecoded ELSE last_ndecoded
          /\ ndecoded_same' = StillSame(o.ndecoded)
     ELSE UNCHANGED <<num_success, last_ndecoded, ndecoded_same>>
  /\ j' = j + 1
  /\ UNCHANGED <<option, given, filter_min_success, filter_max_success,
                 filter_ndecoded_same, outputs, pc, kept>>

Decide ==
  /\ pc = "count" /\ j = NWorkers
  /\ kept' = \/ num_success >= filter_min_success /\ num_success <= filter_max_success
             \/ filter_ndecoded_same /\ ~ndecoded_same
  /\ pc' = "done"
  /\ UNCHANGED <<option, given, filter_min_success, filter_max_success, filter_ndecoded_same,
                 outputs, j, num_success, last_ndecoded, ndecoded_same>>

Terminated == pc \in {"done", "refused"} /\ UNCHANGED vars

Next == ParseOption \/ Normalise \/ CountOutput \/ Decide \/ Terminated

Spec == Init /\ [][Next]_vars

-----------------------------------------------------------------------------

Successes == {w \in Workers : outputs[w].success}

LengthsDiffer == \E v, w \in Successes : outputs[v].ndecoded # outputs[w].ndecoded

\* What process() keeps, read off the outputs as a whole: the number of
\* successes is in the range, or -n was given and two successful decoders
\* disagree about the length (whatever the order of the workers).
KeepsExactly ==
  pc = "done" =>
    (kept <=> \/ Cardinality(Successes) \in filter_min_success .. filter_max_success
              \/ filter_ndecoded_same /\ LengthsDiffer)

\* -s min or -s min:max was given with these numbers.
Given(min, max) ==
  /\ pc = "done" /\ given
  /\ option.min = min
  /\ IF max = Empty THEN ~option.colon ELSE option.colon /\ option.max = max

\* The options the usage text explains (lines 366-370): the default is 1:-1, 0 is
\* all, 1 is at least one success, 1:-2 leaves out unanimous successes, 1:0 is for
\* use with -n.  A lone -1 keeps unanimous successes, where the text, and the comment in
\* line 350, say nworkers - 1.
OptionsMean ==
  LET n == Cardinality(Successes) IN
  /\ Given(0, Empty) => kept
  /\ ~filter_ndecoded_same =>
       /\ (pc = "done" /\ ~given) \/ Given(1, Empty) \/ Given(1, -1) => (kept <=> n >= 1)
       /\ Given(1, -2) => (kept <=> n >= 1 /\ n <= NWorkers - 1)
       /\ Given(-1, Empty) => (kept <=> n = NWorkers)
  /\ Given(1, 0) => (kept <=> filter_ndecoded_same /\ LengthsDiffer)

-----------------------------------------------------------------------------

(***************************************************************************)
(* The inductive invariant behind KeepsExactly and OptionsMean (proved in   *)
(* FilterProofs)                                                           *)
(***************************************************************************)

Counted == {w \in Workers : w < j /\ outputs[w].success}

\* The counters of process() summarise the outputs it has looked at.
LengthsSoFar ==
  IF Counted = {}
  THEN last_ndecoded = -1 /\ ndecoded_same
  ELSE /\ \E w \in Counted : outputs[w].ndecoded = last_ndecoded
       /\ ndecoded_same <=> \A w \in Counted : outputs[w].ndecoded = last_ndecoded

\* The numbers -s asks for, or the defaults.
AskedMin == IF given THEN Number(option.min) ELSE 1
AskedMax == IF given /\ option.colon THEN Number(option.max) ELSE MaxNWorkers

\* How far they are taken over.
BoundsSoFar ==
  /\ pc = "options" => filter_min_success = 1 /\ filter_max_success = MaxNWorkers
  /\ pc = "normalise" => filter_min_success = AskedMin /\ filter_max_success = AskedMax
  /\ pc \in {"count", "done"} =>
       filter_min_success = FromEnd(AskedMin) /\ filter_max_success = FromEnd(AskedMax)

FilterInv ==
  /\ TypeOK
  /\ num_success = Cardinality(Counted)
  /\ LengthsSoFar
  /\ pc = "done" => j = NWorkers
  /\ BoundsSoFar
  /\ KeepsExactly
=============================================================================
