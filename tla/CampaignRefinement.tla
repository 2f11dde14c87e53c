------------------------- MODULE CampaignRefinement -------------------------
(***************************************************************************)
(* The ring of chunks (Mishegos) implements a Campaign.                    *)
(***************************************************************************)
EXTENDS Mishegos

AtMost(a, b) == IF a < b THEN a ELSE b

\* Number of inputs worker w has judged.  One it crashed on counts from the
\* moment the handler has stored S_CRASH.
Judged(w) ==
  LET before == Preceding(wgen[w], widx[w]) IN
  CASE wpc[w] \in {"decode", "crashed"}        -> before + wi[w]
    [] wpc[w] \in {"check", "exited", "gone"}  -> AtMost(before + NSlots, supplied)
    [] OTHER                                   -> before + StartSlot(w, widx[w])

VerdictOn(w, n) == IF <<w, n>> \in crashed THEN "crash" ELSE "decoded"

\* What each worker made of the inputs it has judged.
VerdictsOf(w) == [n \in 1 .. Judged(w) |-> VerdictOn(w, n)]
Verdicts == [w \in Workers |-> VerdictsOf(w)]

\* The cohorts written, with the status of every output.
CohortAt(k) ==
  [input |-> out[k].input, outs |-> [w \in Workers |-> out[k].outs[w].status]]
Cohorts == [k \in 1 .. Len(out) |-> CohortAt(k)]

C == INSTANCE Campaign WITH
       Window <- NChunks * NSlots,  Total <- TotalInputs,
       drawn <- supplied,  verdicts <- Verdicts,  report <- Cohorts

\* The program promises a campaign: every step of the ring is a step of it or
\* changes nothing of it.
ImplementsCampaign == C!Spec
=============================================================================
