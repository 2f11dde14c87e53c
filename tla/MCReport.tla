------------------------------ MODULE MCReport ------------------------------
(***************************************************************************)
(* Instance of Report for TLC.  Most cohorts are such as the fuzzer keeps  *)
(* unless told otherwise: at least one decoder succeeds.  Doubled, Moody   *)
(* and Lacking have others too.                                            *)
(***************************************************************************)
EXTENDS Report

Decoded(n, text) == [status |-> 1, ndecoded |-> n, result |-> text]
Bad(n, text)     == [status |-> 2, ndecoded |-> n, result |-> text]  \* bfd's way to fail
Failed           == [status |-> 2, ndecoded |-> 0, result |-> <<>>]
Crashed          == [status |-> 3, ndecoded |-> 0, result |-> <<>>]
Partial          == [status |-> 4, ndecoded |-> 0, result |-> <<>>]

\* Texts with blanks at either end, within and between lines; some are a lone
\* LOCK or SALC.
Spaced  == <<Space, 97, Space, Space, 98, Newline, Space, 99, Newline>>
Locked  == <<Space, LOCK[1]>>

\* A quote, a backslash, a tab, a newline and a character without a name.
Awkward == <<34, 92, 97, 9, 10, 31>>

CohortOf(input, sos, answers) ==
  [input |-> input, outputs |-> [w \in DOMAIN sos |-> [so |-> sos[w]] @@ answers[w]]]

SomebodySucceeds(answers) == \E w \in DOMAIN answers : answers[w].status = 1

Two == <<Xed, Bfd>>
Pairs ==
  {a \in {Decoded(1, Spaced), Decoded(2, Spaced), Failed, Crashed, Partial}
         \X {Decoded(1, Spaced), Decoded(2, Spaced), Bad(1, Locked), Crashed} : SomebodySucceeds(a)}

Long  == <<15, 0, 7>>
Short == <<1>>

\* One cohort, two, or one input twice.
TwoWorkers ==
  {<<CohortOf(Long, Two, a)>> : a \in Pairs} \cup
  {<<CohortOf(Long, Two, a), CohortOf(input, Two, IF input = Long THEN a ELSE <<Failed, Decoded(1, Locked)>>)>> :
     a \in Pairs, input \in {Long, Short}}

Three == <<Capstone, Xed, Zydis>>
ThreeWorkers ==
  {<<CohortOf(Long, Three, a)>> :
     a \in {b \in [1 .. 3 -> {Decoded(1, Spaced), Failed, Crashed}] : SomebodySucceeds(b)}}

Five == <<Bddisasm, Xed, Zydis, Iced, Ghidra>>
FiveWorkers ==
  {<<CohortOf(Long, Five, a)>> :
     a \in {b \in [1 .. 5 -> {Decoded(1, Locked), Decoded(2, SALC), Failed}] : SomebodySucceeds(b)}}

\* These may end anywhere.
Cut == {<<CohortOf(Long, Two, <<Decoded(2, Awkward), Crashed>>),
          CohortOf(Short, Two, <<Failed, Decoded(1, Locked)>>)>>}

\* A decoder twice, one that fails with bytes used, and an input that is
\* answered in two ways.
Doubled ==
  {<<CohortOf(Long, <<Xed, Xed>>, a)>> : a \in [1 .. 2 -> {Decoded(1, Spaced), Bad(1, Locked)}]}
Moody ==
  {<<CohortOf(Long, Two, a), CohortOf(Long, Two, b)>> :
     a, b \in [1 .. 2 -> {Decoded(1, Spaced), Decoded(2, Spaced), Failed, Crashed}]}

\* Zydis is missing: a pass that would look at it next ends.
Missing == <<Capstone, Xed>>
Lacking ==
  {<<CohortOf(Long, Missing, a), CohortOf(Short, Missing, b)>> :
     a, b \in [1 .. 2 -> {Decoded(1, Spaced), Failed, Crashed}]}

AllCampaigns == TwoWorkers \cup ThreeWorkers \cup FiveWorkers \cup Cut \cup Doubled \cup Moody \cup Lacking
=============================================================================
