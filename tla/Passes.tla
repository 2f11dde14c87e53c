------------------------------- MODULE Passes -------------------------------
(***************************************************************************)
(* The analysis passes (src/analysis/pass) and the profiles of passes.yml, *)
(* as operators on one line of mish2jsonl: its input and the outputs of    *)
(* the decoders.  A text is a sequence of bytes.                           *)
(***************************************************************************)
EXTENDS Integers, Sequences, FiniteSets, SequencesExt

\* The elements of s at the places in K, in their order.  (A set of places, and
\* not a predicate as for SelectSeq, of which the provers know nothing.)
Subsequence(s, K) ==
  LET upto[n \in 0 .. Len(s)] ==
        IF n = 0 THEN <<>> ELSE IF n \in K THEN Append(upto[n - 1], s[n]) ELSE upto[n - 1]
  IN  upto[Len(s)]

S_SUCCESS == 1
S_FAILURE == 2

Success(o) == o.status = S_SUCCESS
Failure(o) == o.status = S_FAILURE

Outputs(c)   == {c.outputs[w] : w \in DOMAIN c.outputs}
NDecoded(c)  == {o.ndecoded : o \in Outputs(c)}
Successes(c) == {w \in DOMAIN c.outputs : Success(c.outputs[w])}

SuccessSizes(c) == {c.outputs[w].ndecoded : w \in Successes(c)}

\* find: the first output of a decoder.
Has(c, so)     == \E w \in DOMAIN c.outputs : c.outputs[w].so = so
OutputOf(c, so) == c.outputs[CHOOSE w \in DOMAIN c.outputs :
                     c.outputs[w].so = so /\ \A v \in 1 .. w - 1 : c.outputs[v].so # so]

\* File names, and the texts two passes look for.
Bddisasm == <<98>>
Capstone == <<99>>
Xed      == <<120>>
Zydis    == <<122>>
Iced     == <<105>>
Ghidra   == <<103>>
Bfd      == <<102>>
LOCK     == <<76>>
SALC     == <<83>>

\* The others whose status is not that of so, or that are not there.
Odd(c, so, others) ==
  {k \in DOMAIN others :
     ~Has(c, others[k]) \/ OutputOf(c, others[k]).status # OutputOf(c, so).status}

Disagree(c, so, others) == Odd(c, so, others) # {}

\* The longest decode.
MaxNDecoded(c) == Max(NDecoded(c))

-----------------------------------------------------------------------------
(***************************************************************************)
(* Which lines the passes let through                                      *)
(***************************************************************************)

FilterAllFailure(c) == \E o \in Outputs(c) : ~Failure(o)
FilterAllSuccess(c) == \E o \in Outputs(c) : ~Success(o)
FilterAnyFailure(c) == \A o \in Outputs(c) : ~Failure(o)

FilterNDecodedSame(c)      == Cardinality(NDecoded(c)) # 1
FilterNDecodedDifferent(c) == Cardinality(NDecoded(c)) <= 1

FilterIncomparable(c)    == Cardinality(Successes(c)) >= 2
FindSizeDiscrepancies(c) == Cardinality(SuccessSizes(c)) # 1

FilterBddisasmSalc(c) == OutputOf(c, Bddisasm).result # SALC
FilterGhidraLock(c)   == OutputOf(c, Ghidra).result # LOCK

FilterDestroyBddisasm(c) == Disagree(c, Bddisasm, <<Xed, Zydis>>)
FilterDestroyCapstone(c) == Disagree(c, Capstone, <<Xed, Zydis>>)
FilterDestroyGhidra(c)   == Disagree(c, Ghidra, <<Xed, Zydis, Iced>>)

\* More than half of the decoders succeed, or do not.
SuccessByConsensus(c, sos) ==
  2 * Cardinality({so \in sos : Success(OutputOf(c, so))}) > Cardinality(sos)
FailureByConsensus(c, sos) ==
  2 * Cardinality({so \in sos : ~Success(OutputOf(c, so))}) > Cardinality(sos)

FilterXedFindOveraccept(c) ==
  Success(OutputOf(c, Xed)) /\ FailureByConsensus(c, {Bddisasm, Zydis, Iced})
FilterXedFindUnderaccept(c) ==
  ~Success(OutputOf(c, Xed)) /\ SuccessByConsensus(c, {Bddisasm, Zydis, Iced})

\* seen are the inputs of earlier lines.
Dedupe(c, seen) == c.input \notin seen

\* "If the maximum ndecoded is 0, then all are 0 and we should skip".
MinimizeInput(c) == MaxNDecoded(c) # 0

Keeps(pass, c, seen) ==
  CASE pass = "filter-all-failure"          -> FilterAllFailure(c)
    [] pass = "filter-all-success"          -> FilterAllSuccess(c)
    [] pass = "filter-any-failure"          -> FilterAnyFailure(c)
    [] pass = "filter-ndecoded-same"        -> FilterNDecodedSame(c)
    [] pass = "filter-ndecoded-different"   -> FilterNDecodedDifferent(c)
    [] pass = "filter-incomparable"         -> FilterIncomparable(c)
    [] pass = "find-size-discrepancies"     -> FindSizeDiscrepancies(c)
    [] pass = "filter-bddisasm-salc"        -> FilterBddisasmSalc(c)
    [] pass = "filter-ghidra-lock"          -> FilterGhidraLock(c)
    [] pass = "filter-destroy-bddisasm"     -> FilterDestroyBddisasm(c)
    [] pass = "filter-destroy-capstone"     -> FilterDestroyCapstone(c)
    [] pass = "filter-destroy-ghidra"       -> FilterDestroyGhidra(c)
    [] pass = "filter-xed-find-overaccept"  -> FilterXedFindOveraccept(c)
    [] pass = "filter-xed-find-underaccept" -> FilterXedFindUnderaccept(c)
    [] pass = "dedupe"                      -> Dedupe(c, seen)
    [] pass = "minimize-input"              -> MinimizeInput(c)
    [] pass = "normalize"                   -> TRUE

\* A pass looks at an output that is not there, which ends it with an error.
\* The comparisons stop at the first of the others that differs.
Misses(c, so, others) ==
  Has(c, so) => Disagree(c, so, others) /\ ~Has(c, others[Min(Odd(c, so, others))])

MissesOthers(c) == \E so \in {Bddisasm, Zydis, Iced} : ~Has(c, so)

Raises(pass, c) ==
  CASE pass = "filter-bddisasm-salc"        -> ~Has(c, Bddisasm)
    [] pass = "filter-ghidra-lock"          -> ~Has(c, Ghidra)
    [] pass = "filter-destroy-bddisasm"     -> Misses(c, Bddisasm, <<Xed, Zydis>>)
    [] pass = "filter-destroy-capstone"     -> Misses(c, Capstone, <<Xed, Zydis>>)
    [] pass = "filter-destroy-ghidra"       -> Misses(c, Ghidra, <<Xed, Zydis, Iced>>)
    [] pass = "filter-xed-find-overaccept"  ->
         Has(c, Xed) => Success(OutputOf(c, Xed)) /\ MissesOthers(c)
    [] pass = "filter-xed-find-underaccept" ->
         Has(c, Xed) => ~Success(OutputOf(c, Xed)) /\ MissesOthers(c)
    [] OTHER -> FALSE

-----------------------------------------------------------------------------
(***************************************************************************)
(* What the passes change                                                  *)
(***************************************************************************)

Space   == 32
Newline == 10

\* What split takes for blanks, within a line.
Blanks  == {9, 11, 12, 13, Space}

\* A blank is kept, as one space, between two words of a line.
BlankKept(s, k) ==
  /\ k < Len(s) /\ s[k + 1] \notin Blanks \cup {Newline}
  /\ \E l \in 1 .. k - 1 : s[l] \notin Blanks \cup {Newline} /\ \A m \in l .. k : s[m] # Newline

\* A newline is kept unless it is the last byte.
Kept(s, k) ==
  CASE s[k] \in Blanks -> BlankKept(s, k)
    [] s[k] = Newline  -> k < Len(s)
    [] OTHER           -> TRUE

\* Each line's words, one space apart.
Normalized(s) ==
  Subsequence([k \in DOMAIN s |-> IF s[k] \in Blanks THEN Space ELSE s[k]],
              {k \in DOMAIN s : Kept(s, k)})

\* normalize: the texts and, with them, their lengths.
Normalize(c) ==
  [c EXCEPT !.outputs = [w \in DOMAIN @ |->
    LET text == Normalized(@[w].result)
    IN  [@[w] EXCEPT !.result = text, !.len = Len(text)]]]

\* minimize-input: the input, two digits a byte, cut to what the longest decode used.
Minimize(c) ==
  [c EXCEPT !.input = SubSeq(@, 1, Min({Len(@), 2 * MaxNDecoded(c)}))]

Emits(pass, c) ==
  CASE pass = "minimize-input" -> Minimize(c)
    [] pass = "normalize"      -> Normalize(c)
    [] OTHER                   -> c

-----------------------------------------------------------------------------

\* The keys of passes.yml, and the lists under them.
ProfileNames ==
  {"default", "dedupe", "same-size-different-decodings", "size-discrepancies",
   "status-discrepancies", "destroy-capstone", "destroy-bddisasm", "destroy-ghidra",
   "xed-overaccept", "xed-underaccept"}

Profile(name) ==
  CASE name = "default" ->
         <<"filter-all-failure", "filter-ndecoded-same", "dedupe", "minimize-input", "normalize">>
    [] name = "dedupe" -> <<"dedupe">>
    [] name = "same-size-different-decodings" ->
         <<"filter-any-failure", "filter-ndecoded-different", "filter-same-effects",
           "minimize-input", "normalize">>
    [] name = "size-discrepancies" ->
         <<"filter-all-failure", "filter-ndecoded-same", "filter-incomparable", "dedupe",
           "find-size-discrepancies", "minimize-input", "normalize">>
    [] name = "status-discrepancies" ->
         <<"filter-all-failure", "filter-all-success", "dedupe", "minimize-input", "normalize">>
    [] name = "destroy-capstone" ->
         <<"filter-all-success", "filter-ndecoded-same", "dedupe", "filter-destroy-capstone",
           "minimize-input", "normalize">>
    [] name = "destroy-bddisasm" ->
         <<"filter-all-success", "filter-ndecoded-same", "dedupe", "filter-destroy-bddisasm",
           "minimize-input", "normalize">>
    [] name = "destroy-ghidra" ->
         <<"filter-all-success", "filter-ndecoded-same", "dedupe", "normalize",
           "filter-ghidra-lock", "filter-destroy-ghidra", "minimize-input">>
    [] name = "xed-overaccept" ->
         <<"filter-all-success", "filter-ndecoded-same", "dedupe", "filter-xed-find-overaccept",
           "minimize-input", "normalize">>
    [] name = "xed-underaccept" ->
         <<"filter-all-success", "filter-ndecoded-same", "dedupe", "filter-bddisasm-salc",
           "filter-xed-find-underaccept", "minimize-input", "normalize">>

\* Mutant: one more pass of a profile does not exist.
Installed_Fewer ==
  {"dedupe", "filter-all-failure", "filter-all-success", "filter-bddisasm-salc",
   "filter-destroy-bddisasm", "filter-destroy-capstone", "filter-destroy-ghidra",
   "filter-ghidra-lock", "filter-incomparable", "filter-ndecoded-different",
   "filter-ndecoded-same", "filter-xed-find-overaccept", "filter-xed-find-underaccept",
   "find-size-discrepancies", "minimize-input", "normalize"}

\* The directories in src/analysis/pass.
Installed ==
  {"dedupe", "filter-all-failure", "filter-all-success", "filter-any-failure",
   "filter-bddisasm-salc", "filter-destroy-bddisasm", "filter-destroy-capstone",
   "filter-destroy-ghidra", "filter-ghidra-lock", "filter-incomparable",
   "filter-ndecoded-different", "filter-ndecoded-same", "filter-xed-find-overaccept",
   "filter-xed-find-underaccept", "find-size-discrepancies", "minimize-input", "normalize"}

\* Mutant: the passes run in the order of their directories.
Chain_ByName(name) ==
  SelectSeq(<<"dedupe", "filter-all-failure", "filter-all-success", "filter-any-failure",
              "filter-bddisasm-salc", "filter-destroy-bddisasm", "filter-destroy-capstone",
              "filter-destroy-ghidra", "filter-ghidra-lock", "filter-incomparable",
              "filter-ndecoded-different", "filter-ndecoded-same", "filter-xed-find-overaccept",
              "filter-xed-find-underaccept", "find-size-discrepancies", "minimize-input",
              "normalize">>,
            LAMBDA p : \E k \in DOMAIN Profile(name) : Profile(name)[k] = p)

\* select! and sort_by!: the passes of the profile that exist, in its order.
Chain(name) ==
  Subsequence(Profile(name), {k \in DOMAIN Profile(name) : Profile(name)[k] \in Installed})
=============================================================================
