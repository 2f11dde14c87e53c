---------------------------- MODULE FilterProofs ----------------------------
(***************************************************************************)
(* Proofs about Filter, for every number of workers, every option and      *)
(* every outcome of the decoders.                                          *)
(***************************************************************************)
EXTENDS Filter, FiniteSetTheorems, TLAPS

\* Sets of workers are finite.
LEMMA WorkersFinite == \A S \in SUBSET Workers : IsFiniteSet(S) /\ Cardinality(S) \in Nat
<1>1. IsFiniteSet(Workers)
  BY FS_Interval, FilterAssumption DEF Workers
<1>. QED  BY <1>1, FS_Subset, FS_CardinalityType

\* FilterInv holds before the options are read.
LEMMA InitFilter == Init => FilterInv
<1>. SUFFICES ASSUME Init PROVE FilterInv
  OBVIOUS
<1>1. TypeOK
  <2>1. option \in Texts \cup {NoOption} /\ given \in BOOLEAN
    BY DEF Init
  <2>2. 0 \in 0 .. NWorkers /\ MaxNWorkers \in Int
    BY FilterAssumption
  <2>3. /\ filter_min_success \in Int /\ filter_max_success \in Int
        /\ num_success \in Nat /\ last_ndecoded \in Lengths \cup {-1} /\ j \in 0 .. NWorkers
    BY <2>2 DEF Init
  <2>4. /\ filter_ndecoded_same \in BOOLEAN /\ outputs \in [Workers -> Outputs]
        /\ pc \in {"options", "normalise", "count", "done", "refused"}
    BY DEF Init
  <2>5. ndecoded_same \in BOOLEAN /\ kept \in BOOLEAN
    BY DEF Init
  <2>. QED  BY <2>1, <2>3, <2>4, <2>5 DEF TypeOK
<1>2. Counted = {}
  BY FilterAssumption DEF Init, Counted, Workers
<1>3. num_success = Cardinality(Counted) /\ LengthsSoFar
  BY <1>2, FS_EmptySet DEF Init, LengthsSoFar
<1>4. pc # "done" /\ BoundsSoFar
  BY DEF Init, BoundsSoFar
<1>. QED  BY <1>1, <1>3, <1>4 DEF FilterInv, KeepsExactly

\* Reading the option.
LEMMA ParseStep == FilterInv /\ ParseOption => FilterInv'
<1>. SUFFICES ASSUME FilterInv, ParseOption PROVE FilterInv'
  OBVIOUS
<1>1. filter_min_success' \in Int /\ filter_max_success' \in Int
  <2>1. option.min \in Int \cup {Empty} /\ option.max \in Int \cup {Empty}
    <3>1. CASE option \in Texts
      BY <3>1, FilterAssumption DEF Texts
    <3>2. CASE option = NoOption
      BY <3>2 DEF NoOption
    <3>. QED  BY <3>1, <3>2 DEF FilterInv, TypeOK
  <2>2. \A t \in Int \cup {Empty} : Number(t) \in Int
    BY DEF Number
  <2>. QED  BY <2>1, <2>2 DEF ParseOption, FilterInv, TypeOK
<1>2. pc' \in {"refused", "normalise"}
  BY DEF ParseOption
<1>3. TypeOK'
  BY <1>1, <1>2 DEF ParseOption, FilterInv, TypeOK
<1>4. Counted' = Counted
  BY DEF ParseOption, Counted
<1>5. BoundsSoFar'
  BY DEF ParseOption, FilterInv, BoundsSoFar, AskedMin, AskedMax
<1>. QED  BY <1>2, <1>3, <1>4, <1>5 DEF ParseOption, FilterInv, LengthsSoFar, KeepsExactly

\* Counting from the end.
LEMMA NormaliseStep == FilterInv /\ Normalise => FilterInv'
<1>. SUFFICES ASSUME FilterInv, Normalise PROVE FilterInv'
  OBVIOUS
<1>1. \A n \in Int : FromEnd(n) \in Int
  BY FilterAssumption DEF FromEnd
<1>2. TypeOK' /\ pc' = "count"
  BY <1>1 DEF Normalise, FilterInv, TypeOK
<1>3. Counted' = Counted
  BY DEF Normalise, Counted
<1>4. BoundsSoFar'
  BY DEF Normalise, FilterInv, BoundsSoFar, AskedMin, AskedMax
<1>. QED  BY <1>2, <1>3, <1>4 DEF Normalise, FilterInv, LengthsSoFar, KeepsExactly

\* One more output.
LEMMA CountStep == FilterInv /\ CountOutput => FilterInv'
<1>. SUFFICES ASSUME FilterInv, CountOutput PROVE FilterInv'
  OBVIOUS
<1>1. /\ j \in Workers /\ j' = j + 1 /\ outputs' = outputs
      /\ pc = "count" /\ pc' = "count"
  BY FilterAssumption DEF CountOutput, FilterInv, TypeOK, Workers
<1>2. outputs[j].success \in BOOLEAN /\ outputs[j].ndecoded \in Lengths
  BY <1>1 DEF FilterInv, TypeOK, Outputs
<1>3. Counted' = IF outputs[j].success THEN Counted \cup {j} ELSE Counted
  BY <1>1 DEF Counted, Workers
<1>4. j \notin Counted
  BY <1>1 DEF Counted, Workers
<1>5. TypeOK'
  <2>1. j' \in 0 .. NWorkers
    BY <1>1, FilterAssumption DEF Workers
  <2>2. num_success' \in Nat /\ last_ndecoded' \in Lengths \cup {-1} /\ ndecoded_same' \in BOOLEAN
    <3>1. CASE outputs[j].success
      <4>1. num_success' = num_success + 1 /\ ndecoded_same' = StillSame(outputs[j].ndecoded)
        BY <3>1 DEF CountOutput
      <4>2. last_ndecoded' \in {last_ndecoded, outputs[j].ndecoded}
        BY <3>1 DEF CountOutput
      <4>3. StillSame(outputs[j].ndecoded) \in BOOLEAN
        BY DEF StillSame
      <4>. QED  BY <1>2, <4>1, <4>2, <4>3 DEF FilterInv, TypeOK
    <3>2. CASE ~outputs[j].success
      BY <3>2 DEF CountOutput, FilterInv, TypeOK
    <3>. QED  BY <1>2, <3>1, <3>2
  <2>. QED  BY <1>1, <2>1, <2>2 DEF CountOutput, FilterInv, TypeOK
<1>6. num_success' = Cardinality(Counted')
  <2>1. IsFiniteSet(Counted)
    BY WorkersFinite DEF Counted
  <2>2. Cardinality(Counted \cup {j}) = Cardinality(Counted) + 1
    BY <1>4, <2>1, FS_AddElement
  <2>. QED  BY <1>3, <2>2 DEF CountOutput, FilterInv
<1>7. LengthsSoFar'
  <2>1. CASE ~outputs[j].success
    BY <1>1, <1>3, <2>1 DEF CountOutput, FilterInv, LengthsSoFar
  <2>2. CASE outputs[j].success /\ Counted = {}
    <3>1. last_ndecoded = -1 /\ ndecoded_same
      BY <2>2 DEF FilterInv, LengthsSoFar
    <3>2. last_ndecoded' = outputs[j].ndecoded /\ ndecoded_same' = TRUE
      BY <2>2, <3>1 DEF CountOutput, StillSame
    <3>3. Counted' = {j}
      BY <1>3, <2>2
    <3>. QED  BY <1>1, <3>2, <3>3 DEF LengthsSoFar
  <2>3. CASE outputs[j].success /\ Counted # {}
    <3>1. PICK w \in Counted : outputs[w].ndecoded = last_ndecoded
      BY <2>3 DEF FilterInv, LengthsSoFar
    <3>2. last_ndecoded # -1
      BY <3>1, FilterAssumption DEF FilterInv, TypeOK, Outputs, Counted
    <3>3. /\ last_ndecoded' = last_ndecoded
          /\ ndecoded_same' = (ndecoded_same /\ outputs[j].ndecoded = last_ndecoded)
      BY <2>3, <3>2 DEF CountOutput, StillSame
    <3>4. ndecoded_same <=> \A v \in Counted : outputs[v].ndecoded = last_ndecoded
      BY <2>3 DEF FilterInv, LengthsSoFar
    <3>5. Counted' = Counted \cup {j} /\ w \in Counted'
      BY <1>3, <2>3
    <3>. QED  BY <1>1, <3>1, <3>3, <3>4, <3>5 DEF LengthsSoFar
  <2>. QED  BY <1>2, <2>1, <2>2, <2>3
<1>8. BoundsSoFar'
  BY DEF CountOutput, FilterInv, BoundsSoFar, AskedMin, AskedMax
<1>. QED  BY <1>1, <1>5, <1>6, <1>7, <1>8 DEF FilterInv, KeepsExactly

\* The verdict on the cohort.
LEMMA DecideStep == FilterInv /\ Decide => FilterInv'
<1>. SUFFICES ASSUME FilterInv, Decide PROVE FilterInv'
  OBVIOUS
<1>1. TypeOK'
  BY DEF Decide, FilterInv, TypeOK
<1>2. Counted' = Counted /\ Successes' = Successes /\ LengthsDiffer' = LengthsDiffer
  BY DEF Decide, Counted, Successes, LengthsDiffer
<1>3. Counted = Successes
  <2>1. j = NWorkers /\ NWorkers \in Nat
    BY FilterAssumption DEF Decide
  <2>2. \A w \in Workers : w < j
    BY <2>1 DEF Workers
  <2>. QED  BY <2>2 DEF Counted, Successes
<1>4. ~ndecoded_same <=> LengthsDiffer
  BY <1>3 DEF FilterInv, LengthsSoFar, LengthsDiffer
<1>5. num_success = Cardinality(Successes) /\ num_success \in Int
  BY <1>3 DEF FilterInv, TypeOK
<1>6. filter_min_success \in Int /\ filter_max_success \in Int
  BY DEF FilterInv, TypeOK
<1>7. KeepsExactly'
  BY <1>2, <1>4, <1>5, <1>6 DEF Decide, KeepsExactly
<1>8. BoundsSoFar'
  BY DEF Decide, FilterInv, BoundsSoFar, AskedMin, AskedMax
<1>. QED  BY <1>1, <1>2, <1>7, <1>8 DEF Decide, FilterInv, LengthsSoFar

\* FilterInv is inductive.
THEOREM FilterInvariant == Spec => []FilterInv
<1>1. FilterInv /\ [Next]_vars => FilterInv'
  <2>1. FilterInv /\ UNCHANGED vars => FilterInv'
    BY DEF vars, FilterInv, TypeOK, LengthsSoFar, Counted, KeepsExactly, Successes, LengthsDiffer,
       BoundsSoFar, AskedMin, AskedMax
  <2>. QED  BY <2>1, ParseStep, NormaliseStep, CountStep, DecideStep DEF Next, Terminated
<1>. QED  BY <1>1, InitFilter, PTL DEF Spec

\* A cohort is kept exactly if the number of successes is in the range or -n was
\* given and two decoders disagree, in whatever order the workers are listed.
THEOREM FilterCorrect == Spec => []KeepsExactly
<1>1. FilterInv => KeepsExactly
  BY DEF FilterInv
<1>. QED  BY <1>1, FilterInvariant, PTL

\* There are at most as many successes as workers.
LEMMA SuccessesBound == Cardinality(Successes) \in 0 .. NWorkers
<1>1. IsFiniteSet(Workers) /\ Cardinality(Workers) = NWorkers
  BY FS_Interval, FilterAssumption DEF Workers
<1>2. Cardinality(Successes) <= Cardinality(Workers)
  BY <1>1, FS_Subset DEF Successes
<1>3. Cardinality(Successes) \in Nat
  BY WorkersFinite DEF Successes
<1>. QED  BY <1>1, <1>2, <1>3, FilterAssumption

\* The bounds process() uses for what was given, the numbers being integers.
LEMMA BoundsGiven ==
  ASSUME FilterInv, NEW min \in Int, NEW max, Given(min, max)
  PROVE  /\ filter_min_success = FromEnd(min)
         /\ filter_max_success = IF max = Empty THEN FromEnd(MaxNWorkers) ELSE FromEnd(Number(max))
<1>1. Number(min) = min
  BY FilterAssumption DEF Number
<1>2. /\ filter_min_success = FromEnd(AskedMin) /\ filter_max_success = FromEnd(AskedMax)
      /\ given /\ option.min = min
      /\ IF max = Empty THEN ~option.colon ELSE option.colon /\ option.max = max
  BY DEF FilterInv, BoundsSoFar, Given
<1>3. AskedMin = min
  BY <1>1, <1>2 DEF AskedMin
<1>4. AskedMax = IF max = Empty THEN MaxNWorkers ELSE Number(max)
  BY <1>2 DEF AskedMax
<1>. QED  BY <1>2, <1>3, <1>4

\* The numbers of the usage text, counted from the end where they are negative.
LEMMA UsageNumbers ==
  /\ FromEnd(0) = 0 /\ FromEnd(1) = 1 /\ FromEnd(-1) = NWorkers /\ FromEnd(-2) = NWorkers - 1
  /\ FromEnd(MaxNWorkers) = MaxNWorkers
  /\ 0 # Empty /\ -1 # Empty /\ -2 # Empty
  /\ Number(0) = 0 /\ Number(-1) = -1 /\ Number(-2) = -2
BY FilterAssumption DEF FromEnd, Number

\* The options of the usage text mean what OptionsMean says, whatever the decoders answer.
THEOREM OptionsCorrect == Spec => []OptionsMean
<1>1. ASSUME FilterInv PROVE OptionsMean
  <2>. DEFINE n == Cardinality(Successes)
              Kept == \/ n \in filter_min_success .. filter_max_success
                      \/ filter_ndecoded_same /\ LengthsDiffer
  <2>1. n \in Int /\ 0 <= n /\ n <= NWorkers /\ NWorkers <= MaxNWorkers /\ MaxNWorkers \in Int
        /\ NWorkers \in Int
    BY SuccessesBound, FilterAssumption
  <2>2. pc = "done" => (kept <=> Kept)
    BY <1>1 DEF FilterInv, KeepsExactly
  <2>. HIDE DEF n
  <2>3. Given(0, Empty) => kept
    <3>. SUFFICES ASSUME Given(0, Empty) PROVE Kept
      BY <2>2 DEF Given
    <3>1. filter_min_success = 0 /\ filter_max_success = MaxNWorkers
      <4>1. /\ filter_min_success = FromEnd(0)
            /\ filter_max_success = IF Empty = Empty THEN FromEnd(MaxNWorkers)
                                                    ELSE FromEnd(Number(Empty))
        BY <1>1, BoundsGiven
      <4>. QED  BY <4>1, UsageNumbers
    <3>. QED  BY <2>1, <3>1
  <2>4. ~filter_ndecoded_same /\ pc = "done" /\ ~given => (kept <=> n >= 1)
    <3>. SUFFICES ASSUME ~filter_ndecoded_same, pc = "done", ~given PROVE Kept <=> n >= 1
      BY <2>2
    <3>1. filter_min_success = 1 /\ filter_max_success = MaxNWorkers
      BY <1>1, UsageNumbers DEF FilterInv, BoundsSoFar, AskedMin, AskedMax
    <3>. QED  BY <2>1, <3>1
  <2>5. ~filter_ndecoded_same /\ (Given(1, Empty) \/ Given(1, -1)) => (kept <=> n >= 1)
    <3>. SUFFICES ASSUME ~filter_ndecoded_same, Given(1, Empty) \/ Given(1, -1)
                  PROVE  Kept <=> n >= 1
      BY <2>2 DEF Given
    <3>1. filter_min_success = 1 /\ filter_max_success \in {MaxNWorkers, NWorkers}
      <4>1. CASE Given(1, Empty)
        <5>1. /\ filter_min_success = FromEnd(1)
              /\ filter_max_success = IF Empty = Empty THEN FromEnd(MaxNWorkers)
                                                      ELSE FromEnd(Number(Empty))
          BY <1>1, <4>1, BoundsGiven
        <5>. QED  BY <5>1, UsageNumbers
      <4>2. CASE Given(1, -1)
        BY <1>1, <4>2, BoundsGiven, UsageNumbers
      <4>. QED  BY <4>1, <4>2
    <3>. QED  BY <2>1, <3>1
  <2>6. ~filter_ndecoded_same /\ Given(1, -2) => (kept <=> n >= 1 /\ n <= NWorkers - 1)
    <3>. SUFFICES ASSUME ~filter_ndecoded_same, Given(1, -2)
                  PROVE  Kept <=> n >= 1 /\ n <= NWorkers - 1
      BY <2>2 DEF Given
    <3>1. filter_min_success = 1 /\ filter_max_success = NWorkers - 1
      BY <1>1, BoundsGiven, UsageNumbers
    <3>. QED  BY <2>1, <3>1
  <2>7. Given(1, 0) => (kept <=> filter_ndecoded_same /\ LengthsDiffer)
    <3>. SUFFICES ASSUME Given(1, 0) PROVE Kept <=> filter_ndecoded_same /\ LengthsDiffer
      BY <2>2 DEF Given
    <3>1. filter_min_success = 1 /\ filter_max_success = 0
      BY <1>1, BoundsGiven, UsageNumbers
    <3>. QED  BY <2>1, <3>1
  <2>8. ~filter_ndecoded_same /\ Given(-1, Empty) => (kept <=> n = NWorkers)
    <3>. SUFFICES ASSUME ~filter_ndecoded_same, Given(-1, Empty)
                  PROVE  Kept <=> n = NWorkers
      BY <2>2 DEF Given
    <3>1. filter_min_success = NWorkers /\ filter_max_success = MaxNWorkers
      <4>1. /\ filter_min_success = FromEnd(-1)
            /\ filter_max_success = IF Empty = Empty THEN FromEnd(MaxNWorkers)
                                                    ELSE FromEnd(Number(Empty))
        BY <1>1, BoundsGiven
      <4>. QED  BY <4>1, UsageNumbers
    <3>. QED  BY <2>1, <3>1
  <2>. QED  BY <2>3, <2>4, <2>5, <2>6, <2>7, <2>8 DEF OptionsMean, n
<1>. QED  BY <1>1, FilterInvariant, PTL
=============================================================================
