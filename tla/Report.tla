------------------------------- MODULE Report -------------------------------
(***************************************************************************)
(* What a user gets to see of a campaign: mish2jsonl piped into analysis   *)
(* (README.md:125, 133; the file between them is taken for a pipe),        *)
(* which starts the passes of a profile as processes, each reading the     *)
(* lines the one before it writes.  A pass takes and writes one line in    *)
(* one step; one that looks at a decoder the campaign was run without ends *)
(* with an error, and analysis does not look at how its passes ended.      *)
(***************************************************************************)
EXTENDS Mish2Jsonl, Passes

CONSTANTS Profiles  \* values of -p

ASSUME ReportAssumption == Profiles \subseteq ProfileNames

VARIABLES
  profile,
  pipe,    \* pipe[k]: what pass k has still to read; the last one is stdout
  seen,    \* inputs dedupe has met
  failed   \* passes that ended with an error

vars == <<reader, profile, pipe, seen, failed>>

Passing == Chain(profile)
Stdout == pipe[Len(Passing) + 1]

ReportInit ==
  /\ Init
  /\ profile \in Profiles
  /\ mode = "JSON" => campaign \in CutCampaigns /\ profile = "dedupe"
  /\ pipe = [k \in 1 .. Len(Chain(profile)) + 1 |-> <<>>]
  /\ seen = {} /\ failed = {}

\* A step of mish2jsonl; a line it prints goes to the first pass, an array does
\* not: the passes read lines.
ReaderStep ==
  /\ Read
  /\ pipe' = IF printed' = printed \/ mode = "JSON" THEN pipe ELSE [pipe EXCEPT ![1] = Append(@, Last(printed'))]
  /\ UNCHANGED <<profile, seen, failed>>

Ready(k) == pipe[k] # <<>> /\ k \notin failed

\* each_line: a line is kept, changed or dropped.
PassLine(k) ==
  /\ Ready(k)
  /\ LET c == Head(pipe[k])
         out == IF Keeps(Passing[k], c, seen) THEN <<Emits(Passing[k], c)>> ELSE <<>>
     IN  /\ ~Raises(Passing[k], c)
         /\ pipe' = [pipe EXCEPT ![k] = Tail(@), ![k + 1] = @ \o out]
         /\ seen' = IF Passing[k] = "dedupe" THEN seen \cup {c.input} ELSE seen
  /\ UNCHANGED <<reader, profile, failed>>

\* A method called on nil.  What the pass before it still writes is lost.
PassFails(k) ==
  /\ Ready(k)
  /\ Raises(Passing[k], Head(pipe[k]))
  /\ failed' = failed \cup {k}
  /\ UNCHANGED <<reader, profile, pipe, seen>>

Ended == pc = "done" /\ \A k \in DOMAIN Passing : ~Ready(k)

ReportStopped == Ended /\ UNCHANGED vars

ReportNext ==
  \/ ReaderStep
  \/ \E k \in DOMAIN Passing : PassLine(k) \/ PassFails(k)
  \/ ReportStopped

ReportSpec == ReportInit /\ [][ReportNext]_vars

-----------------------------------------------------------------------------
(***************************************************************************)
(* What the profiles are for, as passes.yml, the passes' headers and their *)
(* comments say it; nothing here looks at which passes a profile lists.    *)
(***************************************************************************)

\* The decoder is there, and accepts or rejects the input.
Says(c, so, yes) == \E o \in Outputs(c) : o.so = so /\ Success(o) = yes

SizesDiffer(c) == \E o, p \in Outputs(c) : o.ndecoded # p.ndecoded

\* "Find inputs that all workers agree are one size, but one or more decodes
\* differently", where blanks make no difference.
DecodeDifferently(c) == \E o, p \in Outputs(c) : Normalized(o.result) # Normalized(p.result)

\* "Finds disagreements in size between workers" that decode anything.
SizeDiscrepancy(c) ==
  \E o, p \in Outputs(c) : Success(o) /\ Success(p) /\ o.ndecoded # p.ndecoded

\* "Find inputs that not all workers either succeed or fail on."
StatusDiscrepancy(c) ==
  (\E o \in Outputs(c) : ~Success(o)) /\ (\E o \in Outputs(c) : ~Failure(o))

\* Two of the "other high-quality decoders" accept the input, or do not.
TwoOfThree(c, yes) ==
  \E so \in {Bddisasm, Zydis, Iced} :
    \A other \in {Bddisasm, Zydis, Iced} \ {so} : Says(c, other, yes)

\* "Results that only so gets right (or wrong)".
Alone(c, so) ==
  /\ Has(c, so)
  /\ \A o \in Outputs(c) : o.so # so => Success(o) # Success(OutputOf(c, so))

\* A decoder's status is not that of one of the others.
Differ(c, so, others) ==
  \E o, p \in Outputs(c) : o.so = so /\ p.so \in others /\ o.status # p.status

GhidraLocked(c) == Normalized(OutputOf(c, Ghidra).result) = LOCK

\* The decoders a profile is about.
LooksAt(name) ==
  CASE name = "destroy-capstone" -> {Capstone, Xed, Zydis}
    [] name = "destroy-bddisasm" -> {Bddisasm, Xed, Zydis}
    [] name = "destroy-ghidra"   -> {Ghidra, Xed, Zydis, Iced}
    [] name \in {"xed-overaccept", "xed-underaccept"} -> {Xed, Bddisasm, Zydis, Iced}
    [] OTHER -> {}

Lacks(name, c) == \E so \in LooksAt(name) : ~Has(c, so)

\* What a profile is there to find.
Wanted(name, c) ==
  CASE name = "default"              -> (\E o \in Outputs(c) : ~Failure(o)) /\ SizesDiffer(c)
    [] name = "dedupe"               -> TRUE
    [] name = "same-size-different-decodings" ->
         (\A o \in Outputs(c) : Success(o)) /\ ~SizesDiffer(c) /\ DecodeDifferently(c)
    [] name = "size-discrepancies"   -> SizeDiscrepancy(c)
    [] name = "status-discrepancies" -> StatusDiscrepancy(c)
    [] name = "destroy-capstone"     -> ~Lacks(name, c) /\ Alone(c, Capstone)
    [] name = "destroy-bddisasm"     -> ~Lacks(name, c) /\ Alone(c, Bddisasm)
    [] name = "destroy-ghidra"       -> ~Lacks(name, c) /\ Alone(c, Ghidra) /\ ~GhidraLocked(c)
    [] name = "xed-overaccept"       -> Says(c, Xed, TRUE) /\ TwoOfThree(c, FALSE)
    [] name = "xed-underaccept"      -> Says(c, Xed, FALSE) /\ TwoOfThree(c, TRUE)
                                          /\ OutputOf(c, Bddisasm).result # SALC

\* What it must not show.  Four profiles leave something between the two, which is
\* shown though the sources do not say so.  same-size-different-decodings shows equal
\* decodings too: the pass that was to compare them does not exist, and analysis
\* drops its name silently.  The destroy profiles show lines on which the decoder
\* agrees with all but one of the others, and is not alone.
Unwanted(name, c) ==
  CASE name = "same-size-different-decodings" ->
         (\E o \in Outputs(c) : Failure(o)) \/ SizesDiffer(c)
    [] name = "destroy-capstone" -> ~Differ(c, Capstone, {Xed, Zydis})
    [] name = "destroy-bddisasm" -> ~Differ(c, Bddisasm, {Xed, Zydis})
    [] name = "destroy-ghidra"   -> ~Differ(c, Ghidra, {Xed, Zydis, Iced}) \/ GhidraLocked(c)
    [] OTHER                     -> ~Wanted(name, c)

\* What the profiles count on of a line: no decoder is there twice, somebody succeeds
\* (as the fuzzer's filter sees to unless told otherwise), who succeeds has used a
\* byte, and who fails has not, of those decoders whose adapters leave it at 0.
Sensible(c) ==
  /\ \A v, w \in DOMAIN c.outputs : v # w => c.outputs[v].so # c.outputs[w].so
  /\ \E w \in DOMAIN c.outputs : Success(c.outputs[w])
  /\ \A w \in DOMAIN c.outputs :
       IF Success(c.outputs[w]) THEN c.outputs[w].ndecoded # 0
       ELSE c.outputs[w].so \in {Xed, Bddisasm, Zydis, Capstone, Ghidra} => c.outputs[w].ndecoded = 0

\* The decoders answered an input alike.
Alike(c, d) ==
  c.input = d.input =>
    /\ Len(c.outputs) = Len(d.outputs)
    /\ \A w \in DOMAIN c.outputs :
         /\ c.outputs[w].so = d.outputs[w].so
         /\ c.outputs[w].status = d.outputs[w].status
         /\ c.outputs[w].ndecoded = d.outputs[w].ndecoded

\* Whether the profile is to show the line can be told from the line alone.
Judgeable(k) == Sensible(printed[k]) /\ \A l \in DOMAIN printed : Alike(printed[l], printed[k])

FirstOfInput(k) == \A l \in 1 .. k - 1 : printed[l].input # printed[k].input

\* A line as the profile shows it.
Presented(c) == IF profile = "dedupe" THEN c ELSE Normalize(Minimize(c))

\* K are the lines shown of the first n.
RightChoice(n, K) ==
  /\ profile # "same-size-different-decodings" =>
       \A j, k \in K : j # k => printed[j].input # printed[k].input
  /\ \A k \in 1 .. n :
       Judgeable(k) =>
         /\ k \in K => ~Unwanted(profile, printed[k])
         /\ /\ Wanted(profile, printed[k])
            /\ profile # "same-size-different-decodings" => FirstOfInput(k)
            => k \in K

\* Of any campaign a profile shows, in order, trimmed to the longest decode and
\* normalized, the lines it is there to find and none it must not show, no input
\* twice; and it misses only what comes behind a line that lacks a decoder the
\* profile is about, which ends one of its passes.  So nothing is lost in a
\* combination of passes none of which was written for it.
ProfileShowsWanted ==
  Ended /\ mode = "JSONL" =>
    \E n \in 0 .. Len(printed) : \E K \in SUBSET (1 .. n) :
      /\ n < Len(printed) => Lacks(profile, printed[n + 1])
      /\ Stdout = Subsequence([k \in DOMAIN printed |-> Presented(printed[k])], K)
      /\ RightChoice(n, K)
=============================================================================
