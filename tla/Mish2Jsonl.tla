----------------------------- MODULE Mish2Jsonl -----------------------------
(***************************************************************************)
(* mish2jsonl (src/mish2jsonl/mish2jsonl.c) reading the cohorts process()  *)
(* of mishegos wrote (src/mishegos/mishegos.c), byte by byte, from a       *)
(* stream that may end anywhere: main may have been killed.                *)
(*                                                                         *)
(* One action per m_fread.  A name or a text is a sequence of bytes, a     *)
(* printed object is the one a JSON parser gets back from it.  Numbers in  *)
(* the stream are below 2^16: of the wider fields two bytes count.         *)
(***************************************************************************)
EXTENDS Json

CONSTANTS
  Campaigns,     \* bound: the cohorts main kept, one sequence per campaign
  CutCampaigns,  \* those of them whose stream may end anywhere
  Unread         \* what is printed for workerno, which is never assigned

INSN_MAXLEN == 15
UINT16_MAX  == 65535
Status == 0 .. 5  \* S_NONE, S_SUCCESS, S_FAILURE, S_CRASH, S_PARTIAL, S_UNKNOWN

Output == [so : Seq(Byte), status : Status, ndecoded : 0 .. UINT16_MAX, result : Seq(Byte)]
Cohort == [input : Seq(Byte), outputs : Seq(Output)]

\* The path of a decoder that needs no escapes, and a C string.
PlainName(so) == \A k \in DOMAIN so : so[k] >= 32 /\ so[k] \notin {Quote, Backslash}
CText(text)   == \A k \in DOMAIN text : text[k] # 0

ASSUME Mish2JsonlAssumption ==
  /\ Campaigns \subseteq Seq(Cohort) /\ CutCampaigns \subseteq Campaigns
  /\ \A cs \in Campaigns : \A k \in DOMAIN cs :
       /\ Len(cs[k].input) <= INSN_MAXLEN
       /\ Len(cs[k].outputs) \in 1 .. UINT16_MAX
       /\ \A w \in DOMAIN cs[k].outputs :
            /\ PlainName(cs[k].outputs[w].so) /\ CText(cs[k].outputs[w].result)
            /\ Len(cs[k].outputs[w].so) <= UINT16_MAX /\ Len(cs[k].outputs[w].result) <= UINT16_MAX

-----------------------------------------------------------------------------
(***************************************************************************)
(* The stream                                                              *)
(***************************************************************************)

\* n in `size' bytes, low byte first.
Number(n, size) == [k \in 1 .. size |-> CASE k = 1 -> n % 256 [] k = 2 -> n \div 256 [] OTHER -> 0]

\* len and raw_insn; the bytes behind len may be anything.
InputSlot(input) ==
  <<Len(input)>> \o [k \in 1 .. INSN_MAXLEN |-> IF k <= Len(input) THEN input[k] ELSE 255]

OutputRecord(o) ==
  Number(Len(o.so), 8) \o o.so
  \o Number(o.status, 4) \o Number(o.ndecoded, 2) \o Number(Len(o.result), 2) \o o.result

CohortBytes(c) ==
  Number(Len(c.outputs), 4) \o InputSlot(c.input)
  \o FlattenSeq([w \in DOMAIN c.outputs |-> OutputRecord(c.outputs[w])])

Stream(cs) == FlattenSeq([k \in DOMAIN cs |-> CohortBytes(cs[k])])

-----------------------------------------------------------------------------

VARIABLES
  campaign, stream, pos,   \* what was written, what arrived, what was read
  m_finished_parsing,
  results,                 \* cohort_results
  string_length,           \* local of read_string
  pc, i,                   \* where read_next is, and for which worker
  mode,                    \* "JSONL", one object a line, or "JSON", an array of them
  printed,                 \* the objects
  document                 \* all that was printed, an object being one word of it

reader == <<campaign, stream, pos, m_finished_parsing, results, string_length, pc, i,
            mode, printed, document>>

Init ==
  /\ campaign \in Campaigns
  /\ \E n \in 0 .. Len(Stream(campaign)) :
       /\ campaign \notin CutCampaigns => n = Len(Stream(campaign))
       /\ stream = SubSeq(Stream(campaign), 1, n)
  /\ pos = 0 /\ m_finished_parsing = FALSE
  /\ results = [nworkers |-> 0, input |-> <<>>, outputs |-> <<>>]
  /\ string_length = 0
  /\ pc = "main" /\ i = 0
  /\ mode \in {"JSON", "JSONL"}
  /\ printed = <<>> /\ document = <<>>

\* The bytes fread finds, of the n it is asked for.
Found(n) == SubSeq(stream, pos + 1, Min({pos + n, Len(stream)}))

\* Mutant: reading nothing at all counts as the end.
AtEnd_Empty(size, times) == Len(Found(size * times)) \div size = 0

\* m_fread found no item though it was asked for one.
AtEnd(size, times) == Len(Found(size * times)) \div size = 0 /\ size * times # 0

Fread(n) == pos' = pos + Len(Found(n)) /\ UNCHANGED <<campaign, stream>>

MFread(size, times) ==
  /\ Fread(size * times)
  /\ m_finished_parsing' = (m_finished_parsing \/ AtEnd(size, times))

\* A number whose bytes lie over those of old, some of which may be left.
Over(bytes, old) ==
  LET byte(k) == IF k <= Len(bytes) THEN bytes[k] ELSE Number(old, 2)[k]
  IN  byte(1) + 256 * byte(2)

\* read_next goes on with worker w, or is done.
NextWorker(w, nworkers) ==
  /\ i' = w
  /\ pc' = IF w < nworkers THEN "so_len" ELSE "print"

\* -n prints the array's bracket.
Main ==
  /\ pc = "main" /\ pc' = "nworkers"
  /\ document' = IF mode = "JSON" THEN <<"[">> ELSE <<>>
  /\ UNCHANGED <<campaign, stream, pos, m_finished_parsing, results, string_length, i, mode, printed>>

\* malloc'ed: nothing of it is printed before it is assigned, but for workerno.
NoOutput ==
  [workerno |-> Unread, so |-> <<>>, status |-> 0, ndecoded |-> 0, len |-> 0, result |-> <<>>]

\* fread, not m_fread: at the end the last cohort's number is still there.
ReadNWorkers ==
  /\ pc = "nworkers"
  /\ Fread(4)
  /\ LET n == Over(Found(4), results.nworkers)
     IN  results' = [nworkers |-> n, input |-> <<>>,
                     outputs |-> [w \in 1 .. n |-> NoOutput]]
  /\ pc' = "input"
  /\ UNCHANGED <<m_finished_parsing, string_length, i, mode, printed, document>>

ReadInput ==
  /\ pc = "input"
  /\ MFread(1 + INSN_MAXLEN, 1)
  /\ results' = [results EXCEPT !.input = Found(1 + INSN_MAXLEN)]
  /\ NextWorker(0, results.nworkers)
  /\ UNCHANGED <<string_length, mode, printed, document>>

\* The length of a string; what cannot be read of it is 0.
ReadLength(at, size, then) ==
  /\ pc = at
  /\ MFread(size, 1)
  /\ string_length' = Over(Found(size), 0)
  /\ pc' = then
  /\ UNCHANGED <<results, i, mode, printed, document>>

\* calloc'ed: the bytes that were not found are 0.
Padded(n) == Found(n) \o [k \in 1 .. n - Len(Found(n)) |-> 0]

ReadSo ==
  /\ pc = "so"
  /\ MFread(1, string_length)
  /\ results' = [results EXCEPT !.outputs[i + 1].so = Padded(string_length)]
  /\ pc' = "status"
  /\ UNCHANGED <<string_length, i, mode, printed, document>>

ReadStatus ==
  /\ pc = "status"
  /\ MFread(4, 1)
  /\ results' = [results EXCEPT !.outputs[i + 1].status = Over(Found(4), 0)]
  /\ pc' = "ndecoded"
  /\ UNCHANGED <<string_length, i, mode, printed, document>>

ReadNDecoded ==
  /\ pc = "ndecoded"
  /\ MFread(2, 1)
  /\ results' = [results EXCEPT !.outputs[i + 1].ndecoded = Over(Found(2), 0)]
  /\ pc' = "len"
  /\ UNCHANGED <<string_length, i, mode, printed, document>>

ReadResult ==
  /\ pc = "result"
  /\ MFread(1, string_length)
  /\ results' = [results EXCEPT !.outputs[i + 1].len = string_length,
                               !.outputs[i + 1].result = Padded(string_length)]
  /\ NextWorker(i + 1, results.nworkers)
  /\ UNCHANGED <<string_length, mode, printed, document>>

-----------------------------------------------------------------------------

\* A C string ends at its first 0.
CString(s) == SubSeq(s, 1, Min({k \in DOMAIN s : s[k] = 0} \cup {Len(s) + 1}) - 1)

\* The printed object, parsed: texts are escaped, names are not.
Line(r) ==
  [input |-> Hexbuf(SubSeq(r.input, 2, r.input[1] + 1)),
   outputs |-> [w \in 1 .. r.nworkers |->
     [r.outputs[w] EXCEPT !.so = JsonText(CString(@)), !.result = JsonText(Escape(CString(@)))]]]

\* Mutant: a comma in front of every object.
Comma_Always == <<",">>

\* is_first
Comma == IF mode = "JSON" /\ printed # <<>> THEN <<",">> ELSE <<>>

\* read_next returned: the cohort is printed and freed unless parsing is over.
PrintCohort ==
  /\ pc = "print"
  /\ IF m_finished_parsing
     THEN /\ pc' = "done"
          /\ document' = document \o (IF mode = "JSON" THEN <<"]">> ELSE <<>>)
          /\ UNCHANGED printed
     ELSE /\ pc' = "nworkers"
          /\ printed' = Append(printed, Line(results))
          /\ document' = document \o Comma \o <<"object", "newline">>
  /\ UNCHANGED <<campaign, stream, pos, m_finished_parsing, results, string_length, i, mode>>

Read ==
  \/ Main \/ ReadNWorkers \/ ReadInput
  \/ ReadLength("so_len", 8, "so") \/ ReadSo \/ ReadStatus \/ ReadNDecoded
  \/ ReadLength("len", 2, "result") \/ ReadResult
  \/ PrintCohort

-----------------------------------------------------------------------------

\* What mish2jsonl makes of a cohort that arrived in full.
AsLine(c) ==
  [input |-> c.input,
   outputs |-> [w \in DOMAIN c.outputs |->
     [workerno |-> Unread, so |-> c.outputs[w].so, status |-> c.outputs[w].status,
      ndecoded |-> c.outputs[w].ndecoded, len |-> Len(c.outputs[w].result),
      result |-> c.outputs[w].result]]]

\* Given to the manual mutator, the printed input is the input again.
Replayed(line) == [line EXCEPT !.input = Hex2Bytes(@)]

\* The line says less than the cohort: the last text is cut, but not to nothing.
CutShort(line, c) ==
  LET n == Len(c.outputs)
      full == AsLine(c)
  IN  \E k \in 1 .. Len(c.outputs[n].result) - 1 :
        line = [full EXCEPT !.outputs[n].result = SubSeq(@, 1, k)]

Complete == {n \in 0 .. Len(campaign) : Len(Stream(SubSeq(campaign, 1, n))) <= Len(stream)}

\* Wherever the stream ends, what is printed is each cohort that arrived in
\* full, once and in order, with nothing of a cohort that did not, but for one
\* cut in the very last text, whose missing end m_fread does not notice (a
\* positive count is not the end).  Texts survive the escaping, and an input is
\* what the manual mutator makes of it.
PrintsWhatArrived ==
  pc = "done" =>
    \E n \in Complete :
      /\ \A m \in Complete : m <= n
      /\ Len(printed) \in {n, n + 1}
      /\ \A k \in 1 .. n : Replayed(printed[k]) = AsLine(campaign[k])
      /\ Len(printed) = n + 1 => CutShort(Replayed(printed[n + 1]), campaign[n + 1])

\* n objects, each with a newline behind, and commas between them.
Elements(n) ==
  [k \in 1 .. 3 * n - 1 |-> CASE k % 3 = 1 -> "object" [] k % 3 = 2 -> "newline" [] OTHER -> ","]

\* The same without commas.
Lines(n) == [k \in 1 .. 2 * n |-> IF k % 2 = 1 THEN "object" ELSE "newline"]

\* The document is a JSON array, or a list of lines, of what was printed, also
\* when the stream is empty or ends anywhere; its texts are JSON strings.
WellFormed ==
  pc = "done" =>
    LET n == Len(printed)
    IN  /\ document = IF mode = "JSON" THEN <<"[">> \o Elements(n) \o <<"]">> ELSE Lines(n)
        /\ \A k \in 1 .. n : \A w \in DOMAIN printed[k].outputs :
             /\ IsJsonText(printed[k].outputs[w].so)
             /\ IsJsonText(Escape(printed[k].outputs[w].result))
=============================================================================
