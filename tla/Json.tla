------------------------------- MODULE Json -------------------------------
(***************************************************************************)
(* Text between the quotes of a JSON string: how mish2jsonl writes it      *)
(* (json_escape_string) and what a parser reads.  A character is its code. *)
(***************************************************************************)
EXTENDS Integers, Sequences, SequencesExt, Hex

Quote     == 34
Backslash == 92

\* The characters with an escape of one letter: \b, \t, \n, \f, \r.
Letter == [c \in {8, 9, 10, 12, 13} |->
             CASE c = 8 -> 98 [] c = 9 -> 116 [] c = 10 -> 110 [] c = 12 -> 102 [] c = 13 -> 114]

\* sprintf of \u%04x, for a character below 32.
Unicode(c) == <<Backslash, 117, 48, 48, DigitOf(c \div 16), DigitOf(c % 16)>>

EscapeChar(c) ==
  CASE c \in {Quote, Backslash} -> <<Backslash, c>>
    [] c \in DOMAIN Letter      -> <<Backslash, Letter[c]>>
    [] c < 32 /\ c \notin DOMAIN Letter -> Unicode(c)
    [] OTHER                    -> <<c>>

\* json_escape_string
Escape(s) == FlattenSeq([k \in DOMAIN s |-> EscapeChar(s[k])])

-----------------------------------------------------------------------------

\* What an escape of one letter stands for.
LetterFor(c) == CHOOSE d \in DOMAIN Letter : Letter[d] = c

\* A parser that has read text, and pending since a backslash.
Parser(text, pending, ok) == [text |-> text, pending |-> pending, ok |-> ok]

ReadChar(c, p) ==
  LET Take(d) == Parser(Append(p.text, d), <<>>, p.ok)
      Wait    == Parser(p.text, Append(p.pending, c), p.ok)
      Fail    == Parser(p.text, <<>>, FALSE)
  IN  CASE Len(p.pending) = 0 ->
             (IF c = Backslash THEN Wait ELSE IF c = Quote \/ c < 32 THEN Fail ELSE Take(c))
        [] Len(p.pending) = 1 ->
             (IF c = 117 THEN Wait
              ELSE IF c \in {Quote, Backslash} THEN Take(c)
              ELSE IF \E d \in DOMAIN Letter : Letter[d] = c
                   THEN Take(LetterFor(c))
              ELSE Fail)
        [] Len(p.pending) \in 2 .. 4 -> Wait
        [] OTHER -> Take(16 * Nibble(p.pending[5]) + Nibble(c))

\* The parser after each of the characters.
ReadUpTo(chars) ==
  LET upto[n \in 0 .. Len(chars)] ==
        IF n = 0 THEN Parser(<<>>, <<>>, TRUE) ELSE ReadChar(chars[n], upto[n - 1])
  IN  upto

ReadAll(chars) == ReadUpTo(chars)[Len(chars)]

\* What a parser makes of the text between two quotes.
IsJsonText(chars) == ReadAll(chars).ok /\ ReadAll(chars).pending = <<>>
JsonText(chars)   == ReadAll(chars).text
=============================================================================
