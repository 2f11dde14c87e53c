----------------------------- MODULE MCProcesses -----------------------------
(***************************************************************************)
(* Instance of Processes for TLC.                                          *)
(***************************************************************************)
EXTENDS Processes

\* Two workers, more than fit, a decoder that is missing, no last newline.
SomeSpecs ==
  {[lines |-> <<"so", "comment", "so">>, newline |-> TRUE],
   [lines |-> <<"so", "so", "so">>, newline |-> TRUE],
   [lines |-> <<"so", "missing">>, newline |-> TRUE],
   [lines |-> <<"so", "so">>, newline |-> FALSE]}
==============================================================================
