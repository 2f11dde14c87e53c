--------------------------- MODULE MCOutputStream ---------------------------
(***************************************************************************)
(* Instance of OutputStream for TLC.                                       *)
(***************************************************************************)
EXTENDS OutputStream

\* Worker 0 crashes before anything is written and twice after some output is
\* buffered, worker 1 on the same input.
CrashOften == {<<0, 1>>, <<0, 3>>, <<0, 4>>, <<1, 3>>}
=============================================================================
