----------------------------- MODULE MCMishegos -----------------------------
(***************************************************************************)
(* Instances of Mishegos for TLC: which decoder crashes on which input.    *)
(***************************************************************************)
EXTENDS CampaignRefinement

\* Both workers at the last slot of a chunk and right after it, worker 0 twice
\* in a row.
CrashSome == {<<0, 1>>, <<0, 2>>, <<1, 2>>, <<1, 3>>, <<0, 5>>, <<1, 5>>}

CrashNowhere == {}
=============================================================================
