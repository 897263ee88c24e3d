------------------------------- MODULE MCCorpus -------------------------------
(***************************************************************************)
(* Bounds for TLC.                                                         *)
(***************************************************************************)
EXTENDS Corpus, TLC

Interchangeable == Permutations(Workers) \cup Permutations(Runs)
===============================================================================
