------------------------------- MODULE MCNavSync -------------------------------
(* Small instances of NavSync for TLC.                                          *)
EXTENDS NavSync, TLC

Sym == Permutations(Instrument) \cup Permutations(Job)
         \cup Permutations(Caller) \cup Permutations(Run)
================================================================================
