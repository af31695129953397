------------------------------- MODULE MCReports -------------------------------
(* A small instance of Reports for TLC.                                         *)
EXTENDS Reports, TLC

CONSTANTS f1, f2

\* A template with a quarter of its money in one fund and the rest in the other.
OneToThree == (f1 :> 1) @@ (f2 :> 3)

Sym == Permutations(Portfolio) \cup Permutations(Txn)
================================================================================
