---------------------------- MODULE MCPortfolioPage ----------------------------
(* A small instance of PortfolioPage for TLC.                                   *)
EXTENDS PortfolioPage, TLC

\* The user who waits; the one who does not; the one whose requests fail.
SomeProfiles == {{"close"}, {"hasty", "clearDate"}, {"close", "fail"}}

Sym == Permutations(Content) \cup Permutations(Date) \cup Permutations(Task)
================================================================================
