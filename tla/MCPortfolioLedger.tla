--------------------------- MODULE MCPortfolioLedger ---------------------------
(* Small instances of PortfolioLedger for TLC.                                  *)
EXTENDS PortfolioLedger, TLC

\* Two units to buy, to sell or to add as a fee, and one that a fee takes away: more
\* can be sold than is held, and two purchases are more than a position can hold.
SmallUnits == {-1, 2}

\* Purchases only: what a total is made of does not matter to the run.
OneUnit == {1}

Sym == Permutations(Portfolio) \cup Permutations(Instrument)
         \cup Permutations(Txn) \cup Permutations(Request)
================================================================================
