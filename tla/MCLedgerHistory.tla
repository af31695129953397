----------------------------- MODULE MCLedgerHistory -----------------------------
(* A small instance of LedgerHistory for TLC.                                   *)
EXTENDS LedgerHistory, TLC

\* Purchases of one unit: a fund that was bought twice has two of them.
OneUnit == {1}
================================================================================
