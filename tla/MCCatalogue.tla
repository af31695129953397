------------------------------ MODULE MCCatalogue ------------------------------
(* Instances of Catalogue for TLC: weights in hundredths of a per cent, so that *)
(* the tolerance is one unit.  Half of the whole twice, or one fund that misses *)
(* it by the tolerance.                                                         *)
EXTENDS Catalogue

TwoFunds == {5000, 9999}

================================================================================
