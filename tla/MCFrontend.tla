------------------------------- MODULE MCFrontend ------------------------------
(* A small instance of Frontend for TLC: two of each thing.                     *)
EXTENDS Frontend

CONSTANTS f, g

\* The fund f has a price for each day, g none for the first.
MCNav == [i \in {f, g} |-> [d \in Day |-> IF i = f THEN 10 + d ELSE IF d = 1 THEN None ELSE 20]]
MCAvailable == [from |-> 1, to |-> 2]

\* The habits that each view is used with: each set is one kind of user and network.
MCProfiles == [
    list        |-> {{"hasty"}, {"fail"}, {"close"}},
    strategies  |-> {{"hasty", "close"}, {"fail"}},
    chart       |-> {{"hasty", "multitask", "fail"}, {"close"}},
    syncAll     |-> {{}, {"fail"}, {"hasty"}},
    fund        |-> {{"multitask"}, {"fail"}},
    transaction |-> {{"hasty", "reorder", "fail"}},
    buy         |-> {{"hasty", "reorder"}, {"fail"}}]
================================================================================
