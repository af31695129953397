------------------------------ MODULE PriceMirror ------------------------------
(***************************************************************************)
(* What the synchronisation of prices promises, without saying how: the    *)
(* table of prices of an instrument is at any time what Yahoo Finance has  *)
(* published of it up to some day.  A sync moves that day forward in one   *)
(* step, or does nothing; it never stores a part of what lies between, and *)
(* never takes a stored price back.  Only the deletion of the instrument   *)
(* empties the table.                                                      *)
(***************************************************************************)
EXTENDS Integers

CONSTANTS
    Instrument,   \* ids of instruments
    Day           \* the days of the calendar

VARIABLES
    published,    \* the days for which Yahoo has a close
    mirror        \* the days for which the table has a price

vars == <<published, mirror>>

\* All that is published of i up to some day.
Prefix(i, days) ==
    /\ days \subseteq published[i]
    /\ \A d \in published[i], e \in days : d < e => d \in days

Init ==
    /\ published = [i \in Instrument |-> {}]
    /\ mirror = [i \in Instrument |-> {}]

\* Yahoo publishes the days of an instrument in their order.
Publish(i, d) ==
    /\ \A e \in published[i] : e < d
    /\ published' = [published EXCEPT ![i] = @ \cup {d}]
    /\ UNCHANGED mirror

\* A sync stores what is missing up to some later day.
Extend(i, days) ==
    /\ mirror[i] \subseteq days /\ Prefix(i, days)
    /\ mirror' = [mirror EXCEPT ![i] = days]
    /\ UNCHANGED published

Erase(i) ==
    /\ mirror' = [mirror EXCEPT ![i] = {}]
    /\ UNCHANGED published

Next ==
    \E i \in Instrument :
        \/ \E d \in Day : Publish(i, d)
        \/ \E days \in SUBSET Day : Extend(i, days)
        \/ Erase(i)

Spec == Init /\ [][Next]_vars

================================================================================
