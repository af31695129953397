----------------------------- MODULE LedgerHistory -----------------------------
(***************************************************************************)
(* PortfolioLedger with a history variable: every total the ledger of a    *)
(* portfolio has ever added up to, for each instrument.  It states what    *)
(* overlapping recalculations cannot break: a stored position may be out   *)
(* of date, but it is a number the ledger really had.                      *)
(***************************************************************************)
EXTENDS PortfolioLedger

VARIABLE ever   \* the totals each portfolio has had since it was created

hvars == <<vars, ever>>

HInit == Init /\ ever = [p \in Portfolio |-> [i \in Instrument |-> {NoPosition}]]

\* A created portfolio starts a history of its own.
Remember ==
    ever' = [p \in Portfolio |-> [i \in Instrument |->
        {HoldingsOf(p)'[i]} \cup
            (IF p \in portfolios' \ portfolios THEN {NoPosition} ELSE ever[p][i])]]

HNext == Next /\ Remember

HSpec == HInit /\ [][HNext]_hvars

\* The fairness of FairSpec: the history variable neither helps nor hinders.
FairHSpec == HSpec /\ \A r \in Request : SF_vars(Continue(r))

\* Whatever requests overlap, crash or fail, each stored position is a total
\* that the portfolio's ledger had at some moment: recalculations never store a
\* number read half from one ledger and half from another, from another
\* portfolio, or from before the portfolio existed.
NoPhantomPosition ==
    \A p \in Portfolio, i \in Instrument : positions[p][i] \in ever[p][i]

\* What makes it inductive: the same holds of the rows a recalculation is about
\* to store and of the ledger as it is, and a deleted portfolio has no position.
Remembered ==
    /\ \A p \in Portfolio, i \in Instrument :
         NoPosition \in ever[p][i] /\ HoldingsOf(p)[i] \in ever[p][i]
    /\ \A r \in Request : pc[r] \in {"replace", "delete", "commit"} =>
         \A i \in Instrument : snap[r][i] \in ever[target[r]][i]

Cascaded ==
    \A p \in Portfolio \ portfolios, i \in Instrument : positions[p][i] = NoPosition

NotEditing == \A r \in Request : pc[r] # "upsert"

HistoryInv == NoPhantomPosition /\ Remembered /\ Cascaded /\ NotEditing

================================================================================
