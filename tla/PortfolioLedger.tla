---------------------------- MODULE PortfolioLedger ----------------------------
(***************************************************************************)
(* The transactions ledger of a portfolio and the positions table that is  *)
(* rebuilt from it, under concurrent HTTP requests.                        *)
(*                                                                         *)
(* Every handler of TransactionsService first commits a change of the      *)
(* ledger and then calls PortfoliosService.recalculateFromTransactions,    *)
(* which reads the ledger outside any database transaction and then, in a  *)
(* second, separate database transaction, deletes the positions of the     *)
(* portfolio and inserts what it read.  Each `await` of these handlers is  *)
(* a point where other requests run, so each database statement is a step. *)
(*                                                                         *)
(* The database is PostgreSQL at its default isolation level, READ         *)
(* COMMITTED: a statement sees what was committed when it started, waits   *)
(* for the row locks of other open transactions, and the rows it waited    *)
(* for are skipped when they are gone.  The inserts of one recalculation   *)
(* and its COMMIT are one step, because nothing they write is visible      *)
(* before the COMMIT; a conflict found by any of them rolls all back.      *)
(***************************************************************************)
EXTENDS Integers, FiniteSets, Functions

CONSTANTS
    Portfolio,    \* ids of portfolios
    Instrument,   \* ids of instruments, all of them in the database at first
    Txn,          \* ids of rows of the ledger: bounds how many rows it holds
    Request,      \* slots for HTTP requests: bounds how many are in flight
    UsedType,     \* the transaction types that clients send
    UnitValue,    \* the numbers of units that clients send
    MaxUnits,     \* the largest number that fits the column NUMERIC(18,6)
    Behaviour,    \* what clients do beyond the plain use of the pages
    None          \* no row, no portfolio, a field the client left undefined

TransactionType ==
    {"BUY", "SELL", "SWITCH", "DIVIDEND_REINVEST", "FEE_CONSOLIDATION"}

\* "overlap"        a request starts while another on the portfolio is running
\* "partialUpdate"  an update that carries only some of the fields
\* "manualEdit"     the positions endpoints other than recalculate are used
\* "import"         portfolios are imported from a file
Behaviours == {"overlap", "partialUpdate", "manualEdit", "import"}

Row == [pf : Portfolio, ins : Instrument, type : TransactionType, units : UnitValue]

Column == {"ins", "type", "units"}

ASSUME ConstantsAssumption ==
    /\ UsedType \subseteq TransactionType
    /\ UnitValue \subseteq Int
    /\ MaxUnits \in Nat
    /\ Behaviour \subseteq Behaviours
    /\ None \notin Portfolio /\ None \notin TransactionType /\ None \notin UnitValue
    /\ None \notin Row /\ None \notin [txn : Txn, row : Row, cols : SUBSET Column]

VARIABLES
    portfolios,   \* rows of the table portfolios
    instruments,  \* rows of the table instruments
    ledger,       \* the table transactions: a row, or None, for each id
    positions,    \* the table portfolio_positions: units, or NoPosition
    pc,           \* the next step of each request
    target,       \* the portfolio a request is about
    entity,       \* the transaction a request has read and is about to save
    snap,         \* the position rows a request is about to store
    rows,         \* the position rows a request has read, those still there
    unsettled     \* auxiliary: the last recalculation was cut short, or the positions
                  \* have been edited or the ledger imported since

tables   == <<portfolios, instruments, ledger, positions>>
requests == <<pc, target, entity, snap, rows>>
vars     == <<portfolios, instruments, ledger, positions,
              pc, target, entity, snap, rows, unsettled>>

Entity == [txn : Txn, row : Row, cols : SUBSET Column]

\* A row of the positions table holds a positive number of units, so zero
\* stands for the absence of a row.
NoPosition == 0

NoSnap == [i \in Instrument |-> NoPosition]

RecalcSteps == {"recalc", "replace", "delete", "commit"}
Steps == {"idle", "save", "write", "insert", "unlink", "upsert"} \cup RecalcSteps

--------------------------------------------------------------------------------
(* What the SELECT of recalculateFromTransactions computes.                     *)

SignedUnits(row) == IF row.type \in {"SELL", "SWITCH"} THEN -row.units ELSE row.units

LotsOf(p, i) == {t \in Txn : ledger[t] # None /\ ledger[t].pf = p /\ ledger[t].ins = i}

UnitsHeld(p, i) ==
    SumFunction([t \in Txn |-> IF t \in LotsOf(p, i) THEN SignedUnits(ledger[t]) ELSE 0])

\* Mutant of HoldingsOf: no HAVING, an oversold fund is returned as well.
HoldingsWithoutHaving(p) ==
    [i \in Instrument |-> IF LotsOf(p, i) # {} THEN UnitsHeld(p, i) ELSE NoPosition]

\* GROUP BY gives a group to the instruments that have rows, HAVING keeps the
\* groups with a positive sum.
HoldingsOf(p) ==
    [i \in Instrument |->
        IF LotsOf(p, i) # {} /\ UnitsHeld(p, i) > 0 THEN UnitsHeld(p, i) ELSE NoPosition]

ValidUnits(type, units) ==
    IF type = "FEE_CONSOLIDATION" THEN units # 0 ELSE units > 0

--------------------------------------------------------------------------------
(* Requests and the rows they have locked.                                      *)

InFlight(p) == {r \in Request : target[r] = p}

\* Clients that do not overlap their requests wait for each answer.
Admit(p) == "overlap" \in Behaviour \/ InFlight(p) = {}

\* A fresh uuid: an id that is neither in the table nor held by a request.
FreeTxns == {t \in Txn : /\ ledger[t] = None
                         /\ \A r \in Request : entity[r] = None \/ entity[r].txn # t}

Stored(f) == {i \in Instrument : f[i] # NoPosition}

\* Rows deleted by an open recalculation other than r's are locked until it ends.
LockedBy(others, p) ==
    UNION {rows[q] : q \in {o \in others : pc[o] = "commit" /\ target[o] = p}}

Locked(p) == LockedBy(Request, p)

Enter(r, p, step) ==
    /\ pc' = [pc EXCEPT ![r] = step]
    /\ target' = [target EXCEPT ![r] = p]

Finish(r) ==
    /\ pc' = [pc EXCEPT ![r] = "idle"]
    /\ target' = [target EXCEPT ![r] = None]
    /\ entity' = [entity EXCEPT ![r] = None]
    /\ snap' = [snap EXCEPT ![r] = NoSnap]

\* The rows I of portfolio p were deleted: whoever had read them finds them gone.
RowsGone(p, I) == [q \in Request |-> IF target[q] = p THEN rows[q] \ I ELSE rows[q]]

--------------------------------------------------------------------------------
Init ==
    /\ portfolios = {}
    /\ instruments = Instrument
    /\ ledger = [t \in Txn |-> None]
    /\ positions = [p \in Portfolio |-> NoSnap]
    /\ pc = [r \in Request |-> "idle"]
    /\ target = [r \in Request |-> None]
    /\ entity = [r \in Request |-> None]
    /\ snap = [r \in Request |-> NoSnap]
    /\ rows = [r \in Request |-> {}]
    /\ unsettled = [p \in Portfolio |-> FALSE]

--------------------------------------------------------------------------------
(* TransactionsService: the first half of each handler, up to the point where   *)
(* the ledger is committed.  A request that is refused (400, 404, a foreign-key *)
(* violation) before that changes nothing and is not a step.                    *)

\* POST transactions.  The INSERT checks both foreign keys.
Create(r, p, row) ==
    /\ pc[r] = "idle" /\ Admit(p)
    /\ row.pf = p /\ ValidUnits(row.type, row.units)
    /\ p \in portfolios /\ row.ins \in instruments
    /\ \E t \in FreeTxns : ledger' = [ledger EXCEPT ![t] = row]
    /\ Enter(r, p, "recalc")
    /\ UNCHANGED <<portfolios, instruments, positions, entity, snap, rows, unsettled>>

\* POST transactions/apply-template: one BUY for each fund of the template, all
\* in one database transaction.  bought gives each fund the units its share of
\* the amount buys; the arithmetic of the shares is left out.
ApplyTemplateBuy(r, p, bought) ==
    /\ pc[r] = "idle" /\ Admit(p)
    /\ DOMAIN bought # {} /\ \A i \in DOMAIN bought : bought[i] > 0
    /\ p \in portfolios /\ DOMAIN bought \subseteq instruments
    /\ \E T \in SUBSET FreeTxns : \E lot \in Bijection(T, DOMAIN bought) :
         ledger' = [t \in Txn |->
             IF t \in T
             THEN [pf |-> p, ins |-> lot[t], type |-> "BUY", units |-> bought[lot[t]]]
             ELSE ledger[t]]
    /\ Enter(r, p, "recalc")
    /\ UNCHANGED <<portfolios, instruments, positions, entity, snap, rows, unsettled>>

\* Mutant of UpdateFind: the units are validated against the stored type only.
UpdateFindOldType(r, p, t, ins, type, units) ==
    LET newType  == IF type = None THEN ledger[t].type ELSE type
        newUnits == IF units = None THEN ledger[t].units ELSE units
    IN
    /\ pc[r] = "idle" /\ Admit(p)
    /\ ledger[t] # None /\ ledger[t].pf = p
    /\ "partialUpdate" \in Behaviour \/ (type # None /\ units # None)
    /\ units # None => ValidUnits(ledger[t].type, newUnits)
    /\ entity' = [entity EXCEPT ![r] =
           [txn |-> t, cols |-> {},
            row |-> [pf |-> p, ins |-> ins, type |-> newType, units |-> newUnits]]]
    /\ Enter(r, p, "save")
    /\ UNCHANGED <<tables, snap, rows, unsettled>>

\* PUT transactions/:txnId, up to repo.save.  The units are validated only when
\* the client sent units, against the type it sent or the one just read.  The
\* instrument is whatever save will see: the entity carries the eagerly loaded
\* relation next to the column that dto.instrumentId was assigned to.
UpdateFind(r, p, t, ins, type, units) ==
    LET newType  == IF type = None THEN ledger[t].type ELSE type
        newUnits == IF units = None THEN ledger[t].units ELSE units
    IN
    /\ pc[r] = "idle" /\ Admit(p)
    /\ ledger[t] # None /\ ledger[t].pf = p
    /\ "partialUpdate" \in Behaviour \/ (type # None /\ units # None)
    /\ units # None => ValidUnits(newType, units)
    /\ entity' = [entity EXCEPT ![r] =
           [txn |-> t, cols |-> {},
            row |-> [pf |-> p, ins |-> ins, type |-> newType, units |-> newUnits]]]
    /\ Enter(r, p, "save")
    /\ UNCHANGED <<tables, snap, rows, unsettled>>

\* repo.save reads the row again by its id and computes the columns to write;
\* a row that is gone is going to be inserted.
SaveReload(r) ==
    LET e == entity[r] IN
    /\ pc[r] = "save"
    /\ \/ /\ ledger[e.txn] # None
          /\ entity' = [entity EXCEPT ![r].cols = {c \in Column : ledger[e.txn][c] # e.row[c]}]
          /\ pc' = [pc EXCEPT ![r] = "write"]
       \/ /\ ledger[e.txn] = None
          /\ pc' = [pc EXCEPT ![r] = "insert"]
          /\ UNCHANGED entity
    /\ UNCHANGED <<tables, target, snap, rows, unsettled>>

Written(e) == [c \in DOMAIN e.row |-> IF c \in e.cols THEN e.row[c] ELSE ledger[e.txn][c]]

\* UPDATE ... SET <the changed columns> WHERE id = ...; no row matches, none is written.
SaveUpdate(r) ==
    LET e == entity[r] IN
    /\ pc[r] = "write"
    /\ "ins" \in e.cols => e.row.ins \in instruments
    /\ ledger' = IF ledger[e.txn] = None THEN ledger
                 ELSE [ledger EXCEPT ![e.txn] = Written(e)]
    /\ entity' = [entity EXCEPT ![r] = None]
    /\ pc' = [pc EXCEPT ![r] = "recalc"]
    /\ UNCHANGED <<portfolios, instruments, positions, target, snap, rows, unsettled>>

SaveInsert(r) ==
    LET e == entity[r] IN
    /\ pc[r] = "insert"
    /\ ledger[e.txn] = None
    /\ e.row.pf \in portfolios /\ e.row.ins \in instruments
    /\ ledger' = [ledger EXCEPT ![e.txn] = e.row]
    /\ entity' = [entity EXCEPT ![r] = None]
    /\ pc' = [pc EXCEPT ![r] = "recalc"]
    /\ UNCHANGED <<portfolios, instruments, positions, target, snap, rows, unsettled>>

\* The statement of save violates a foreign key or the primary key.
SaveFails(r) ==
    LET e == entity[r] IN
    /\ \/ pc[r] = "write" /\ "ins" \in e.cols /\ e.row.ins \notin instruments
       \/ /\ pc[r] = "insert"
          /\ ledger[e.txn] # None \/ e.row.pf \notin portfolios \/ e.row.ins \notin instruments
    /\ Finish(r)
    /\ UNCHANGED <<tables, rows, unsettled>>

\* Mutant of RemoveFind: the transaction is looked up by its id alone.
RemoveFindAnywhere(r, p, t) ==
    /\ pc[r] = "idle" /\ Admit(p)
    /\ ledger[t] # None
    /\ entity' = [entity EXCEPT ![r] = [txn |-> t, row |-> ledger[t], cols |-> {}]]
    /\ Enter(r, p, "unlink")
    /\ UNCHANGED <<tables, snap, rows, unsettled>>

\* DELETE transactions/:txnId: findOne, then remove by id.
RemoveFind(r, p, t) ==
    /\ pc[r] = "idle" /\ Admit(p)
    /\ ledger[t] # None /\ ledger[t].pf = p
    /\ entity' = [entity EXCEPT ![r] = [txn |-> t, row |-> ledger[t], cols |-> {}]]
    /\ Enter(r, p, "unlink")
    /\ UNCHANGED <<tables, snap, rows, unsettled>>

\* Mutant of RemoveWrite: answers without recalculating the positions.
RemoveWriteOnly(r) ==
    /\ pc[r] = "unlink"
    /\ ledger' = [ledger EXCEPT ![entity[r].txn] = None]
    /\ Finish(r)
    /\ UNCHANGED <<portfolios, instruments, positions, rows, unsettled>>

RemoveWrite(r) ==
    /\ pc[r] = "unlink"
    /\ ledger' = [ledger EXCEPT ![entity[r].txn] = None]
    /\ entity' = [entity EXCEPT ![r] = None]
    /\ pc' = [pc EXCEPT ![r] = "recalc"]
    /\ UNCHANGED <<portfolios, instruments, positions, target, snap, rows, unsettled>>

TxnsOf(p) == {t \in Txn : ledger[t] # None /\ ledger[t].pf = p}

Without(T) == [t \in Txn |-> IF t \in T THEN None ELSE ledger[t]]

\* DELETE transactions: one statement, whatever rows there are.
ClearAll(r, p) ==
    /\ pc[r] = "idle" /\ Admit(p)
    /\ ledger' = Without(TxnsOf(p))
    /\ Enter(r, p, "recalc")
    /\ UNCHANGED <<portfolios, instruments, positions, entity, snap, rows, unsettled>>

--------------------------------------------------------------------------------
(* PortfoliosService.recalculateFromTransactions, the second half of each       *)
(* handler above and an endpoint of its own.                                    *)

\* POST positions/recalculate
Recalculate(r, p) ==
    /\ pc[r] = "idle" /\ Admit(p)
    /\ Enter(r, p, "recalc")
    /\ UNCHANGED <<tables, entity, snap, rows, unsettled>>

\* findOne, then the SELECT: what it returns is all that the rest will use.
\* A portfolio that is gone ends the request, at the one or at the other.
Select(r) ==
    /\ pc[r] = "recalc" /\ target[r] \in portfolios
    /\ snap' = [snap EXCEPT ![r] = HoldingsOf(target[r])]
    /\ pc' = [pc EXCEPT ![r] = "replace"]
    /\ UNCHANGED <<tables, target, entity, rows, unsettled>>

SelectFails(r) ==
    /\ pc[r] = "recalc" /\ target[r] \notin portfolios
    /\ Finish(r)
    /\ UNCHANGED <<tables, rows, unsettled>>

\* Mutant of DeleteBegins: deletes only the rows that are to be inserted again.
DeleteBeginsPartly(r) ==
    /\ pc[r] = "replace"
    /\ rows' = [rows EXCEPT ![r] = Stored(positions[target[r]]) \cap Stored(snap[r])]
    /\ pc' = [pc EXCEPT ![r] = "delete"]
    /\ UNCHANGED <<tables, target, entity, snap, unsettled>>

\* BEGIN; DELETE FROM portfolio_positions: the rows the statement can see.
DeleteBegins(r) ==
    /\ pc[r] = "replace"
    /\ rows' = [rows EXCEPT ![r] = Stored(positions[target[r]])]
    /\ pc' = [pc EXCEPT ![r] = "delete"]
    /\ UNCHANGED <<tables, target, entity, snap, unsettled>>

\* It has waited for the row locks of the others and holds the rows still there.
DeleteEnds(r) ==
    /\ pc[r] = "delete"
    /\ rows[r] \cap Locked(target[r]) = {}
    /\ pc' = [pc EXCEPT ![r] = "commit"]
    /\ UNCHANGED <<tables, target, entity, snap, rows, unsettled>>

\* An INSERT of a key whose row another transaction has deleted waits for it.
InsertsReady(r) ==
    /\ pc[r] = "commit"
    /\ Stored(snap[r]) \cap LockedBy(Request \ {r}, target[r]) = {}

\* The keys are free, both foreign keys hold and the numbers fit their column.
InsertsValid(r) ==
    /\ Stored(snap[r]) \cap (Stored(positions[target[r]]) \ rows[r]) = {}
    /\ Stored(snap[r]) # {} => target[r] \in portfolios
    /\ Stored(snap[r]) \subseteq instruments
    /\ \A i \in Instrument : snap[r][i] \in -MaxUnits..MaxUnits

\* Mutant of Commit: the units are added to those of the row that was there.
CommitAdding(r) ==
    LET p == target[r] IN
    /\ InsertsReady(r) /\ InsertsValid(r)
    /\ positions' = [positions EXCEPT ![p] = [i \in Instrument |-> @[i] + snap[r][i]]]
    /\ rows' = [RowsGone(p, rows[r]) EXCEPT ![r] = {}]
    /\ unsettled' = [unsettled EXCEPT ![p] = FALSE]
    /\ Finish(r)
    /\ UNCHANGED <<portfolios, instruments, ledger>>

Commit(r) ==
    LET p == target[r] IN
    /\ InsertsReady(r) /\ InsertsValid(r)
    /\ positions' = [positions EXCEPT ![p] = [i \in Instrument |->
           IF snap[r][i] # NoPosition THEN snap[r][i]
           ELSE IF i \in rows[r] THEN NoPosition ELSE positions[p][i]]]
    /\ rows' = [RowsGone(p, rows[r]) EXCEPT ![r] = {}]
    /\ unsettled' = [unsettled EXCEPT ![p] = FALSE]
    /\ Finish(r)
    /\ UNCHANGED <<portfolios, instruments, ledger>>

\* Mutant of Rollback: a failed replacement is tried again, for ever.
RollbackRetrying(r) ==
    /\ InsertsReady(r) /\ ~InsertsValid(r)
    /\ rows' = [rows EXCEPT ![r] = {}]
    /\ pc' = [pc EXCEPT ![r] = "replace"]
    /\ UNCHANGED <<tables, target, entity, snap, unsettled>>

\* A unique, foreign-key or numeric-overflow violation: ROLLBACK, 500.  The
\* ledger keeps what the request had committed.
Rollback(r) ==
    /\ InsertsReady(r) /\ ~InsertsValid(r)
    /\ rows' = [rows EXCEPT ![r] = {}]
    /\ unsettled' = [unsettled EXCEPT ![target[r]] = target[r] \in portfolios]
    /\ Finish(r)
    /\ UNCHANGED tables

--------------------------------------------------------------------------------
(* The other endpoints of the positions table.                                  *)

\* POST positions, up to repo.save: the portfolio exists, the row may exist.
UpsertFind(r, p, i, units) ==
    /\ "manualEdit" \in Behaviour
    /\ pc[r] = "idle" /\ Admit(p)
    /\ p \in portfolios /\ units > 0
    /\ snap' = [snap EXCEPT ![r] = [NoSnap EXCEPT ![i] = units]]
    /\ rows' = [rows EXCEPT ![r] = Stored(positions[p]) \cap {i}]
    /\ Enter(r, p, "upsert")
    /\ UNCHANGED <<tables, entity, unsettled>>

\* An UPDATE of the row that was read, or else an INSERT.
UpsertReady(r) == pc[r] = "upsert" /\ Stored(snap[r]) \cap Locked(target[r]) = {}

UpsertValid(r) ==
    /\ rows[r] = {} => /\ target[r] \in portfolios
                       /\ Stored(snap[r]) \subseteq instruments
                       /\ Stored(snap[r]) \cap Stored(positions[target[r]]) = {}
    /\ \A i \in Instrument : snap[r][i] \in -MaxUnits..MaxUnits

UpsertSave(r) ==
    /\ UpsertReady(r) /\ UpsertValid(r)
    /\ positions' = [positions EXCEPT ![target[r]] = [i \in Instrument |->
           IF snap[r][i] # NoPosition THEN snap[r][i] ELSE positions[target[r]][i]]]
    /\ rows' = [rows EXCEPT ![r] = {}]
    /\ unsettled' = [unsettled EXCEPT ![target[r]] = target[r] \in portfolios]
    /\ Finish(r)
    /\ UNCHANGED <<portfolios, instruments, ledger>>

UpsertFails(r) ==
    /\ UpsertReady(r) /\ ~UpsertValid(r)
    /\ rows' = [rows EXCEPT ![r] = {}]
    /\ Finish(r)
    /\ UNCHANGED <<tables, unsettled>>

ErasePositions(p, I) ==
    /\ "manualEdit" \in Behaviour /\ Admit(p)
    /\ I \cap Locked(p) = {}
    /\ positions' = [positions EXCEPT ![p] =
                       [i \in Instrument |-> IF i \in I THEN NoPosition ELSE @[i]]]
    /\ rows' = RowsGone(p, I)
    /\ unsettled' = [unsettled EXCEPT ![p] = p \in portfolios]
    /\ UNCHANGED <<portfolios, instruments, ledger, pc, target, entity, snap>>

\* DELETE positions/:positionId, and DELETE positions
RemovePosition(p, i) == i \in Stored(positions[p]) /\ ErasePositions(p, {i})
ClearPositions(p)    == ErasePositions(p, Stored(positions[p]))

--------------------------------------------------------------------------------
(* Portfolios and instruments come and go, and take their rows with them.       *)

\* POST portfolios; an id is used again only when nothing refers to it any more.
CreatePortfolio(p) ==
    /\ p \notin portfolios /\ InFlight(p) = {}
    /\ portfolios' = portfolios \cup {p}
    /\ UNCHANGED <<instruments, ledger, positions, requests, unsettled>>

\* importPortfoliosData: a new portfolio with the valid rows of the file, in one
\* database transaction, and no recalculation.
ImportPortfolio(p, T, imported) ==
    /\ "import" \in Behaviour
    /\ p \notin portfolios /\ InFlight(p) = {}
    /\ T \subseteq FreeTxns
    /\ \A t \in T : /\ imported[t].pf = p /\ imported[t].ins \in instruments
                     /\ ValidUnits(imported[t].type, imported[t].units)
    /\ portfolios' = portfolios \cup {p}
    /\ ledger' = [t \in Txn |-> IF t \in T THEN imported[t] ELSE ledger[t]]
    /\ unsettled' = [unsettled EXCEPT ![p] = TRUE]
    /\ UNCHANGED <<instruments, positions, requests>>

\* DELETE portfolios/:id, ON DELETE CASCADE
DeletePortfolio(p) ==
    /\ p \in portfolios /\ Locked(p) = {}
    /\ portfolios' = portfolios \ {p}
    /\ ledger' = Without(TxnsOf(p))
    /\ positions' = [positions EXCEPT ![p] = NoSnap]
    /\ rows' = RowsGone(p, Instrument)
    /\ unsettled' = [unsettled EXCEPT ![p] = FALSE]
    /\ UNCHANGED <<instruments, pc, target, entity, snap>>

\* DELETE instruments/:id, ON DELETE CASCADE in every portfolio
DeleteInstrument(i) ==
    /\ i \in instruments /\ \A p \in Portfolio : i \notin Locked(p)
    /\ instruments' = instruments \ {i}
    /\ ledger' = Without({t \in Txn : ledger[t] # None /\ ledger[t].ins = i})
    /\ positions' = [p \in Portfolio |-> [positions[p] EXCEPT ![i] = NoPosition]]
    /\ rows' = [r \in Request |-> rows[r] \ {i}]
    /\ UNCHANGED <<portfolios, pc, target, entity, snap, unsettled>>

\* The backend process dies and is restarted; open transactions are rolled back.
Crash ==
    /\ \E r \in Request : pc[r] # "idle"
    /\ unsettled' = [p \in Portfolio |->
           unsettled[p] \/ (p \in portfolios /\ \E r \in InFlight(p) : pc[r] \in RecalcSteps)]
    /\ pc' = [r \in Request |-> "idle"]
    /\ target' = [r \in Request |-> None]
    /\ entity' = [r \in Request |-> None]
    /\ snap' = [r \in Request |-> NoSnap]
    /\ rows' = [r \in Request |-> {}]
    /\ UNCHANGED tables

--------------------------------------------------------------------------------
InputRow(p) == [pf : {p}, ins : Instrument, type : UsedType, units : UnitValue]

Start(r, p) ==
    \/ \E row \in InputRow(p) : Create(r, p, row)
    \/ \E S \in SUBSET Instrument : \E bought \in [S -> UnitValue] :
          ApplyTemplateBuy(r, p, bought)
    \/ \E t \in Txn, i \in Instrument, type \in UsedType \cup {None},
          units \in UnitValue \cup {None} : UpdateFind(r, p, t, i, type, units)
    \/ \E t \in Txn : RemoveFind(r, p, t)
    \/ ClearAll(r, p)
    \/ Recalculate(r, p)
    \/ \E i \in Instrument, units \in UnitValue : UpsertFind(r, p, i, units)

Continue(r) ==
    \/ SaveReload(r) \/ SaveUpdate(r) \/ SaveInsert(r) \/ SaveFails(r)
    \/ RemoveWrite(r)
    \/ Select(r) \/ SelectFails(r)
    \/ DeleteBegins(r) \/ DeleteEnds(r) \/ Commit(r) \/ Rollback(r)
    \/ UpsertSave(r) \/ UpsertFails(r)

Administer(p) ==
    \/ \E i \in Instrument : RemovePosition(p, i)
    \/ ClearPositions(p)
    \/ CreatePortfolio(p)
    \/ \E T \in SUBSET Txn : \E imported \in [T -> InputRow(p)] :
          ImportPortfolio(p, T, imported)
    \/ DeletePortfolio(p)

Next ==
    \/ \E r \in Request : (\E p \in Portfolio : Start(r, p)) \/ Continue(r)
    \/ \E p \in Portfolio : Administer(p)
    \/ \E i \in Instrument : DeleteInstrument(i)
    \/ Crash

Spec == Init /\ [][Next]_vars

\* Node runs the handlers to their end; nothing makes a client send a request.
\* PostgreSQL queues the transactions that wait for a row lock, so a request that
\* can proceed again and again is not passed over for ever by later ones.
FairSpec == Spec /\ \A r \in Request : SF_vars(Continue(r))

--------------------------------------------------------------------------------
(* Properties.                                                                  *)

\* Type invariant: the tables hold rows of their types (units and positions fit
\* NUMERIC(18,6), no stored position is negative) and the handlers' local state
\* is what each of their steps expects.
TypeOK ==
    /\ portfolios \subseteq Portfolio
    /\ instruments \subseteq Instrument
    /\ ledger \in [Txn -> Row \cup {None}]
    /\ positions \in [Portfolio -> [Instrument -> 0..MaxUnits]]
    /\ pc \in [Request -> Steps]
    /\ target \in [Request -> Portfolio \cup {None}]
    /\ entity \in [Request -> Entity \cup {None}]
    /\ DOMAIN snap = Request
    /\ \A r \in Request : /\ DOMAIN snap[r] = Instrument
                          /\ \A i \in Instrument : snap[r][i] = NoPosition \/ snap[r][i] > 0
    /\ rows \in [Request -> SUBSET Instrument]
    /\ unsettled \in [Portfolio -> BOOLEAN]
    /\ \A r \in Request : /\ pc[r] = "idle" <=> target[r] = None
                          /\ pc[r] \in {"save", "write", "insert", "unlink"} <=> entity[r] # None

\* Once the requests about a portfolio have ended, its positions are exactly
\* what its ledger adds up to, unless the last recalculation was cut short by a
\* crash or a failed statement, or the positions were edited by hand or the
\* ledger imported since.  This is the promise that positions are a rebuilt copy
\* of the ledger, and that a recalculation repairs them whatever was done to
\* them; requests on other portfolios, deletions of instruments and failed
\* requests may interleave with it.
LedgerPositionsAgree ==
    \A p \in portfolios :
        InFlight(p) = {} /\ ~unsettled[p] => positions[p] = HoldingsOf(p)

\* Every row of the ledger but a FEE_CONSOLIDATION has a positive number of
\* units, and no FEE_CONSOLIDATION has none: the service validates each change
\* against a type that it read before it writes.
LedgerUnitsValid ==
    \A t \in Txn : ledger[t] # None => ValidUnits(ledger[t].type, ledger[t].units)

\* A recalculation that commits leaves the portfolio with the rows it inserted
\* and no others: the replacement of the old rows is whole, even though the
\* DELETE and the INSERTs are statements of their own.
ReplaceIsWhole ==
    [][\A r \in Request : Commit(r) =>
         \A i \in Instrument : positions'[target[r]][i] = snap[r][i]]_vars

\* A row of the ledger is changed or deleted only by a request about the row's
\* own portfolio, or with its portfolio or its instrument; in particular an
\* update or a removal that names another portfolio's transaction does nothing.
\* And unless an instrument goes, a step changes the positions of one portfolio
\* only: of the one its request is about, when it is a step of a request.
ForeignRowsUntouched ==
    [][/\ \A t \in Txn :
            ledger[t] # None /\ ledger'[t] # ledger[t] =>
               \/ \E r \in Request : pc'[r] # pc[r] /\ ledger[t].pf \in {target[r], target'[r]}
               \/ ledger[t].pf \notin portfolios'
               \/ ledger[t].ins \notin instruments'
       /\ \A p \in Portfolio :
            positions'[p] # positions[p] /\ instruments' = instruments =>
               /\ \A q \in Portfolio \ {p} : positions'[q] = positions[q]
               /\ \A r \in Request : pc'[r] # pc[r] => target[r] = p]_vars

\* Every request is answered: the row locks of overlapping recalculations never
\* leave two requests waiting for each other.
RequestsFinish == \A r \in Request : pc[r] # "idle" ~> pc[r] = "idle"

================================================================================
