------------------------- MODULE PortfolioLedgerProofs -------------------------
(***************************************************************************)
(* Proofs about PortfolioLedger: type correctness and, whatever clients    *)
(* do, that a request changes the rows of its own portfolio only; for      *)
(* clients that wait for their answers, that the rows of the ledger have   *)
(* valid units, that a recalculation replaces every position of its        *)
(* portfolio, and that the positions of a portfolio agree with its ledger: *)
(* requests on other portfolios, imports, deletions, positions put by hand *)
(* and crashes interleave at will.                                         *)
(***************************************************************************)
EXTENDS LedgerHistory, TLAPS

\* What the SELECT returns has one entry for each instrument, none of them
\* negative: HAVING drops the others.
LEMMA HoldingsPositive ==
  \A p : /\ DOMAIN HoldingsOf(p) = Instrument
         /\ \A i \in Instrument : HoldingsOf(p)[i] = NoPosition \/ HoldingsOf(p)[i] > 0
  BY DEF HoldingsOf

\* The initial database and idle request slots have their types.
LEMMA InitTypeOK == Init => TypeOK
  BY ConstantsAssumption DEF Init, TypeOK, NoSnap, NoPosition, Steps, RecalcSteps

LEMMA StartTypeOK ==
  ASSUME NEW r \in Request, NEW p \in Portfolio, TypeOK, Start(r, p)
  PROVE  TypeOK'
<1> USE ConstantsAssumption DEF TypeOK, Enter, tables, Steps, RecalcSteps, Entity
<1>1. ASSUME NEW row \in InputRow(p), Create(r, p, row) PROVE TypeOK'
  <2>1. row \in Row
    BY <1>1 DEF InputRow, Row
  <2>2. ledger' \in [Txn -> Row \cup {None}]
    BY <1>1, <2>1 DEF Create, FreeTxns
  <2>. QED BY <1>1, <2>2 DEF Create
<1>2. ASSUME NEW S \in SUBSET Instrument, NEW bought \in [S -> UnitValue],
             ApplyTemplateBuy(r, p, bought)
      PROVE TypeOK'
  <2>1. ledger' \in [Txn -> Row \cup {None}]
    BY <1>2 DEF ApplyTemplateBuy, Row, Bijection, Surjection, Injection, TransactionType
  <2>. QED BY <1>2, <2>1 DEF ApplyTemplateBuy
<1>3. ASSUME NEW t \in Txn, NEW i \in Instrument, NEW type \in UsedType \cup {None},
             NEW units \in UnitValue \cup {None}, UpdateFind(r, p, t, i, type, units)
      PROVE TypeOK'
  <2>1. entity'[r] \in Entity /\ entity' \in [Request -> Entity \cup {None}]
    BY <1>3 DEF UpdateFind, Row
  <2>. QED BY <1>3, <2>1 DEF UpdateFind
<1>4. ASSUME NEW t \in Txn, RemoveFind(r, p, t) PROVE TypeOK'
  <2>1. entity'[r] \in Entity /\ entity' \in [Request -> Entity \cup {None}]
    BY <1>4 DEF RemoveFind
  <2>. QED BY <1>4, <2>1 DEF RemoveFind
<1>5. CASE ClearAll(r, p)
  BY <1>5 DEF ClearAll, Without
<1>6. CASE Recalculate(r, p)
  BY <1>6 DEF Recalculate
<1>7. ASSUME NEW i \in Instrument, NEW units \in UnitValue, UpsertFind(r, p, i, units)
      PROVE TypeOK'
  BY <1>7 DEF UpsertFind, NoSnap, Stored
<1>. QED BY <1>1, <1>2, <1>3, <1>4, <1>5, <1>6, <1>7 DEF Start

\* Some columns of the entity, the others of the row.
LEMMA WrittenRow ==
  ASSUME NEW f, f.row \in Row, ledger[f.txn] \in Row
  PROVE  Written(f) \in Row
<1> DEFINE m == Written(f)
<1>1. /\ DOMAIN m = {"pf", "ins", "type", "units"}
      /\ m = [c \in {"pf", "ins", "type", "units"} |->
               IF c \in f.cols THEN f.row[c] ELSE ledger[f.txn][c]]
  BY DEF Row, Written
<1>2. /\ m.pf \in Portfolio /\ m.ins \in Instrument
      /\ m.type \in TransactionType /\ m.units \in UnitValue
  BY <1>1 DEF Row
<1>3. m = [pf |-> m.pf, ins |-> m.ins, type |-> m.type, units |-> m.units]
  BY <1>1
<1>. QED BY <1>2, <1>3 DEF Row

LEMMA ContinueTypeOK ==
  ASSUME NEW r \in Request, TypeOK, Continue(r)
  PROVE  TypeOK'
<1> USE ConstantsAssumption DEF TypeOK, Finish, tables, Steps, RecalcSteps
<1> DEFINE e == entity[r]
<1>1. CASE SaveReload(r)
  <2>1. e \in Entity
    BY <1>1 DEF SaveReload
  <2>2. CASE ledger[e.txn] = None /\ UNCHANGED entity
    BY <1>1, <2>2 DEF SaveReload
  <2>3. CASE entity' = [entity EXCEPT ![r].cols = {c \in Column : ledger[e.txn][c] # e.row[c]}]
    <3>1. entity'[r] = [txn |-> e.txn, row |-> e.row,
                        cols |-> {c \in Column : ledger[e.txn][c] # e.row[c]}]
      BY <2>1, <2>3 DEF Entity
    <3>2. entity'[r] \in Entity /\ entity' \in [Request -> Entity \cup {None}]
      BY <2>1, <2>3, <3>1 DEF Entity
    <3>3. /\ pc' = [pc EXCEPT ![r] = "write"] \/ pc' = [pc EXCEPT ![r] = "insert"]
          /\ UNCHANGED <<tables, target, snap, rows, unsettled>>
          /\ pc[r] = "save"
      BY <1>1 DEF SaveReload
    <3>4. \A q \in Request : /\ pc'[q] \in Steps
                             /\ pc'[q] = "idle" <=> target'[q] = None
      BY <3>3
    <3>5. \A q \in Request :
            pc'[q] \in {"save", "write", "insert", "unlink"} <=> entity'[q] # None
      <4>0. entity'[r] # None
        BY <3>2 DEF Entity
      <4>1. pc'[r] \in {"write", "insert"}
        BY <3>3
      <4>2. \A q \in Request \ {r} : entity'[q] = entity[q] /\ pc'[q] = pc[q]
        BY <2>3, <3>3
      <4>. QED BY <4>0, <4>1, <4>2
    <3>. QED BY <3>2, <3>3, <3>4, <3>5
  <2>. QED BY <1>1, <2>2, <2>3 DEF SaveReload
<1>2. CASE SaveUpdate(r)
  <2>1. e \in Entity
    BY <1>2 DEF SaveUpdate
  <2>2. ASSUME ledger[e.txn] # None PROVE Written(e) \in Row
    <3>1. e.row \in Row /\ ledger[e.txn] \in Row
      BY <2>1, <2>2 DEF Entity
    <3>. QED BY <3>1, WrittenRow
  <2>3. ledger' \in [Txn -> Row \cup {None}]
    BY <1>2, <2>1, <2>2 DEF SaveUpdate, Entity
  <2>. QED BY <1>2, <2>3 DEF SaveUpdate
<1>3. CASE SaveInsert(r)
  BY <1>3 DEF SaveInsert, Entity
<1>4. CASE SaveFails(r)
  BY <1>4 DEF SaveFails, NoSnap
<1>5. CASE RemoveWrite(r)
  BY <1>5 DEF RemoveWrite, Entity
<1>6. CASE Select(r)
  BY <1>6, HoldingsPositive DEF Select
<1>7. CASE SelectFails(r)
  BY <1>7 DEF SelectFails, NoSnap
<1>8. CASE DeleteBegins(r)
  BY <1>8 DEF DeleteBegins, Stored
<1>9. CASE DeleteEnds(r)
  BY <1>9 DEF DeleteEnds
<1>10. CASE Commit(r)
  <2>1. target[r] \in Portfolio /\ pc[r] = "commit"
    BY <1>10 DEF Commit, InsertsReady
  <2>2. \A i \in Instrument : snap[r][i] \in 0..MaxUnits
    BY <1>10 DEF Commit, InsertsValid, NoPosition
  <2>3. positions' \in [Portfolio -> [Instrument -> 0..MaxUnits]]
    BY <1>10, <2>1, <2>2 DEF Commit, NoPosition
  <2>4. rows' \in [Request -> SUBSET Instrument]
    BY <1>10 DEF Commit, RowsGone
  <2>5. snap'[r] = NoSnap /\ \A q \in Request \ {r} : snap'[q] = snap[q]
    BY <1>10 DEF Commit
  <2>6. DOMAIN snap' = Request /\ unsettled' \in [Portfolio -> BOOLEAN]
    BY <1>10, <2>1 DEF Commit
  <2>. QED BY <1>10, <2>1, <2>3, <2>4, <2>5, <2>6 DEF Commit, NoSnap
<1>11. CASE Rollback(r)
  BY <1>11 DEF Rollback, InsertsReady, NoSnap
<1>12. CASE UpsertSave(r)
  BY <1>12 DEF UpsertSave, UpsertReady, UpsertValid, NoSnap
<1>13. CASE UpsertFails(r)
  BY <1>13 DEF UpsertFails, UpsertReady, NoSnap
<1>. QED
  BY <1>1, <1>2, <1>3, <1>4, <1>5, <1>6, <1>7, <1>8, <1>9, <1>10, <1>11, <1>12, <1>13
  DEF Continue

LEMMA AdministerTypeOK ==
  ASSUME NEW p \in Portfolio, TypeOK, Administer(p)
  PROVE  TypeOK'
<1> USE ConstantsAssumption DEF TypeOK, requests
<1>1. ASSUME NEW I \in SUBSET Instrument, ErasePositions(p, I) PROVE TypeOK'
  BY <1>1 DEF ErasePositions, RowsGone, NoPosition
<1>2. CASE CreatePortfolio(p)
  BY <1>2 DEF CreatePortfolio
<1>3. ASSUME NEW T \in SUBSET Txn, NEW imported \in [T -> InputRow(p)],
             ImportPortfolio(p, T, imported)
      PROVE TypeOK'
  <2>1. \A t \in T : imported[t] \in Row
    BY DEF InputRow, Row
  <2>. QED BY <1>3, <2>1 DEF ImportPortfolio
<1>4. CASE DeletePortfolio(p)
  BY <1>4 DEF DeletePortfolio, Without, RowsGone, NoSnap, NoPosition
<1>. QED
  BY <1>1, <1>2, <1>3, <1>4
  DEF Administer, RemovePosition, ClearPositions, Stored

LEMMA DeleteInstrumentTypeOK ==
  ASSUME NEW i \in Instrument, TypeOK, DeleteInstrument(i)
  PROVE  TypeOK'
  BY ConstantsAssumption DEF TypeOK, DeleteInstrument, Without, NoPosition

LEMMA CrashTypeOK == TypeOK /\ Crash => TypeOK'
  BY ConstantsAssumption DEF TypeOK, Crash, tables, NoSnap, Steps

LEMMA StutterTypeOK == TypeOK /\ UNCHANGED vars => TypeOK'
  BY DEF TypeOK, vars

LEMMA NextTypeOK == TypeOK /\ [Next]_vars => TypeOK'
  BY StartTypeOK, ContinueTypeOK, AdministerTypeOK, DeleteInstrumentTypeOK,
     CrashTypeOK, StutterTypeOK
  DEF Next

\* For all constants: the tables and the handlers' local state keep their types.
\* In particular no interleaving stores a position that is negative or that does
\* not fit its column.
THEOREM TypeCorrect == Spec => []TypeOK
<1>1. Init => TypeOK
  BY InitTypeOK
<1>2. TypeOK /\ [Next]_vars => TypeOK'
  BY NextTypeOK
<1>. QED BY <1>1, <1>2, PTL DEF Spec

--------------------------------------------------------------------------------
(* What one step does to the rows of the ledger and to the transactions that    *)
(* requests have read.                                                          *)

\* Request q stores the transaction t it has read, over the row or as a new one.
SavedBy(q, t) ==
    /\ entity[q] # None /\ entity[q].txn = t
    /\ pc'[q] # pc[q] /\ entity'[q] = None
    /\ \/ pc[q] = "write" /\ ledger[t] # None /\ ledger'[t] = Written(entity[q])
       \/ pc[q] = "insert" /\ ledger[t] = None /\ ledger'[t] = entity[q].row

\* The row t goes: with a request that has read it or that clears its portfolio,
\* or with its portfolio or its instrument.
Removed(t) ==
    /\ ledger'[t] = None
    /\ \/ \E q \in Request : entity[q] # None /\ entity[q].txn = t /\ pc'[q] # pc[q]
       \/ \E q \in Request : pc'[q] # pc[q] /\ ledger[t].pf = target'[q]
       \/ ledger[t].pf \notin portfolios'
       \/ ledger[t].ins \notin instruments'

Added(t) ==
    /\ t \in FreeTxns
    /\ ledger'[t] # None /\ ValidUnits(ledger'[t].type, ledger'[t].units)

RowStep(t) ==
    \/ ledger'[t] = ledger[t]
    \/ \E q \in Request : SavedBy(q, t)
    \/ Removed(t)
    \/ Added(t)

\* Request q has read a transaction of the portfolio it is about.
Found(q) ==
    /\ ledger' = ledger
    /\ ledger[entity'[q].txn] # None /\ ledger[entity'[q].txn].pf = target'[q]
    /\ entity'[q].row.pf = target'[q]
    /\ \/ pc'[q] = "unlink"
       \/ /\ pc'[q] = "save"
          /\ \/ "partialUpdate" \in Behaviour
             \/ ValidUnits(entity'[q].row.type, entity'[q].row.units)

\* save has read the row again; the columns that are as it wants them are left.
Reloaded(q) ==
    /\ ledger' = ledger /\ pc[q] = "save" /\ pc'[q] \in {"write", "insert"}
    /\ entity[q] # None /\ entity'[q].txn = entity[q].txn /\ entity'[q].row = entity[q].row
    /\ target'[q] = target[q]
    /\ pc'[q] = "write" => \A c \in Column \ entity'[q].cols :
                             ledger[entity[q].txn][c] = entity[q].row[c]

EntityStep(q) ==
    \/ entity'[q] = None
    \/ entity'[q] = entity[q] /\ target'[q] = target[q] /\ pc'[q] = pc[q]
    \/ Found(q)
    \/ Reloaded(q)

Frame == (\A t \in Txn : RowStep(t)) /\ (\A q \in Request : EntityStep(q))

\* The first half of a handler that commits new or cleared rows, or reads one.
LEMMA StartFrame ==
  ASSUME TypeOK, NEW r \in Request, NEW p \in Portfolio, Start(r, p)
  PROVE  Frame
<1> USE ConstantsAssumption
<1>0. \A q \in Request : pc[q] = "idle" => entity[q] = None
  BY DEF TypeOK
<1>a. ASSUME pc[r] = "idle", Enter(r, p, "recalc"), UNCHANGED entity
      PROVE  \A q \in Request : EntityStep(q)
  BY <1>a, <1>0 DEF TypeOK, Enter, EntityStep
<1>1. ASSUME NEW row \in InputRow(p), Create(r, p, row) PROVE Frame
  <2>1. row # None
    BY DEF InputRow, Row
  <2>2. \A t \in Txn : RowStep(t)
    BY <1>1, <2>1 DEF TypeOK, Create, RowStep, Added, FreeTxns
  <2>. QED BY <1>1, <1>a, <2>2 DEF Create, Frame
<1>2. ASSUME NEW S \in SUBSET Instrument, NEW bought \in [S -> UnitValue],
             ApplyTemplateBuy(r, p, bought)
      PROVE Frame
  <2>1. ASSUME NEW t \in Txn PROVE RowStep(t)
    <3>1. PICK T \in SUBSET FreeTxns : \E lot \in Bijection(T, S) :
            ledger' = [u \in Txn |->
               IF u \in T
               THEN [pf |-> p, ins |-> lot[u], type |-> "BUY", units |-> bought[lot[u]]]
               ELSE ledger[u]]
      BY <1>2 DEF ApplyTemplateBuy
    <3>2. PICK lot \in Bijection(T, S) :
            ledger' = [u \in Txn |->
               IF u \in T
               THEN [pf |-> p, ins |-> lot[u], type |-> "BUY", units |-> bought[lot[u]]]
               ELSE ledger[u]]
      BY <3>1
    <3>3. CASE t \notin T
      BY <3>2, <3>3 DEF RowStep
    <3>4. CASE t \in T
      <4>1. lot[t] \in S
        BY <3>4 DEF Bijection, Surjection, Injection
      <4>2. /\ ledger'[t] = [pf |-> p, ins |-> lot[t], type |-> "BUY",
                             units |-> bought[lot[t]]]
            /\ bought[lot[t]] > 0
        BY <1>2, <3>2, <3>4, <4>1 DEF ApplyTemplateBuy
      <4>3. ledger'[t] \in Row
        BY <4>1, <4>2 DEF Row, TransactionType
      <4>4. ValidUnits(ledger'[t].type, ledger'[t].units)
        BY <4>2 DEF ValidUnits
      <4>. QED BY <3>4, <4>3, <4>4 DEF RowStep, Added
    <3>. QED BY <3>3, <3>4
  <2>. QED BY <1>2, <1>a, <2>1 DEF ApplyTemplateBuy, Frame
<1>3. ASSUME NEW t \in Txn, NEW i \in Instrument, NEW type \in UsedType \cup {None},
             NEW units \in UnitValue \cup {None}, UpdateFind(r, p, t, i, type, units)
      PROVE Frame
  <2>1. /\ entity'[r].txn = t /\ entity'[r].row.pf = p /\ target'[r] = p /\ pc'[r] = "save"
        /\ ledger' = ledger /\ ledger[t] # None /\ ledger[t].pf = p
        /\ \/ "partialUpdate" \in Behaviour
           \/ ValidUnits(entity'[r].row.type, entity'[r].row.units)
    BY <1>3 DEF UpdateFind, TypeOK, Enter, tables
  <2>2. Found(r)
    BY <2>1 DEF Found
  <2>3. \A q \in Request \ {r} :
          entity'[q] = entity[q] /\ target'[q] = target[q] /\ pc'[q] = pc[q]
    BY <1>3 DEF UpdateFind, Enter, TypeOK
  <2>. QED BY <2>1, <2>2, <2>3 DEF Frame, RowStep, EntityStep
<1>4. ASSUME NEW t \in Txn, RemoveFind(r, p, t) PROVE Frame
  <2>1. /\ entity'[r].txn = t /\ entity'[r].row.pf = p /\ target'[r] = p /\ pc'[r] = "unlink"
        /\ ledger' = ledger /\ ledger[t] # None /\ ledger[t].pf = p
    BY <1>4 DEF RemoveFind, TypeOK, Enter, tables
  <2>2. Found(r)
    BY <2>1 DEF Found
  <2>3. \A q \in Request \ {r} :
          entity'[q] = entity[q] /\ target'[q] = target[q] /\ pc'[q] = pc[q]
    BY <1>4 DEF RemoveFind, Enter, TypeOK
  <2>. QED BY <2>1, <2>2, <2>3 DEF Frame, RowStep, EntityStep
<1>5. CASE ClearAll(r, p)
  <2>1. pc[r] = "idle" /\ pc'[r] = "recalc" /\ target'[r] = p
    BY <1>5 DEF ClearAll, Enter, TypeOK
  <2>2. \A t \in Txn : RowStep(t)
    BY <1>5, <2>1 DEF ClearAll, Without, TxnsOf, RowStep, Removed
  <2>. QED BY <1>5, <1>a, <2>2 DEF ClearAll, Frame
<1>6. CASE Recalculate(r, p)
  BY <1>6, <1>a DEF Recalculate, Frame, RowStep, tables
<1>7. ASSUME NEW i \in Instrument, NEW units \in UnitValue, UpsertFind(r, p, i, units)
      PROVE Frame
  BY <1>7, <1>0 DEF UpsertFind, Frame, RowStep, EntityStep, Enter, TypeOK, tables
<1>. QED BY <1>1, <1>2, <1>3, <1>4, <1>5, <1>6, <1>7 DEF Start

LEMMA ContinueFrame ==
  ASSUME TypeOK, NEW r \in Request, Continue(r)
  PROVE  Frame
<1> USE ConstantsAssumption DEF TypeOK
<1> DEFINE e == entity[r]
<1>0. \A q \in Request : pc[q] \notin {"save", "write", "insert", "unlink"} => entity[q] = None
  OBVIOUS
<1>a. ASSUME UNCHANGED ledger, entity'[r] = None,
             \A q \in Request \ {r} :
               entity'[q] = entity[q] /\ target'[q] = target[q] /\ pc'[q] = pc[q]
      PROVE  Frame
  BY <1>a DEF Frame, RowStep, EntityStep
<1>b. ASSUME e # None => e.txn \in Txn, entity'[r] = None, pc'[r] # pc[r],
             \A t \in Txn : \/ ledger'[t] = ledger[t]
                            \/ SavedBy(r, t)
                            \/ Removed(t),
             \A q \in Request \ {r} :
               entity'[q] = entity[q] /\ target'[q] = target[q] /\ pc'[q] = pc[q]
      PROVE  Frame
  BY <1>b DEF Frame, RowStep, EntityStep
<1>1. CASE SaveReload(r)
  <2>1. e \in Entity /\ ledger' = ledger /\ target' = target /\ pc[r] = "save"
    BY <1>1 DEF SaveReload, tables
  <2>2. \A q \in Request \ {r} : entity'[q] = entity[q] /\ pc'[q] = pc[q]
    BY <1>1 DEF SaveReload
  <2>3. CASE ledger[e.txn] = None /\ UNCHANGED entity /\ pc' = [pc EXCEPT ![r] = "insert"]
    <3>1. Reloaded(r)
      BY <2>1, <2>3 DEF Reloaded
    <3>. QED BY <2>1, <2>2, <3>1 DEF Frame, RowStep, EntityStep
  <2>4. CASE /\ entity' = [entity EXCEPT ![r].cols = {c \in Column : ledger[e.txn][c] # e.row[c]}]
             /\ pc' = [pc EXCEPT ![r] = "write"]
    <3>1. /\ entity'[r].txn = e.txn /\ entity'[r].row = e.row
          /\ entity'[r].cols = {c \in Column : ledger[e.txn][c] # e.row[c]}
      BY <2>1, <2>4 DEF Entity
    <3>2. Reloaded(r)
      BY <2>1, <2>4, <3>1 DEF Reloaded
    <3>. QED BY <2>1, <2>2, <3>2 DEF Frame, RowStep, EntityStep
  <2>. QED BY <1>1, <2>3, <2>4 DEF SaveReload
<1>2. CASE SaveUpdate(r)
  <2>1. e \in Entity /\ e # None /\ pc[r] = "write" /\ pc'[r] = "recalc" /\ entity'[r] = None
    BY <1>2 DEF SaveUpdate
  <2>2. ASSUME NEW t \in Txn PROVE ledger'[t] = ledger[t] \/ SavedBy(r, t)
    BY <1>2, <2>1 DEF SaveUpdate, SavedBy, Entity
  <2>. QED BY <1>2, <1>b, <2>1, <2>2 DEF SaveUpdate, Entity
<1>3. CASE SaveInsert(r)
  <2>1. e \in Entity /\ e # None /\ pc[r] = "insert" /\ pc'[r] = "recalc" /\ entity'[r] = None
    BY <1>3 DEF SaveInsert
  <2>2. ASSUME NEW t \in Txn PROVE ledger'[t] = ledger[t] \/ SavedBy(r, t)
    BY <1>3, <2>1 DEF SaveInsert, SavedBy, Entity
  <2>. QED BY <1>3, <1>b, <2>1, <2>2 DEF SaveInsert, Entity
<1>4. CASE SaveFails(r)
  BY <1>4, <1>a DEF SaveFails, Finish, tables
<1>5. CASE RemoveWrite(r)
  <2>1. e \in Entity /\ e # None /\ pc[r] = "unlink" /\ pc'[r] = "recalc" /\ entity'[r] = None
    BY <1>5 DEF RemoveWrite
  <2>2. ASSUME NEW t \in Txn PROVE ledger'[t] = ledger[t] \/ Removed(t)
    BY <1>5, <2>1 DEF RemoveWrite, Removed, Entity
  <2>. QED BY <1>5, <1>b, <2>1, <2>2 DEF RemoveWrite, Entity
<1>6. CASE Select(r) \/ DeleteBegins(r) \/ DeleteEnds(r)
  BY <1>6, <1>0, <1>a DEF Select, DeleteBegins, DeleteEnds, tables
<1>7. CASE SelectFails(r) \/ Rollback(r) \/ UpsertFails(r)
  BY <1>7, <1>a DEF SelectFails, Rollback, UpsertFails, Finish, tables
<1>8. CASE Commit(r) \/ UpsertSave(r)
  BY <1>8, <1>a DEF Commit, UpsertSave, Finish
<1>. QED BY <1>1, <1>2, <1>3, <1>4, <1>5, <1>6, <1>7, <1>8 DEF Continue

LEMMA NextFrame ==
  ASSUME TypeOK, [Next]_vars
  PROVE  Frame
<1> USE ConstantsAssumption
<1>a. ASSUME UNCHANGED <<ledger, entity, target, pc>> PROVE Frame
  BY <1>a DEF Frame, RowStep, EntityStep
<1>1. ASSUME NEW p \in Portfolio, Administer(p) PROVE Frame
  <2>1. ASSUME NEW I, ErasePositions(p, I) PROVE Frame
    BY <2>1, <1>a DEF ErasePositions
  <2>2. CASE CreatePortfolio(p)
    BY <2>2, <1>a DEF CreatePortfolio, requests
  <2>3. ASSUME NEW T \in SUBSET Txn, NEW imported \in [T -> InputRow(p)],
               ImportPortfolio(p, T, imported)
        PROVE Frame
    <3>1. \A t \in T : imported[t] # None
      BY DEF InputRow, Row
    <3>2. \A t \in Txn : RowStep(t)
      BY <2>3, <3>1 DEF ImportPortfolio, RowStep, Added
    <3>. QED BY <2>3, <3>2 DEF ImportPortfolio, requests, Frame, EntityStep
  <2>4. CASE DeletePortfolio(p)
    <3>1. \A t \in Txn : RowStep(t)
      BY <2>4 DEF DeletePortfolio, Without, TxnsOf, RowStep, Removed
    <3>. QED BY <2>4, <3>1 DEF DeletePortfolio, Frame, EntityStep
  <2>. QED BY <1>1, <2>1, <2>2, <2>3, <2>4 DEF Administer, RemovePosition, ClearPositions
<1>2. ASSUME NEW i \in Instrument, DeleteInstrument(i) PROVE Frame
  <2>1. \A t \in Txn : RowStep(t)
    BY <1>2 DEF DeleteInstrument, Without, RowStep, Removed
  <2>. QED BY <1>2, <2>1 DEF DeleteInstrument, Frame, EntityStep
<1>3. CASE Crash
  BY <1>3 DEF Crash, tables, Frame, RowStep, EntityStep
<1>4. CASE UNCHANGED vars
  BY <1>4, <1>a DEF vars
<1>. QED BY <1>1, <1>2, <1>3, <1>4, StartFrame, ContinueFrame DEF Next

--------------------------------------------------------------------------------
(* Whatever clients do, a request changes rows of its own portfolio only.       *)

\* The transaction a request has read stays in the portfolio the request is
\* about, and requests that have read the same transaction are about the same
\* portfolio.
HeldInOwn ==
    /\ \A r \in Request : entity[r] # None =>
         /\ entity[r].row.pf = target[r]
         /\ ledger[entity[r].txn] # None => ledger[entity[r].txn].pf = target[r]
    /\ \A q, r \in Request :
         entity[q] # None /\ entity[r] # None /\ entity[q].txn = entity[r].txn =>
            target[q] = target[r]

\* save never writes the portfolio of a row.
LEMMA WrittenKeepsPortfolio ==
  ASSUME NEW f, f \in Entity, ledger[f.txn] \in Row
  PROVE  Written(f).pf = ledger[f.txn].pf
<1>1. f.cols \subseteq Column /\ "pf" \in DOMAIN f.row
  BY DEF Entity, Row
<1>2. "pf" \notin Column
  BY DEF Column
<1>. QED BY <1>1, <1>2 DEF Written

\* A row that is there after a step was there before in the same portfolio, or
\* was stored by a request that had read it, or is new.
LEMMA RowKeepsPortfolio ==
  ASSUME TypeOK, HeldInOwn, Frame, NEW t \in Txn, ledger'[t] # None
  PROVE  \/ ledger[t] # None /\ ledger'[t].pf = ledger[t].pf
         \/ \E q \in Request : /\ entity[q] # None /\ entity[q].txn = t
                              /\ ledger'[t].pf = target[q]
         \/ t \in FreeTxns
<1> USE ConstantsAssumption
<1>1. CASE ledger'[t] = ledger[t]
  BY <1>1
<1>2. ASSUME NEW q \in Request, SavedBy(q, t)
      PROVE  \/ ledger[t] # None /\ ledger'[t].pf = ledger[t].pf
             \/ ledger'[t].pf = target[q]
  <2>1. entity[q] \in Entity /\ entity[q].txn = t
    BY <1>2 DEF SavedBy, TypeOK
  <2>2. CASE ledger[t] # None /\ ledger'[t] = Written(entity[q])
    BY <2>1, <2>2, WrittenKeepsPortfolio DEF TypeOK
  <2>3. CASE ledger'[t] = entity[q].row
    BY <1>2, <2>3 DEF SavedBy, HeldInOwn
  <2>. QED BY <1>2, <2>2, <2>3 DEF SavedBy
<1>3. CASE Added(t)
  BY <1>3 DEF Added
<1>. QED BY <1>1, <1>2, <1>3 DEF Frame, RowStep, Removed, SavedBy

LEMMA FrameHeldInOwn ==
  ASSUME TypeOK, TypeOK', HeldInOwn, Frame
  PROVE  HeldInOwn'
<1> USE ConstantsAssumption
<1> DEFINE Kept(q) == /\ entity[q] # None /\ entity'[q].txn = entity[q].txn
                      /\ entity'[q].row = entity[q].row /\ target'[q] = target[q]
<1>1. ASSUME NEW q \in Request, entity'[q] # None PROVE Kept(q) \/ Found(q)
  BY <1>1 DEF Frame, EntityStep, Reloaded
<1>2. \A q \in Request : /\ entity[q] # None => entity[q].txn \in Txn
                         /\ entity'[q] # None => entity'[q].txn \in Txn
  BY DEF TypeOK, Entity
<1>3. ASSUME NEW q \in Request, entity'[q] # None
      PROVE  /\ entity'[q].row.pf = target'[q]
             /\ ledger'[entity'[q].txn] # None => ledger'[entity'[q].txn].pf = target'[q]
  <2>1. CASE Found(q)
    BY <2>1 DEF Found
  <2>2. CASE Kept(q)
    <3>1. entity'[q].row.pf = target'[q]
      BY <2>2 DEF HeldInOwn
    <3>2. ASSUME ledger'[entity[q].txn] # None
          PROVE  ledger'[entity[q].txn].pf = target[q]
      <4>1. entity[q].txn \notin FreeTxns
        BY <2>2 DEF FreeTxns
      <4>2. PICK t \in Txn : t = entity[q].txn
        BY <1>2, <2>2
      <4>. QED BY <2>2, <3>2, <4>1, <4>2, RowKeepsPortfolio DEF HeldInOwn
    <3>. QED BY <2>2, <3>1, <3>2
  <2>. QED BY <1>1, <1>3, <2>1, <2>2
<1>4. ASSUME NEW q \in Request, NEW r \in Request, entity'[q] # None, entity'[r] # None,
             entity'[q].txn = entity'[r].txn
      PROVE  target'[q] = target'[r]
  <2>1. CASE Kept(q) /\ Kept(r)
    BY <1>4, <2>1 DEF HeldInOwn
  <2>2. CASE Found(q) \/ Found(r)
    <3>1. ledger' = ledger /\ ledger'[entity'[q].txn] # None
      BY <1>4, <2>2 DEF Found
    <3>. QED BY <1>3, <1>4, <3>1
  <2>. QED BY <1>1, <1>4, <2>1, <2>2
<1>. QED BY <1>3, <1>4 DEF HeldInOwn

\* A step of a request leaves the positions of every portfolio but its own.
LEMMA ContinueAtHome ==
  ASSUME TypeOK, NEW r \in Request, Continue(r)
  PROVE  /\ \A q \in Portfolio : q # target[r] => positions'[q] = positions[q]
         /\ \A q \in Request \ {r} : pc'[q] = pc[q]
<1> USE ConstantsAssumption DEF TypeOK
<1>1. CASE SaveReload(r) \/ SaveUpdate(r) \/ SaveInsert(r) \/ SaveFails(r)
  BY <1>1 DEF SaveReload, SaveUpdate, SaveInsert, SaveFails, Finish, tables
<1>2. CASE RemoveWrite(r) \/ Select(r) \/ SelectFails(r)
  BY <1>2 DEF RemoveWrite, Select, SelectFails, Finish, tables
<1>3. CASE DeleteBegins(r) \/ DeleteEnds(r) \/ Rollback(r) \/ UpsertFails(r)
  BY <1>3 DEF DeleteBegins, DeleteEnds, Rollback, UpsertFails, Finish, tables
<1>4. CASE Commit(r)
  BY <1>4 DEF Commit, Finish
<1>5. CASE UpsertSave(r)
  BY <1>5 DEF UpsertSave, Finish
<1>. QED BY <1>1, <1>2, <1>3, <1>4, <1>5 DEF Continue

\* The handlers that are one step, and those that begin a request, change the
\* positions of one portfolio at most.
PositionsStep ==
    \/ positions' = positions
    \/ instruments' # instruments
    \/ \E p \in Portfolio : /\ \A q \in Portfolio \ {p} : positions'[q] = positions[q]
                           /\ \A r \in Request : pc'[r] # pc[r] => target[r] = p

LEMMA NextPositions ==
  ASSUME TypeOK, [Next]_vars
  PROVE  PositionsStep
<1> USE ConstantsAssumption
<1>1. ASSUME NEW r \in Request, NEW p \in Portfolio, Start(r, p) PROVE positions' = positions
  BY <1>1 DEF Start, Create, ApplyTemplateBuy, UpdateFind, RemoveFind, ClearAll, Recalculate,
              UpsertFind, tables
<1>2. ASSUME NEW r \in Request, Continue(r) PROVE PositionsStep
  <2>1. CASE target[r] \in Portfolio
    BY <1>2, <2>1, ContinueAtHome DEF PositionsStep
  <2>2. CASE target[r] = None
    BY <1>2, <2>2 DEF TypeOK, Continue, SaveReload, SaveUpdate, SaveInsert, SaveFails,
       RemoveWrite, Select, SelectFails, DeleteBegins, DeleteEnds, Commit, Rollback,
       UpsertSave, UpsertFails, InsertsReady, UpsertReady
  <2>. QED BY <2>1, <2>2 DEF TypeOK
<1>3. ASSUME NEW p \in Portfolio, Administer(p) PROVE PositionsStep
  <2>1. ASSUME NEW I, ErasePositions(p, I) PROVE PositionsStep
    BY <2>1 DEF ErasePositions, TypeOK, PositionsStep
  <2>2. CASE DeletePortfolio(p)
    BY <2>2 DEF DeletePortfolio, TypeOK, PositionsStep
  <2>3. CASE CreatePortfolio(p)
    BY <2>3 DEF CreatePortfolio, PositionsStep
  <2>4. ASSUME NEW T, NEW imported, ImportPortfolio(p, T, imported) PROVE PositionsStep
    BY <2>4 DEF ImportPortfolio, PositionsStep
  <2>. QED BY <1>3, <2>1, <2>2, <2>3, <2>4 DEF Administer, RemovePosition, ClearPositions
<1>4. ASSUME NEW i \in Instrument, DeleteInstrument(i) PROVE PositionsStep
  BY <1>4 DEF DeleteInstrument, PositionsStep
<1>5. CASE Crash
  BY <1>5 DEF Crash, tables, PositionsStep
<1>6. CASE UNCHANGED vars
  BY <1>6 DEF vars, tables, PositionsStep
<1>. QED BY <1>1, <1>2, <1>3, <1>4, <1>5, <1>6 DEF Next, PositionsStep

\* For all constants and any clients: a step changes or deletes a row of the
\* ledger only for a request about the row's own portfolio, or because the
\* row's portfolio or instrument goes.  However many requests hold the same
\* transaction between their SELECT and their save, none of them moves a row to
\* another portfolio, and none reaches into another portfolio by its id.  The
\* positions of a portfolio change for a request about it, or by hand, or with
\* an instrument, and no step but the last changes those of two portfolios.
THEOREM RequestsStayAtHome == Spec => ForeignRowsUntouched
<1> USE ConstantsAssumption
<1>1. Init => HeldInOwn
  BY DEF Init, HeldInOwn
<1>2. TypeOK /\ TypeOK' /\ HeldInOwn /\ [Next]_vars => HeldInOwn'
  BY NextFrame, FrameHeldInOwn
<1>3. ASSUME TypeOK, TypeOK', HeldInOwn, [Next]_vars, NEW t \in Txn,
             ledger[t] # None, ledger'[t] # ledger[t]
      PROVE  \/ \E r \in Request : pc'[r] # pc[r] /\ ledger[t].pf \in {target[r], target'[r]}
             \/ ledger[t].pf \notin portfolios'
             \/ ledger[t].ins \notin instruments'
  <2>1. RowStep(t)
    BY <1>3, NextFrame DEF Frame
  <2>2. \A q \in Request : entity[q] # None /\ entity[q].txn = t => ledger[t].pf = target[q]
    BY <1>3 DEF HeldInOwn
  <2>3. t \notin FreeTxns
    BY <1>3 DEF FreeTxns
  <2>. QED BY <1>3, <2>1, <2>2, <2>3 DEF RowStep, SavedBy, Removed, Added
<1>4. ASSUME TypeOK, [Next]_vars, NEW p \in Portfolio,
             positions'[p] # positions[p], instruments' = instruments
      PROVE  /\ \A q \in Portfolio \ {p} : positions'[q] = positions[q]
             /\ \A r \in Request : pc'[r] # pc[r] => target[r] = p
  BY <1>4, NextPositions DEF PositionsStep
<1>5. TypeOK /\ TypeOK' /\ HeldInOwn /\ [Next]_vars =>
        [/\ \A t \in Txn :
            ledger[t] # None /\ ledger'[t] # ledger[t] =>
               \/ \E r \in Request : pc'[r] # pc[r] /\ ledger[t].pf \in {target[r], target'[r]}
               \/ ledger[t].pf \notin portfolios'
               \/ ledger[t].ins \notin instruments'
         /\ \A p \in Portfolio :
            positions'[p] # positions[p] /\ instruments' = instruments =>
               /\ \A q \in Portfolio \ {p} : positions'[q] = positions[q]
               /\ \A r \in Request : pc'[r] # pc[r] => target[r] = p]_vars
  BY <1>3, <1>4
<1>. QED BY <1>1, <1>2, <1>5, TypeCorrect, PTL DEF Spec, ForeignRowsUntouched

--------------------------------------------------------------------------------
(* Clients that wait for the answer of a request about a portfolio before they  *)
(* send the next one.                                                           *)

\* At most one request is about a portfolio.
OneRequest ==
    \A q, r \in Request : target[q] # None /\ target[q] = target[r] => q = r

\* A request keeps its portfolio until it is answered, and takes one that no
\* other request is about.
TargetStep ==
    \/ \A q \in Request : target'[q] \in {target[q], None}
    \/ \E r \in Request, p \in Portfolio :
         /\ InFlight(p) = {} /\ target'[r] = p
         /\ \A q \in Request \ {r} : target'[q] = target[q]

LEMMA NextTargetStep ==
  ASSUME "overlap" \notin Behaviour, TypeOK, [Next]_vars
  PROVE  TargetStep
<1> USE ConstantsAssumption DEF TypeOK
<1>1. ASSUME NEW r \in Request, NEW p \in Portfolio, Start(r, p)
      PROVE  TargetStep
  <2>1. Admit(p) /\ target' = [target EXCEPT ![r] = p]
    BY <1>1 DEF Start, Create, ApplyTemplateBuy, UpdateFind, RemoveFind, ClearAll,
                Recalculate, UpsertFind, Enter
  <2>. QED BY <2>1 DEF Admit, TargetStep
<1>2. ASSUME NEW r \in Request, Continue(r)
      PROVE  TargetStep
  BY <1>2 DEF Continue, SaveReload, SaveUpdate, SaveInsert, SaveFails, RemoveWrite, Select,
              SelectFails, DeleteBegins, DeleteEnds, Commit, Rollback, UpsertSave,
              UpsertFails, Finish, TargetStep
<1>3. ASSUME NEW p \in Portfolio, Administer(p)
      PROVE  target' = target
  BY <1>3 DEF Administer, RemovePosition, ClearPositions, ErasePositions, CreatePortfolio,
              ImportPortfolio, DeletePortfolio, requests
<1>4. (\E i \in Instrument : DeleteInstrument(i)) \/ UNCHANGED vars => target' = target
  BY DEF DeleteInstrument, vars
<1>5. Crash => \A q \in Request : target'[q] = None
  BY DEF Crash
<1>. QED BY <1>1, <1>2, <1>3, <1>4, <1>5 DEF Next, TargetStep

LEMMA NextOneRequest ==
  ASSUME "overlap" \notin Behaviour, TypeOK, OneRequest, [Next]_vars
  PROVE  OneRequest'
<1> USE ConstantsAssumption
<1>1. CASE \A q \in Request : target'[q] \in {target[q], None}
  BY <1>1 DEF OneRequest
<1>2. ASSUME NEW r \in Request, NEW p \in Portfolio, InFlight(p) = {}, target'[r] = p,
             \A q \in Request \ {r} : target'[q] = target[q]
      PROVE  OneRequest'
  BY <1>2 DEF OneRequest, InFlight
<1>. QED BY <1>1, <1>2, NextTargetStep DEF TargetStep

LEMMA InitOneRequest == Init => OneRequest
  BY DEF Init, OneRequest

--------------------------------------------------------------------------------
(* The units of the ledger.                                                     *)

\* What a request is going to store is valid as a whole, and so is the ledger; the
\* type and the units that save is not going to write are those it wants.
ValidWrites ==
    /\ \A r \in Request : entity[r] # None /\ pc[r] # "unlink" =>
         ValidUnits(entity[r].row.type, entity[r].row.units)
    /\ \A r \in Request : pc[r] = "write" /\ ledger[entity[r].txn] # None =>
         \A c \in {"type", "units"} \ entity[r].cols :
            ledger[entity[r].txn][c] = entity[r].row[c]
    /\ LedgerUnitsValid

LEMMA InitValidWrites == Init => ValidWrites
  BY DEF Init, ValidWrites, LedgerUnitsValid

\* The row that save leaves has the type and the units of the entity.
LEMMA WrittenUnits ==
  ASSUME NEW f, f \in Entity,
         \A c \in {"type", "units"} \ f.cols : ledger[f.txn][c] = f.row[c]
  PROVE  Written(f).type = f.row.type /\ Written(f).units = f.row.units
<1>1. DOMAIN f.row = {"pf", "ins", "type", "units"}
  BY DEF Entity, Row
<1>. QED BY <1>1 DEF Written

LEMMA FrameValidWrites ==
  ASSUME "partialUpdate" \notin Behaviour,
         TypeOK, TypeOK', OneRequest, HeldInOwn, ValidWrites, Frame
  PROVE  ValidWrites'
<1> USE ConstantsAssumption
<1>1. ASSUME NEW r \in Request, entity'[r] # None, pc'[r] # "unlink"
      PROVE  ValidUnits(entity'[r].row.type, entity'[r].row.units)
  <2>1. CASE entity'[r] = entity[r] /\ pc'[r] = pc[r]
    BY <1>1, <2>1 DEF ValidWrites
  <2>2. CASE Found(r)
    BY <1>1, <2>2 DEF Found
  <2>3. CASE Reloaded(r)
    BY <2>3 DEF Reloaded, ValidWrites
  <2>. QED BY <1>1, <2>1, <2>2, <2>3 DEF Frame, EntityStep
<1>2. ASSUME NEW r \in Request, pc'[r] = "write", ledger'[entity'[r].txn] # None,
             NEW c \in {"type", "units"} \ entity'[r].cols
      PROVE  ledger'[entity'[r].txn][c] = entity'[r].row[c]
  <2>0. entity'[r] # None
    BY <1>2 DEF TypeOK
  <2>1. CASE entity'[r] = entity[r] /\ target'[r] = target[r] /\ pc'[r] = pc[r]
    <3>1. PICK t \in Txn : t = entity[r].txn
      BY <2>0, <2>1 DEF TypeOK, Entity
    <3>2. t \notin FreeTxns
      BY <2>0, <2>1, <3>1 DEF FreeTxns
    <3>3. ASSUME NEW q \in Request, SavedBy(q, t) PROVE FALSE
      <4>1. target[q] = target[r] /\ target[r] # None
        BY <1>2, <2>0, <2>1, <3>1, <3>3 DEF SavedBy, HeldInOwn, TypeOK
      <4>2. q = r
        BY <4>1 DEF OneRequest
      <4>. QED BY <2>0, <3>3, <4>2 DEF SavedBy
    <3>4. ledger'[t] = ledger[t]
      BY <1>2, <2>1, <3>1, <3>2, <3>3 DEF Frame, RowStep, Removed, Added
    <3>. QED BY <1>2, <2>1, <3>1, <3>4 DEF ValidWrites
  <2>2. CASE Found(r)
    BY <1>2, <2>2 DEF Found
  <2>3. CASE Reloaded(r)
    BY <1>2, <2>3 DEF Reloaded, Column
  <2>. QED BY <2>0, <2>1, <2>2, <2>3 DEF Frame, EntityStep
<1>3. ASSUME NEW t \in Txn, ledger'[t] # None
      PROVE  ValidUnits(ledger'[t].type, ledger'[t].units)
  <2>1. ASSUME NEW q \in Request, SavedBy(q, t)
        PROVE  ValidUnits(ledger'[t].type, ledger'[t].units)
    <3>1. entity[q] \in Entity /\ entity[q] # None /\ entity[q].txn = t
      BY <2>1 DEF SavedBy, TypeOK
    <3>2. ValidUnits(entity[q].row.type, entity[q].row.units)
      BY <2>1, <3>1 DEF SavedBy, ValidWrites
    <3>3. CASE pc[q] = "write" /\ ledger[t] # None /\ ledger'[t] = Written(entity[q])
      BY <3>1, <3>2, <3>3, WrittenUnits DEF ValidWrites
    <3>. QED BY <2>1, <3>2, <3>3 DEF SavedBy
  <2>2. CASE Added(t)
    BY <2>2 DEF Added
  <2>3. CASE ledger'[t] = ledger[t]
    BY <1>3, <2>3 DEF ValidWrites, LedgerUnitsValid
  <2>. QED BY <1>3, <2>1, <2>2, <2>3 DEF Frame, RowStep, Removed
<1>. QED BY <1>1, <1>2, <1>3 DEF ValidWrites, LedgerUnitsValid

\* For clients that wait for their answers and send whole updates, every row of
\* the ledger has a number of units its type allows, for any constants, with
\* positions edited by hand and portfolios imported in between.  A request may
\* find the row it validated against changed or gone when its save reads it
\* again, and gone when its UPDATE comes; the proof needs the type and the
\* units that the UPDATE leaves out to be those that were validated.
THEOREM UnitsStayValid ==
  ASSUME Behaviour \subseteq {"manualEdit", "import"}
  PROVE  Spec => []LedgerUnitsValid
<1>1. Init => HeldInOwn /\ OneRequest /\ ValidWrites
  BY InitOneRequest, InitValidWrites DEF Init, HeldInOwn
<1>2. TypeOK /\ TypeOK' /\ HeldInOwn /\ OneRequest /\ ValidWrites /\ [Next]_vars
        => HeldInOwn' /\ OneRequest' /\ ValidWrites'
  BY NextFrame, FrameHeldInOwn, NextOneRequest, FrameValidWrites
<1>3. ValidWrites => LedgerUnitsValid
  BY DEF ValidWrites
<1>. QED BY <1>1, <1>2, <1>3, TypeCorrect, PTL DEF Spec

--------------------------------------------------------------------------------
(* The replacement of the positions.                                            *)

\* The rows a recalculation is about to delete are all the rows there are.
AllRowsRead ==
    \A r \in Request : pc[r] \in {"delete", "commit"} =>
        rows[r] = Stored(positions[target[r]])

\* A request that has read the rows finds them as they are as long as it is the
\* only one about its portfolio: whatever removes rows from the table takes them
\* from those it has read.
LEMMA NextAllRowsRead ==
  ASSUME "overlap" \notin Behaviour, TypeOK, OneRequest, AllRowsRead, [Next]_vars
  PROVE  AllRowsRead'
<1> USE ConstantsAssumption DEF TypeOK
<1>a. ASSUME UNCHANGED <<positions, rows, target>>,
             \A q \in Request : pc'[q] \in {"delete", "commit"} =>
                                 pc[q] \in {"delete", "commit"}
      PROVE  AllRowsRead'
  BY <1>a DEF AllRowsRead, Stored
<1>b. ASSUME NEW r \in Request, NEW p, pc'[r] \notin {"delete", "commit"},
             target[r] = p \/ InFlight(p) = {}, p \in Portfolio,
             \A o \in Portfolio \ {p} : positions'[o] = positions[o],
             \A q \in Request \ {r} : /\ target'[q] = target[q] /\ pc'[q] = pc[q]
                                      /\ target[q] # p => rows'[q] = rows[q]
      PROVE  AllRowsRead'
  BY <1>b DEF AllRowsRead, OneRequest, InFlight, Stored
<1>1. ASSUME NEW r \in Request, NEW p \in Portfolio, Start(r, p)
      PROVE  AllRowsRead'
  <2>1. /\ Admit(p) /\ positions' = positions /\ pc'[r] \notin {"delete", "commit"}
        /\ \A q \in Request \ {r} : /\ target'[q] = target[q] /\ pc'[q] = pc[q]
                                     /\ rows'[q] = rows[q]
    BY <1>1 DEF Start, Create, ApplyTemplateBuy, UpdateFind, RemoveFind, ClearAll,
                Recalculate, UpsertFind, Enter, tables
  <2>. QED BY <1>b, <2>1 DEF Admit
<1>2. ASSUME NEW r \in Request, Continue(r)
      PROVE  AllRowsRead'
  <2>1. CASE \/ SaveReload(r) \/ SaveUpdate(r) \/ SaveInsert(r) \/ RemoveWrite(r)
             \/ Select(r) \/ DeleteEnds(r)
    BY <1>a, <2>1 DEF SaveReload, SaveUpdate, SaveInsert, RemoveWrite, Select, DeleteEnds,
                      tables
  <2>2. CASE \/ SaveFails(r) \/ SelectFails(r) \/ Rollback(r) \/ UpsertFails(r)
             \/ Commit(r) \/ UpsertSave(r)
    <3>1. /\ pc'[r] = "idle" /\ target[r] \in Portfolio
          /\ \A q \in Request \ {r} : target'[q] = target[q] /\ pc'[q] = pc[q]
      BY <2>2 DEF SaveFails, SelectFails, Rollback, UpsertFails, Commit, UpsertSave, Finish,
                  InsertsReady, UpsertReady
    <3>2. /\ \A o \in Portfolio \ {target[r]} : positions'[o] = positions[o]
          /\ \A q \in Request \ {r} : target[q] # target[r] => rows'[q] = rows[q]
      BY <2>2 DEF SaveFails, SelectFails, Rollback, UpsertFails, Commit, UpsertSave, tables,
                  RowsGone
    <3>. QED BY <1>b, <3>1, <3>2
  <2>3. CASE DeleteBegins(r)
    BY <2>3 DEF DeleteBegins, tables, AllRowsRead, Stored
  <2>. QED BY <1>2, <2>1, <2>2, <2>3 DEF Continue
<1>3. ASSUME NEW p \in Portfolio, Administer(p)
      PROVE  AllRowsRead'
  <2>1. ASSUME NEW I, ErasePositions(p, I) PROVE AllRowsRead'
    <3>1. \A q \in Request : target[q] # p
      BY <2>1 DEF ErasePositions, Admit, InFlight
    <3>2. /\ UNCHANGED <<pc, target>>
          /\ \A o \in Portfolio \ {p} : positions'[o] = positions[o]
          /\ \A q \in Request : rows'[q] = rows[q]
      BY <2>1, <3>1 DEF ErasePositions, RowsGone
    <3>. QED BY <3>1, <3>2 DEF AllRowsRead, Stored
  <2>2. CASE \/ CreatePortfolio(p)
             \/ \E T \in SUBSET Txn : \E imported \in [T -> InputRow(p)] :
                  ImportPortfolio(p, T, imported)
    BY <1>a, <2>2 DEF CreatePortfolio, ImportPortfolio, requests
  <2>3. CASE DeletePortfolio(p)
    <3>1. /\ UNCHANGED <<pc, target>> /\ positions'[p] = NoSnap
          /\ \A o \in Portfolio \ {p} : positions'[o] = positions[o]
      BY <2>3 DEF DeletePortfolio
    <3>2. \A q \in Request : rows'[q] = IF target[q] = p THEN {} ELSE rows[q]
      <4>1. \A q \in Request : rows[q] \ Instrument = {}
        OBVIOUS
      <4>. QED BY <2>3, <4>1 DEF DeletePortfolio, RowsGone
    <3>3. Stored(NoSnap) = {}
      BY DEF Stored, NoSnap
    <3>4. ASSUME NEW q \in Request, pc[q] \in {"delete", "commit"}
          PROVE  rows'[q] = Stored(positions'[target[q]])
      <4>1. target[q] \in Portfolio
        BY <3>4
      <4>2. CASE target[q] = p
        BY <3>1, <3>2, <3>3, <4>2 DEF Stored
      <4>3. CASE target[q] # p
        BY <3>1, <3>2, <3>4, <4>1, <4>3 DEF AllRowsRead, Stored
      <4>. QED BY <4>2, <4>3
    <3>. QED BY <3>1, <3>4 DEF AllRowsRead, Stored
  <2>. QED BY <1>3, <2>1, <2>2, <2>3 DEF Administer, RemovePosition, ClearPositions
<1>4. ASSUME NEW i \in Instrument, DeleteInstrument(i)
      PROVE  AllRowsRead'
  <2>1. /\ UNCHANGED <<pc, target>>
        /\ \A o \in Portfolio, j \in Instrument :
             positions'[o][j] = IF j = i THEN NoPosition ELSE positions[o][j]
        /\ \A q \in Request : rows'[q] = rows[q] \ {i}
    BY <1>4 DEF DeleteInstrument
  <2>2. ASSUME NEW q \in Request, pc[q] \in {"delete", "commit"}
        PROVE  rows'[q] = Stored(positions'[target[q]])
    <3>1. PICK o \in Portfolio : o = target[q]
      BY <2>2
    <3>2. rows[q] = Stored(positions[o])
      BY <2>2, <3>1 DEF AllRowsRead
    <3>. QED BY <2>1, <3>1, <3>2 DEF Stored
  <2>. QED BY <2>1, <2>2 DEF AllRowsRead, Stored
<1>5. CASE Crash
  BY <1>5 DEF Crash, AllRowsRead
<1>6. CASE UNCHANGED vars
  BY <1>6, <1>a DEF vars
<1>. QED BY <1>1, <1>2, <1>3, <1>4, <1>5, <1>6 DEF Next

\* For clients that wait for their answers, a recalculation that commits leaves
\* its portfolio with exactly the rows it inserted, for any constants, with
\* positions edited by hand, portfolios imported and instruments deleted in
\* between.  (For clients that do not wait it is not so: the DELETE of one
\* recalculation does not see the rows that another is about to insert.)
THEOREM ReplacementIsWhole ==
  ASSUME "overlap" \notin Behaviour
  PROVE  Spec => ReplaceIsWhole
<1> USE ConstantsAssumption
<1>1. Init => OneRequest /\ AllRowsRead
  BY InitOneRequest DEF Init, AllRowsRead
<1>2. TypeOK /\ OneRequest /\ AllRowsRead /\ [Next]_vars => OneRequest' /\ AllRowsRead'
  BY NextOneRequest, NextAllRowsRead
<1>3. ASSUME TypeOK, AllRowsRead, NEW r \in Request, Commit(r), NEW i \in Instrument
      PROVE  positions'[target[r]][i] = snap[r][i]
  <2>1. /\ pc[r] = "commit" /\ target[r] \in Portfolio
        /\ positions'[target[r]][i] =
             IF snap[r][i] # NoPosition THEN snap[r][i]
             ELSE IF i \in rows[r] THEN NoPosition ELSE positions[target[r]][i]
    BY <1>3 DEF TypeOK, Commit, InsertsReady
  <2>. QED BY <1>3, <2>1 DEF AllRowsRead, Stored
<1>4. TypeOK /\ AllRowsRead =>
        [\A r \in Request : Commit(r) =>
           \A i \in Instrument : positions'[target[r]][i] = snap[r][i]]_vars
  BY <1>3
<1>. QED BY <1>1, <1>2, <1>4, TypeCorrect, PTL DEF Spec, ReplaceIsWhole

--------------------------------------------------------------------------------
(* Positions agree with the ledger.                                             *)

\* The foreign keys of both tables hold.
References ==
    /\ \A t \in Txn : ledger[t] # None =>
         ledger[t].pf \in portfolios /\ ledger[t].ins \in instruments
    /\ \A p \in Portfolio, i \in Instrument : positions[p][i] # NoPosition =>
         p \in portfolios /\ i \in instruments

\* The transaction a request has read stays in the request's portfolio, and no
\* other request has read it.
HeldRows ==
    /\ \A r \in Request : entity[r] # None =>
         /\ entity[r].row.pf = target[r]
         /\ ledger[entity[r].txn] # None => ledger[entity[r].txn].pf = target[r]
    /\ \A q, r \in Request :
         entity[q] # None /\ entity[r] # None /\ entity[q].txn = entity[r].txn => q = r

\* What a recalculation has read of the ledger is still so, for every instrument
\* that still exists.
FreshSnap ==
    \A r \in Request : pc[r] \in {"replace", "delete", "commit"} /\ target[r] \in portfolios =>
        \A i \in instruments : snap[r][i] = HoldingsOf(target[r])[i]

\* Positions and ledger agree unless a recalculation is on its way or was cut
\* short; a request that has not yet written the ledger does no harm.
Agreement ==
    \A p \in portfolios :
        /\ \A r \in InFlight(p) : pc[r] \notin RecalcSteps
        /\ ~unsettled[p]
        => \A i \in Instrument : positions[p][i] = HoldingsOf(p)[i]

\* A request that puts a position by hand is about one instrument, and the row it
\* has read, if any, is still there.
ReadToPut(r) ==
    /\ \E i \in Instrument : Stored(snap[r]) = {i} /\ rows[r] \subseteq {i}
    /\ rows[r] \subseteq Stored(positions[target[r]])

UpsertRead == \A r \in Request : pc[r] = "upsert" => ReadToPut(r)

SerialInv ==
    /\ OneRequest /\ AllRowsRead /\ UpsertRead
    /\ References /\ HeldRows /\ FreshSnap /\ Agreement

\* The part of it that is shown for each kind of step below; what the requests
\* know of the rows they have read is shown for all steps at once.
TablesInv == References /\ HeldRows /\ FreshSnap /\ Agreement

--------------------------------------------------------------------------------
(* What a total depends on.                                                     *)

\* A total depends on the rows of its portfolio and instrument and on no others.
LEMMA HoldingsFrame ==
  ASSUME TypeOK, NEW p \in Portfolio, NEW i \in Instrument,
         \A t \in Txn : t \in LotsOf(p, i) \/ t \in LotsOf(p, i)' => ledger'[t] = ledger[t]
  PROVE  HoldingsOf(p)'[i] = HoldingsOf(p)[i]
<1>1. LotsOf(p, i)' = LotsOf(p, i)
  BY DEF LotsOf
<1> DEFINE f == [t \in Txn |-> IF t \in LotsOf(p, i) THEN SignedUnits(ledger[t]) ELSE 0]
<1>2. f' = f
  BY <1>1 DEF SignedUnits
<1> HIDE DEF f
<1>3. SumFunction(f)' = SumFunction(f)
  BY <1>2
<1>4. UnitsHeld(p, i)' = UnitsHeld(p, i)
  BY <1>3 DEF UnitsHeld, f
<1>. QED BY <1>1, <1>4 DEF HoldingsOf

\* An instrument without rows has no total: GROUP BY makes no group for it.
LEMMA NoLotsNoHolding ==
  ASSUME NEW p \in Portfolio, NEW i \in Instrument, LotsOf(p, i) = {}
  PROVE  HoldingsOf(p)[i] = NoPosition
  BY DEF HoldingsOf


--------------------------------------------------------------------------------
(* The steps that commit a change of the ledger all have this form: request r   *)
(* about portfolio p changes rows of p only and goes on to recalculate it.      *)

LedgerStep(r, p) ==
    /\ target[r] = p \/ (target[r] = None /\ InFlight(p) = {})
    /\ target' = [target EXCEPT ![r] = p]
    /\ pc' = [pc EXCEPT ![r] = "recalc"]
    /\ entity' = [entity EXCEPT ![r] = None]
    /\ UNCHANGED <<portfolios, instruments, positions, snap, rows, unsettled>>
    /\ \A t \in Txn : ledger'[t] # ledger[t] =>
         /\ ledger[t] # None => ledger[t].pf = p
         /\ ledger'[t] # None =>
              /\ ledger'[t].pf = p /\ p \in portfolios /\ ledger'[t].ins \in instruments
              /\ \A q \in Request \ {r} : entity[q] # None /\ entity[q].txn = t => ledger[t] # None

LEMMA LedgerStepInv ==
  ASSUME NEW r \in Request, NEW p \in Portfolio, TypeOK, TypeOK', SerialInv, LedgerStep(r, p)
  PROVE  TablesInv'
<1> USE ConstantsAssumption
<1>a. \A q \in Request \ {r} : /\ target'[q] = target[q] /\ target[q] # p
                               /\ pc'[q] = pc[q] /\ entity'[q] = entity[q]
  BY DEF TypeOK, SerialInv, OneRequest, LedgerStep, InFlight
<1>b. target'[r] = p /\ pc'[r] = "recalc" /\ entity'[r] = None
  BY DEF TypeOK, LedgerStep
<1>c. ASSUME NEW o \in Portfolio \ {p}, NEW i \in Instrument
      PROVE  HoldingsOf(o)'[i] = HoldingsOf(o)[i]
  <2>1. \A t \in Txn : t \in LotsOf(o, i) \/ t \in LotsOf(o, i)' => ledger'[t] = ledger[t]
    BY DEF LedgerStep, LotsOf
  <2>. QED BY <2>1, HoldingsFrame
<1>1. References'
  BY DEF SerialInv, References, LedgerStep
<1>2. HeldRows'
  <2>1. ASSUME NEW q \in Request, entity'[q] # None
        PROVE  /\ q # r /\ entity'[q] = entity[q] /\ target'[q] = target[q]
               /\ entity[q].txn \in Txn
    BY <1>a, <1>b, <2>1 DEF TypeOK, Entity
  <2>2. ASSUME NEW q \in Request, entity'[q] # None, ledger'[entity[q].txn] # None
        PROVE  ledger'[entity[q].txn].pf = target[q]
    <3>1. target[q] # p /\ q # r
      BY <1>a, <2>1, <2>2
    <3>2. ledger'[entity[q].txn] = ledger[entity[q].txn]
      BY <2>1, <2>2, <3>1 DEF LedgerStep, SerialInv, HeldRows
    <3>. QED BY <2>1, <2>2, <3>2 DEF SerialInv, HeldRows
  <2>. QED BY <2>1, <2>2 DEF SerialInv, HeldRows
<1>3. FreshSnap'
  <2> SUFFICES ASSUME NEW q \in Request, pc'[q] \in {"replace", "delete", "commit"},
                      target'[q] \in portfolios', NEW i \in instruments'
               PROVE  snap'[q][i] = HoldingsOf(target[q])'[i]
    BY <1>a, <1>b DEF FreshSnap
  <2>1. q # r /\ target[q] \in Portfolio \ {p} /\ i \in Instrument
    BY <1>a, <1>b DEF TypeOK, LedgerStep
  <2>2. PICK o \in Portfolio \ {p} : o = target[q] /\ o = target'[q]
    BY <1>a, <2>1
  <2>3. snap[q][i] = HoldingsOf(o)[i]
    BY <1>a, <2>1, <2>2 DEF SerialInv, FreshSnap, LedgerStep
  <2>. QED BY <1>c, <2>1, <2>2, <2>3 DEF LedgerStep
<1>4. Agreement'
  <2> SUFFICES ASSUME NEW o \in portfolios',
                      \A q \in InFlight(o)' : pc'[q] \notin RecalcSteps, ~unsettled'[o],
                      NEW i \in Instrument
               PROVE  positions'[o][i] = HoldingsOf(o)'[i]
    BY DEF Agreement
  <2>1. o # p
    BY <1>b DEF InFlight, RecalcSteps
  <2>2. o \in Portfolio \ {p} /\ o \in portfolios
    BY <2>1 DEF TypeOK, LedgerStep
  <2>3. \A q \in InFlight(o) : pc[q] \notin RecalcSteps
    <3> SUFFICES ASSUME NEW q \in Request, target[q] = o PROVE pc[q] \notin RecalcSteps
      BY DEF InFlight
    <3>1. q # r
      BY <2>1, <2>2 DEF LedgerStep
    <3>2. pc'[q] = pc[q] /\ target'[q] = o
      BY <1>a, <3>1
    <3>. QED BY <3>2 DEF InFlight
  <2>. QED BY <1>c, <2>2, <2>3 DEF SerialInv, Agreement, LedgerStep
<1>. QED BY <1>1, <1>2, <1>3, <1>4 DEF TablesInv

LEMMA StartsAlone ==
  ASSUME NEW p \in Portfolio, "overlap" \notin Behaviour, Admit(p)
  PROVE  InFlight(p) = {}
  BY DEF Admit

LEMMA StartLedgerStep ==
  ASSUME NEW r \in Request, NEW p \in Portfolio, TypeOK, "overlap" \notin Behaviour,
         \/ \E row \in InputRow(p) : Create(r, p, row)
         \/ \E S \in SUBSET Instrument : \E bought \in [S -> UnitValue] :
               ApplyTemplateBuy(r, p, bought)
         \/ ClearAll(r, p)
  PROVE  LedgerStep(r, p)
<1> USE ConstantsAssumption, StartsAlone
<1>a. ASSUME pc[r] = "idle"
      PROVE  target[r] = None /\ entity[r] = None /\ entity = [entity EXCEPT ![r] = None]
  BY <1>a DEF TypeOK
<1>1. ASSUME NEW row \in InputRow(p), Create(r, p, row) PROVE LedgerStep(r, p)
  <2>1. row # None
    BY DEF InputRow, Row
  <2>. QED BY <1>a, <1>1, <2>1 DEF Create, LedgerStep, Enter, FreeTxns, TypeOK
<1>2. ASSUME NEW S \in SUBSET Instrument, NEW bought \in [S -> UnitValue],
             ApplyTemplateBuy(r, p, bought)
      PROVE  LedgerStep(r, p)
  <2>1. PICK T \in SUBSET FreeTxns : \E lot \in Bijection(T, S) :
          ledger' = [t \in Txn |->
             IF t \in T
             THEN [pf |-> p, ins |-> lot[t], type |-> "BUY", units |-> bought[lot[t]]]
             ELSE ledger[t]]
    BY <1>2 DEF ApplyTemplateBuy
  <2>2. PICK lot \in Bijection(T, S) :
          ledger' = [t \in Txn |->
             IF t \in T
             THEN [pf |-> p, ins |-> lot[t], type |-> "BUY", units |-> bought[lot[t]]]
             ELSE ledger[t]]
    BY <2>1
  <2>3. \A t \in T : lot[t] \in instruments /\ ledger[t] = None
    BY <1>2 DEF ApplyTemplateBuy, Bijection, Surjection, Injection, FreeTxns
  <2>4. \A t \in Txn : ledger'[t] # ledger[t] =>
          /\ t \in T /\ ledger'[t].pf = p /\ ledger'[t].ins \in instruments
    BY <2>2, <2>3
  <2>5. \A t \in T, q \in Request : entity[q] = None \/ entity[q].txn # t
    BY DEF FreeTxns
  <2>. QED BY <1>a, <1>2, <2>3, <2>4, <2>5 DEF ApplyTemplateBuy, LedgerStep, Enter, TypeOK
<1>3. CASE ClearAll(r, p)
  BY <1>a, <1>3 DEF ClearAll, Without, TxnsOf, LedgerStep, Enter, TypeOK
<1>. QED BY <1>1, <1>2, <1>3

LEMMA ContinueLedgerStep ==
  ASSUME NEW r \in Request, TypeOK, SerialInv,
         SaveUpdate(r) \/ SaveInsert(r) \/ RemoveWrite(r)
  PROVE  \E p \in Portfolio : LedgerStep(r, p)
<1> USE ConstantsAssumption DEF LedgerStep
<1> DEFINE e == entity[r]
<1>1. PICK p \in Portfolio : target[r] = p
  BY DEF TypeOK, SaveUpdate, SaveInsert, RemoveWrite
<1>2. target = [target EXCEPT ![r] = p]
  BY <1>1 DEF TypeOK
<1>3. e \in Entity /\ e.txn \in Txn /\ e.row \in Row
  BY DEF TypeOK, Entity, SaveUpdate, SaveInsert, RemoveWrite
<1>4. /\ e.row.pf = p
      /\ ledger[e.txn] # None => ledger[e.txn].pf = p
      /\ \A q \in Request \ {r} : entity[q] # None => entity[q].txn # e.txn
  BY <1>1, <1>3, ConstantsAssumption DEF SerialInv, HeldRows, Entity
<1>5. CASE SaveUpdate(r)
  <2>1. ASSUME ledger[e.txn] # None
        PROVE  /\ Written(e).pf = p /\ p \in portfolios
               /\ Written(e).ins \in instruments
    <3>1. ledger[e.txn].pf = p /\ p \in portfolios /\ ledger[e.txn].ins \in instruments
      BY <1>3, <1>4, <2>1 DEF SerialInv, References
    <3>2. Written(e).pf = p
      BY <1>3, <1>4, <3>1 DEF Written, Row
    <3>3. Written(e).ins \in instruments
      BY <1>3, <1>5, <3>1 DEF Written, Row, SaveUpdate
    <3>. QED BY <3>1, <3>2, <3>3
  <2>2. \A t \in Txn : ledger'[t] # ledger[t] =>
          t = e.txn /\ ledger[t] # None /\ ledger'[t] = Written(e)
    BY <1>5, <1>3 DEF SaveUpdate, TypeOK
  <2>. QED BY <1>1, <1>2, <1>4, <1>5, <2>1, <2>2 DEF SaveUpdate
<1>6. CASE SaveInsert(r)
  <2>1. \A t \in Txn : ledger'[t] # ledger[t] => t = e.txn /\ ledger'[t] = e.row
    BY <1>6, <1>3 DEF SaveInsert, TypeOK
  <2>. QED BY <1>1, <1>2, <1>4, <1>6, <2>1 DEF SaveInsert
<1>7. CASE RemoveWrite(r)
  <2>1. \A t \in Txn : ledger'[t] # ledger[t] => t = e.txn /\ ledger'[t] = None
    BY <1>7, <1>3 DEF RemoveWrite, TypeOK
  <2>. QED BY <1>1, <1>2, <1>4, <1>7, <2>1 DEF RemoveWrite
<1>. QED BY <1>5, <1>6, <1>7

--------------------------------------------------------------------------------
(* The steps that change neither table.                                         *)

\* When the ledger stays as it is, so does every total.
LEMMA SameLedgerSameHoldings ==
  ASSUME TypeOK, UNCHANGED ledger
  PROVE  \A p \in Portfolio, i \in Instrument : HoldingsOf(p)'[i] = HoldingsOf(p)[i]
  BY HoldingsFrame DEF TypeOK

\* A request that starts by reading a transaction or a position, or goes straight
\* to recalculating.
LEMMA StartReadingInv ==
  ASSUME NEW r \in Request, NEW p \in Portfolio, TypeOK, TypeOK', SerialInv,
         "overlap" \notin Behaviour,
         \/ \E t \in Txn, i \in Instrument, type \in UsedType \cup {None},
               units \in UnitValue \cup {None} : UpdateFind(r, p, t, i, type, units)
         \/ \E t \in Txn : RemoveFind(r, p, t)
         \/ Recalculate(r, p)
         \/ \E i \in Instrument, units \in UnitValue : UpsertFind(r, p, i, units)
  PROVE  TablesInv'
<1> USE ConstantsAssumption DEF tables
<1>a. /\ UNCHANGED tables /\ UNCHANGED unsettled
      /\ pc[r] = "idle" /\ Admit(p)
      /\ pc'[r] \in {"save", "unlink", "recalc", "upsert"} /\ target'[r] = p
      /\ \A q \in Request \ {r} : /\ pc'[q] = pc[q] /\ target'[q] = target[q]
                                  /\ snap'[q] = snap[q]
  BY DEF UpdateFind, RemoveFind, Recalculate, UpsertFind, Enter, TypeOK
<1>b. InFlight(p) = {} /\ target[r] = None /\ entity[r] = None
  BY <1>a, StartsAlone DEF TypeOK
<1>c. \A q \in Request \ {r} : entity'[q] = entity[q] /\ target[q] # p
  BY <1>b DEF UpdateFind, RemoveFind, Recalculate, UpsertFind, InFlight, TypeOK
<1>d. \/ entity'[r] = None
      \/ \E t \in Txn : /\ ledger[t] # None /\ ledger[t].pf = p
                        /\ entity'[r].txn = t /\ entity'[r].row.pf = p
  BY <1>b DEF UpdateFind, RemoveFind, Recalculate, UpsertFind, TypeOK
<1>1. References'
  BY <1>a DEF SerialInv, References
<1>2. HeldRows'
  <2>1. \A q \in Request \ {r} : entity[q] # None /\ ledger[entity[q].txn] # None =>
          ledger[entity[q].txn].pf # p
    BY <1>c DEF SerialInv, HeldRows
  <2>. QED BY <1>a, <1>c, <1>d, <2>1 DEF SerialInv, HeldRows
<1>3. FreshSnap'
  <2> SUFFICES ASSUME NEW q \in Request, pc'[q] \in {"replace", "delete", "commit"},
                      target'[q] \in portfolios', NEW i \in instruments'
               PROVE  snap'[q][i] = HoldingsOf(target[q])'[i]
    BY DEF FreshSnap
  <2>1. q # r /\ i \in Instrument
    BY <1>a DEF TypeOK
  <2>2. PICK o \in Portfolio : o = target[q] /\ o = target'[q]
    BY <1>a, <2>1 DEF TypeOK
  <2>. QED BY <1>a, <2>1, <2>2, SameLedgerSameHoldings DEF SerialInv, FreshSnap
<1>4. Agreement'
  <2> SUFFICES ASSUME NEW o \in portfolios',
                      \A q \in InFlight(o)' : pc'[q] \notin RecalcSteps, ~unsettled'[o],
                      NEW i \in Instrument
               PROVE  positions'[o][i] = HoldingsOf(o)'[i]
    BY DEF Agreement
  <2>1. o \in Portfolio
    BY DEF TypeOK
  <2>2. \A q \in InFlight(o) : pc[q] \notin RecalcSteps
    <3> SUFFICES ASSUME NEW q \in Request, target[q] = o PROVE pc[q] \notin RecalcSteps
      BY DEF InFlight
    <3>1. q # r
      BY <1>b, <2>1
    <3>. QED BY <1>a, <3>1 DEF InFlight
  <2>. QED BY <1>a, <2>1, <2>2, SameLedgerSameHoldings DEF SerialInv, Agreement
<1>. QED BY <1>1, <1>2, <1>3, <1>4 DEF TablesInv

\* A request that goes on, or ends, without touching a table.  What it needs to
\* know is which request it is and what it has read.
LEMMA ReadStepInv ==
  ASSUME NEW r \in Request, TypeOK, TypeOK', SerialInv,
         \/ SaveReload(r) \/ SaveFails(r) \/ Select(r) \/ SelectFails(r)
         \/ DeleteBegins(r) \/ DeleteEnds(r) \/ Rollback(r) \/ UpsertFails(r)
  PROVE  TablesInv'
<1> USE ConstantsAssumption DEF tables
<1>a. PICK p \in Portfolio : target[r] = p
  BY DEF TypeOK, SaveReload, SaveFails, Select, SelectFails, DeleteBegins, DeleteEnds,
         Rollback, UpsertFails, InsertsReady, UpsertReady
<1>b. /\ UNCHANGED tables
      /\ target'[r] \in {p, None}
      /\ \A q \in Request \ {r} :
           /\ pc'[q] = pc[q] /\ target'[q] = target[q] /\ entity'[q] = entity[q]
           /\ snap'[q] = snap[q] /\ rows'[q] = rows[q] /\ target[q] # p
  BY <1>a DEF SaveReload, SaveFails, Select, SelectFails, DeleteBegins, DeleteEnds,
              Rollback, UpsertFails, Finish, TypeOK, SerialInv, OneRequest
<1>c. target'[r] = None => pc'[r] = "idle"
  BY DEF TypeOK
<1>d. entity'[r] # None => /\ target'[r] = p /\ entity[r] # None
                           /\ entity'[r].txn = entity[r].txn /\ entity'[r].row = entity[r].row
  <2>1. CASE SaveReload(r)
    <3>1. entity[r] \in Entity
      BY <2>1 DEF SaveReload, TypeOK
    <3>2. CASE UNCHANGED entity
      BY <1>a, <2>1, <3>1, <3>2 DEF SaveReload, TypeOK, Entity
    <3>3. CASE entity' = [entity EXCEPT ![r].cols =
                            {c \in Column : ledger[entity[r].txn][c] # entity[r].row[c]}]
      <4>1. entity'[r] = [entity[r] EXCEPT !.cols =
                            {c \in Column : ledger[entity[r].txn][c] # entity[r].row[c]}]
        BY <3>3 DEF TypeOK
      <4>. QED BY <1>a, <2>1, <3>1, <4>1 DEF SaveReload, TypeOK, Entity
    <3>. QED BY <2>1, <3>2, <3>3 DEF SaveReload
  <2>2. CASE SaveFails(r) \/ SelectFails(r) \/ Rollback(r) \/ UpsertFails(r)
    BY <2>2 DEF SaveFails, SelectFails, Rollback, UpsertFails, Finish, TypeOK
  <2>3. CASE Select(r) \/ DeleteBegins(r) \/ DeleteEnds(r)
    BY <1>a, <2>3 DEF Select, DeleteBegins, DeleteEnds, TypeOK
  <2>. QED BY <2>1, <2>2, <2>3
<1>1. References'
  BY <1>b DEF SerialInv, References
<1>2. HeldRows'
  BY <1>a, <1>b, <1>d DEF SerialInv, HeldRows
<1>3. FreshSnap'
  <2> SUFFICES ASSUME NEW q \in Request, pc'[q] \in {"replace", "delete", "commit"},
                      target'[q] \in portfolios', NEW i \in instruments'
               PROVE  snap'[q][i] = HoldingsOf(target[q])'[i]
    BY DEF FreshSnap
  <2>1. i \in Instrument /\ i \in instruments
    BY <1>b DEF TypeOK
  <2>2. CASE q # r
    <3>1. PICK o \in Portfolio : o = target[q] /\ o = target'[q]
      BY <1>b, <2>2 DEF TypeOK
    <3>. QED BY <1>b, <2>1, <2>2, <3>1, SameLedgerSameHoldings DEF SerialInv, FreshSnap
  <2>3. CASE q = r
    <3>1. target'[r] = p
      BY <1>b, <1>c, <2>3
    <3>2. snap'[r][i] = HoldingsOf(p)[i]
      <4>1. CASE Select(r)
        BY <1>a, <4>1 DEF Select, TypeOK
      <4>2. CASE DeleteBegins(r) \/ DeleteEnds(r)
        BY <1>a, <1>b, <2>1, <2>3, <3>1, <4>2
        DEF DeleteBegins, DeleteEnds, SerialInv, FreshSnap, TypeOK
      <4>. QED BY <2>3, <4>1, <4>2
        DEF SaveReload, SaveFails, SelectFails, Rollback, UpsertFails, Finish, TypeOK
    <3>. QED BY <1>b, <2>1, <2>3, <3>1, <3>2, SameLedgerSameHoldings
  <2>. QED BY <2>2, <2>3
<1>4. Agreement'
  <2> SUFFICES ASSUME NEW o \in portfolios',
                      \A q \in InFlight(o)' : pc'[q] \notin RecalcSteps, ~unsettled'[o],
                      NEW i \in Instrument
               PROVE  positions'[o][i] = HoldingsOf(o)'[i]
    BY DEF Agreement
  <2>1. o \in Portfolio /\ o \in portfolios
    BY <1>b DEF TypeOK
  <2>2. ~unsettled[o] /\ \A q \in InFlight(o) : pc[q] \notin RecalcSteps
    <3>1. CASE o # p
      <4>1. ~unsettled[o]
        BY <1>a, <2>1, <3>1 DEF TypeOK, SaveReload, SaveFails, Select, SelectFails,
                                DeleteBegins, DeleteEnds, Rollback, UpsertFails
      <4>. QED BY <1>a, <1>b, <3>1, <4>1 DEF InFlight
    <3>2. CASE o = p
      <4>1. SaveReload(r) \/ SaveFails(r) \/ UpsertFails(r)
        BY <1>a, <1>b, <2>1, <3>2
        DEF TypeOK, InFlight, Select, SelectFails, DeleteBegins, DeleteEnds, Rollback,
            RecalcSteps
      <4>2. ~unsettled[o] /\ pc[r] \notin RecalcSteps
        BY <4>1 DEF SaveReload, SaveFails, UpsertFails, UpsertReady, RecalcSteps
      <4>. QED BY <1>b, <3>2, <4>2 DEF InFlight
    <3>. QED BY <3>1, <3>2
  <2>. QED BY <1>b, <2>1, <2>2, SameLedgerSameHoldings DEF SerialInv, Agreement
<1>. QED BY <1>1, <1>2, <1>3, <1>4 DEF TablesInv

--------------------------------------------------------------------------------
(* The steps that change the positions.                                         *)

\* The ledger mentions existing portfolios and instruments only, and so do totals.
LEMMA HoldingsExist ==
  ASSUME References, NEW p \in Portfolio, NEW i \in Instrument,
         p \notin portfolios \/ i \notin instruments
  PROVE  HoldingsOf(p)[i] = NoPosition
<1>1. LotsOf(p, i) = {}
  BY DEF LotsOf, References
<1>. QED BY <1>1, NoLotsNoHolding

\* The transaction that replaces the positions leaves exactly what was read.
LEMMA CommitReplaces ==
  ASSUME NEW r \in Request, NEW p \in Portfolio, target[r] = p,
         TypeOK, SerialInv, Commit(r)
  PROVE  /\ \A i \in Instrument : positions'[p][i] = snap[r][i]
         /\ \A o \in Portfolio \ {p} : positions'[o] = positions[o]
<1>1. rows[r] = Stored(positions[p])
  BY DEF Commit, InsertsReady, SerialInv, AllRowsRead
<1>2. positions'[p] = [i \in Instrument |->
          IF snap[r][i] # NoPosition THEN snap[r][i]
          ELSE IF i \in rows[r] THEN NoPosition ELSE positions[p][i]]
  BY DEF Commit, TypeOK
<1>. QED BY <1>1, <1>2 DEF Commit, TypeOK, Stored

LEMMA CommitInv ==
  ASSUME NEW r \in Request, TypeOK, TypeOK', SerialInv, Commit(r)
  PROVE  TablesInv'
<1> USE ConstantsAssumption
<1>a. PICK p \in Portfolio : target[r] = p
  BY DEF TypeOK, Commit, InsertsReady
<1>b. /\ UNCHANGED <<portfolios, instruments, ledger>>
      /\ pc'[r] = "idle" /\ target'[r] = None /\ entity'[r] = None
      /\ \A q \in Request \ {r} :
           /\ pc'[q] = pc[q] /\ target'[q] = target[q] /\ entity'[q] = entity[q]
           /\ snap'[q] = snap[q] /\ target[q] # p /\ rows'[q] = rows[q]
  BY <1>a DEF Commit, Finish, RowsGone, TypeOK, SerialInv, OneRequest
<1>c. /\ \A i \in Instrument : positions'[p][i] = snap[r][i]
      /\ \A o \in Portfolio \ {p} : positions'[o] = positions[o]
  BY <1>a, CommitReplaces
<1>d. \A i \in Instrument : snap[r][i] # NoPosition => p \in portfolios /\ i \in instruments
  BY <1>a DEF Commit, InsertsValid, Stored
<1>1. References'
  BY <1>b, <1>c, <1>d DEF SerialInv, References
<1>2. HeldRows'
  BY <1>b DEF SerialInv, HeldRows
<1>3. FreshSnap'
  <2> SUFFICES ASSUME NEW q \in Request, pc'[q] \in {"replace", "delete", "commit"},
                      target'[q] \in portfolios', NEW i \in instruments'
               PROVE  snap'[q][i] = HoldingsOf(target[q])'[i]
    BY DEF FreshSnap
  <2>1. q # r /\ i \in Instrument
    BY <1>b DEF TypeOK
  <2>2. PICK o \in Portfolio : o = target[q] /\ o = target'[q]
    BY <1>b, <2>1 DEF TypeOK
  <2>. QED BY <1>b, <2>1, <2>2, SameLedgerSameHoldings DEF SerialInv, FreshSnap
<1>4. Agreement'
  <2> SUFFICES ASSUME NEW o \in portfolios',
                      \A q \in InFlight(o)' : pc'[q] \notin RecalcSteps, ~unsettled'[o],
                      NEW i \in Instrument
               PROVE  positions'[o][i] = HoldingsOf(o)'[i]
    BY DEF Agreement
  <2>1. o \in Portfolio /\ o \in portfolios
    BY <1>b DEF TypeOK
  <2>2. CASE o = p
    <3>1. CASE i \in instruments
      BY <1>a, <1>b, <1>c, <2>1, <2>2, <3>1, SameLedgerSameHoldings
      DEF SerialInv, FreshSnap, Commit, InsertsReady
    <3>2. CASE i \notin instruments
      <4>1. HoldingsOf(p)[i] = NoPosition
        BY <3>2, HoldingsExist DEF SerialInv
      <4>. QED BY <1>b, <1>c, <1>d, <2>2, <3>2, <4>1, SameLedgerSameHoldings
    <3>. QED BY <3>1, <3>2
  <2>3. CASE o # p
    <3>1. ~unsettled[o]
      BY <1>a, <2>1, <2>3 DEF Commit, TypeOK
    <3>2. \A q \in InFlight(o) : pc[q] \notin RecalcSteps
      BY <1>a, <1>b, <2>3 DEF InFlight
    <3>. QED BY <1>b, <1>c, <2>1, <2>3, <3>1, <3>2, SameLedgerSameHoldings
      DEF SerialInv, Agreement
  <2>. QED BY <2>2, <2>3
<1>. QED BY <1>1, <1>2, <1>3, <1>4 DEF TablesInv

--------------------------------------------------------------------------------
(* Portfolios and instruments come and go; the process dies.                    *)

LEMMA CreatePortfolioInv ==
  ASSUME NEW p \in Portfolio, TypeOK, TypeOK', SerialInv, CreatePortfolio(p)
  PROVE  TablesInv'
<1> USE ConstantsAssumption
<1>a. /\ UNCHANGED <<instruments, ledger, positions, requests, unsettled>>
      /\ portfolios' = portfolios \cup {p} /\ p \notin portfolios
      /\ \A q \in Request : target[q] # p
  BY DEF CreatePortfolio, InFlight
<1>1. References'
  BY <1>a DEF SerialInv, References
<1>2. HeldRows'
  BY <1>a DEF SerialInv, HeldRows, requests
<1>3. FreshSnap'
  <2> SUFFICES ASSUME NEW q \in Request, pc'[q] \in {"replace", "delete", "commit"},
                      target'[q] \in portfolios', NEW i \in instruments'
               PROVE  snap'[q][i] = HoldingsOf(target[q])'[i]
    BY DEF FreshSnap
  <2>1. PICK o \in Portfolio : o = target[q] /\ o = target'[q] /\ o \in portfolios
    BY <1>a DEF TypeOK, requests
  <2>2. i \in Instrument /\ i \in instruments
    BY <1>a DEF TypeOK
  <2>. QED BY <1>a, <2>1, <2>2, SameLedgerSameHoldings DEF SerialInv, FreshSnap, requests
<1>4. Agreement'
  <2> SUFFICES ASSUME NEW o \in portfolios',
                      \A q \in InFlight(o)' : pc'[q] \notin RecalcSteps, ~unsettled'[o],
                      NEW i \in Instrument
               PROVE  positions'[o][i] = HoldingsOf(o)'[i]
    BY DEF Agreement
  <2>1. CASE o = p
    <3>1. positions[p][i] = NoPosition /\ HoldingsOf(p)[i] = NoPosition
      BY <1>a, HoldingsExist DEF SerialInv, References
    <3>. QED BY <1>a, <2>1, <3>1, SameLedgerSameHoldings
  <2>2. CASE o # p
    <3>1. o \in portfolios /\ o \in Portfolio
      BY <1>a, <2>2 DEF TypeOK
    <3>2. ~unsettled[o] /\ \A q \in InFlight(o) : pc[q] \notin RecalcSteps
      BY <1>a DEF InFlight, requests
    <3>. QED BY <1>a, <3>1, <3>2, SameLedgerSameHoldings DEF SerialInv, Agreement
  <2>. QED BY <2>1, <2>2
<1>. QED BY <1>1, <1>2, <1>3, <1>4 DEF TablesInv

LEMMA DeletePortfolioInv ==
  ASSUME NEW p \in Portfolio, TypeOK, TypeOK', SerialInv, DeletePortfolio(p)
  PROVE  TablesInv'
<1> USE ConstantsAssumption
<1>a. /\ UNCHANGED <<instruments, pc, target, entity, snap>>
      /\ portfolios' = portfolios \ {p}
      /\ positions'[p] = NoSnap
      /\ \A o \in Portfolio \ {p} : /\ positions'[o] = positions[o]
                                    /\ unsettled'[o] = unsettled[o]
      /\ \A q \in Request : rows'[q] = IF target[q] = p THEN {} ELSE rows[q]
  <2>1. \A q \in Request : rows[q] \ Instrument = {}
    BY DEF TypeOK
  <2>2. \A q \in Request : rows'[q] = IF target[q] = p THEN {} ELSE rows[q]
    BY <2>1 DEF DeletePortfolio, RowsGone
  <2>3. /\ positions'[p] = NoSnap
        /\ \A o \in Portfolio \ {p} : /\ positions'[o] = positions[o]
                                      /\ unsettled'[o] = unsettled[o]
    BY DEF DeletePortfolio, TypeOK
  <2>. QED BY <2>2, <2>3 DEF DeletePortfolio
<1>b. \A t \in Txn : IF ledger[t] # None /\ ledger[t].pf = p
                     THEN ledger'[t] = None ELSE ledger'[t] = ledger[t]
  BY DEF DeletePortfolio, Without, TxnsOf
<1>c. ASSUME NEW o \in Portfolio \ {p}, NEW i \in Instrument
      PROVE  HoldingsOf(o)'[i] = HoldingsOf(o)[i]
  <2>1. \A t \in Txn : t \in LotsOf(o, i) \/ t \in LotsOf(o, i)' => ledger'[t] = ledger[t]
    BY <1>b DEF LotsOf
  <2>. QED BY <2>1, HoldingsFrame
<1>1. References'
  BY <1>a, <1>b DEF SerialInv, References, NoSnap
<1>2. HeldRows'
  <2>1. \A r \in Request : entity[r] # None => entity[r].txn \in Txn
    BY DEF TypeOK, Entity
  <2>. QED BY <1>a, <1>b, <2>1 DEF SerialInv, HeldRows
<1>3. FreshSnap'
  <2> SUFFICES ASSUME NEW q \in Request, pc'[q] \in {"replace", "delete", "commit"},
                      target'[q] \in portfolios', NEW i \in instruments'
               PROVE  snap'[q][i] = HoldingsOf(target[q])'[i]
    BY DEF FreshSnap
  <2>1. PICK o \in Portfolio \ {p} : o = target[q] /\ o = target'[q] /\ o \in portfolios
    BY <1>a DEF TypeOK
  <2>2. i \in Instrument /\ i \in instruments
    BY <1>a DEF TypeOK
  <2>. QED BY <1>a, <1>c, <2>1, <2>2 DEF SerialInv, FreshSnap
<1>4. Agreement'
  <2> SUFFICES ASSUME NEW o \in portfolios',
                      \A q \in InFlight(o)' : pc'[q] \notin RecalcSteps, ~unsettled'[o],
                      NEW i \in Instrument
               PROVE  positions'[o][i] = HoldingsOf(o)'[i]
    BY DEF Agreement
  <2>1. o \in Portfolio \ {p} /\ o \in portfolios
    BY <1>a DEF TypeOK
  <2>2. ~unsettled[o] /\ \A q \in InFlight(o) : pc[q] \notin RecalcSteps
    BY <1>a, <2>1 DEF InFlight
  <2>. QED BY <1>a, <1>c, <2>1, <2>2 DEF SerialInv, Agreement
<1>. QED BY <1>1, <1>2, <1>3, <1>4 DEF TablesInv

LEMMA DeleteInstrumentInv ==
  ASSUME NEW j \in Instrument, TypeOK, TypeOK', SerialInv, DeleteInstrument(j)
  PROVE  TablesInv'
<1> USE ConstantsAssumption
<1>a. /\ UNCHANGED <<portfolios, pc, target, entity, snap, unsettled>>
      /\ instruments' = instruments \ {j}
      /\ \A o \in Portfolio, i \in Instrument :
           positions'[o][i] = IF i = j THEN NoPosition ELSE positions[o][i]
      /\ \A q \in Request : rows'[q] = rows[q] \ {j}
  BY DEF DeleteInstrument, TypeOK
<1>b. \A t \in Txn : IF ledger[t] # None /\ ledger[t].ins = j
                     THEN ledger'[t] = None ELSE ledger'[t] = ledger[t]
  BY DEF DeleteInstrument, Without
<1>c. ASSUME NEW o \in Portfolio, NEW i \in Instrument \ {j}
      PROVE  HoldingsOf(o)'[i] = HoldingsOf(o)[i]
  <2>1. \A t \in Txn : t \in LotsOf(o, i) \/ t \in LotsOf(o, i)' => ledger'[t] = ledger[t]
    BY <1>b DEF LotsOf
  <2>. QED BY <2>1, HoldingsFrame
<1>d. ASSUME NEW o \in Portfolio
      PROVE  HoldingsOf(o)'[j] = NoPosition
  <2>1. LotsOf(o, j)' = {}
    BY <1>b DEF LotsOf
  <2>. QED BY <2>1 DEF HoldingsOf
<1>1. References'
  BY <1>a, <1>b DEF SerialInv, References
<1>2. HeldRows'
  <2>1. \A r \in Request : entity[r] # None => entity[r].txn \in Txn
    BY DEF TypeOK, Entity
  <2>. QED BY <1>a, <1>b, <2>1 DEF SerialInv, HeldRows
<1>3. FreshSnap'
  <2> SUFFICES ASSUME NEW q \in Request, pc'[q] \in {"replace", "delete", "commit"},
                      target'[q] \in portfolios', NEW i \in instruments'
               PROVE  snap'[q][i] = HoldingsOf(target[q])'[i]
    BY DEF FreshSnap
  <2>1. PICK o \in Portfolio : o = target[q] /\ o = target'[q] /\ o \in portfolios
    BY <1>a DEF TypeOK
  <2>2. i \in Instrument \ {j} /\ i \in instruments
    BY <1>a DEF TypeOK
  <2>. QED BY <1>a, <1>c, <2>1, <2>2 DEF SerialInv, FreshSnap
<1>4. Agreement'
  <2> SUFFICES ASSUME NEW o \in portfolios',
                      \A q \in InFlight(o)' : pc'[q] \notin RecalcSteps, ~unsettled'[o],
                      NEW i \in Instrument
               PROVE  positions'[o][i] = HoldingsOf(o)'[i]
    BY DEF Agreement
  <2>1. o \in Portfolio /\ o \in portfolios
    BY <1>a DEF TypeOK
  <2>2. ~unsettled[o] /\ \A q \in InFlight(o) : pc[q] \notin RecalcSteps
    BY <1>a DEF InFlight
  <2>3. CASE i = j
    BY <1>a, <1>d, <2>1, <2>3
  <2>4. CASE i # j
    BY <1>a, <1>c, <2>1, <2>2, <2>4 DEF SerialInv, Agreement
  <2>. QED BY <2>3, <2>4
<1>. QED BY <1>1, <1>2, <1>3, <1>4 DEF TablesInv

LEMMA CrashInv ==
  ASSUME TypeOK, TypeOK', SerialInv, Crash
  PROVE  TablesInv'
<1> USE ConstantsAssumption
<1>a. /\ UNCHANGED tables
      /\ \A r \in Request : pc'[r] = "idle" /\ target'[r] = None /\ entity'[r] = None
  BY DEF Crash
<1>1. References' /\ HeldRows' /\ FreshSnap'
  BY <1>a DEF SerialInv, References, HeldRows, FreshSnap, tables
<1>2. Agreement'
  <2> SUFFICES ASSUME NEW o \in portfolios', ~unsettled'[o], NEW i \in Instrument
               PROVE  positions'[o][i] = HoldingsOf(o)'[i]
    BY DEF Agreement
  <2>1. o \in Portfolio /\ o \in portfolios
    BY <1>a DEF TypeOK, tables
  <2>2. ~unsettled[o] /\ \A q \in InFlight(o) : pc[q] \notin RecalcSteps
    BY <2>1 DEF Crash
  <2>. QED BY <1>a, <2>1, <2>2, SameLedgerSameHoldings DEF SerialInv, Agreement, tables
<1>. QED BY <1>1, <1>2 DEF TablesInv

--------------------------------------------------------------------------------
(* The steps that edit the positions by hand, and the import of a portfolio:     *)
(* they leave the portfolio unsettled.                                           *)

\* Positions of p change and p is unsettled from then on; nothing else does but
\* the local state of the one request about p, which ends.
EditStep(p) ==
    /\ UNCHANGED <<portfolios, instruments, ledger>>
    /\ \A o \in Portfolio \ {p} : positions'[o] = positions[o] /\ unsettled'[o] = unsettled[o]
    /\ p \in portfolios => unsettled'[p]
    /\ \A i \in Instrument : positions'[p][i] # NoPosition =>
         positions[p][i] # NoPosition \/ (p \in portfolios /\ i \in instruments)
    /\ \A q \in Request :
         \/ pc'[q] = "idle" /\ target'[q] = None /\ entity'[q] = None /\ target[q] = p
         \/ /\ pc'[q] = pc[q] /\ target'[q] = target[q] /\ entity'[q] = entity[q]
            /\ snap'[q] = snap[q]

LEMMA EditStepInv ==
  ASSUME NEW p \in Portfolio, TypeOK, TypeOK', SerialInv, EditStep(p)
  PROVE  TablesInv'
<1> USE ConstantsAssumption
<1>1. References'
  BY DEF SerialInv, References, EditStep
<1>2. HeldRows'
  BY DEF SerialInv, HeldRows, EditStep
<1>3. FreshSnap'
  <2> SUFFICES ASSUME NEW q \in Request, pc'[q] \in {"replace", "delete", "commit"},
                      target'[q] \in portfolios', NEW i \in instruments'
               PROVE  snap'[q][i] = HoldingsOf(target[q])'[i]
    BY DEF FreshSnap, EditStep
  <2>1. /\ pc'[q] = pc[q] /\ target'[q] = target[q] /\ snap'[q] = snap[q]
        /\ i \in Instrument
    BY DEF EditStep, TypeOK
  <2>2. PICK o \in Portfolio : o = target[q]
    BY <2>1 DEF EditStep, TypeOK
  <2>. QED BY <2>1, <2>2, SameLedgerSameHoldings DEF SerialInv, FreshSnap, EditStep
<1>4. Agreement'
  <2> SUFFICES ASSUME NEW o \in portfolios',
                      \A q \in InFlight(o)' : pc'[q] \notin RecalcSteps, ~unsettled'[o],
                      NEW i \in Instrument
               PROVE  positions'[o][i] = HoldingsOf(o)'[i]
    BY DEF Agreement
  <2>1. o \in Portfolio \ {p} /\ o \in portfolios /\ ~unsettled[o]
    BY DEF EditStep, TypeOK
  <2>2. \A q \in InFlight(o) : pc[q] \notin RecalcSteps
    BY <2>1 DEF EditStep, InFlight
  <2>. QED BY <2>1, <2>2, SameLedgerSameHoldings DEF SerialInv, Agreement, EditStep
<1>. QED BY <1>1, <1>2, <1>3, <1>4 DEF TablesInv

LEMMA UpsertSaveEdits ==
  ASSUME NEW r \in Request, TypeOK, TypeOK', SerialInv, UpsertSave(r)
  PROVE  \E p \in Portfolio : EditStep(p)
<1> USE ConstantsAssumption
<1>1. PICK p \in Portfolio : target[r] = p
  BY DEF TypeOK, UpsertSave, UpsertReady
<1>2. \A i \in Instrument : positions'[p][i] =
        IF snap[r][i] # NoPosition THEN snap[r][i] ELSE positions[p][i]
  BY <1>1 DEF UpsertSave, TypeOK
<1>3. ASSUME NEW i \in Instrument, snap[r][i] # NoPosition
      PROVE  positions[p][i] # NoPosition \/ (p \in portfolios /\ i \in instruments)
  <2>1. i \in Stored(snap[r])
    BY <1>3 DEF Stored
  <2>2. CASE rows[r] = {}
    BY <1>1, <2>1, <2>2 DEF UpsertSave, UpsertValid
  <2>3. CASE rows[r] # {}
    <3>1. i \in Stored(positions[p])
      BY <1>1, <2>1, <2>3 DEF UpsertSave, UpsertReady, SerialInv, UpsertRead, ReadToPut
    <3>. QED BY <3>1 DEF Stored
  <2>. QED BY <2>2, <2>3
<1>4. /\ UNCHANGED <<portfolios, instruments, ledger>>
      /\ \A o \in Portfolio \ {p} : positions'[o] = positions[o] /\ unsettled'[o] = unsettled[o]
      /\ p \in portfolios => unsettled'[p]
      /\ pc'[r] = "idle" /\ target'[r] = None /\ entity'[r] = None
      /\ \A q \in Request \ {r} : /\ pc'[q] = pc[q] /\ target'[q] = target[q]
                                  /\ entity'[q] = entity[q] /\ snap'[q] = snap[q]
  <2>1. /\ UNCHANGED <<portfolios, instruments, ledger>>
        /\ \A o \in Portfolio \ {p} : positions'[o] = positions[o]
    BY <1>1 DEF UpsertSave, TypeOK
  <2>3. /\ \A o \in Portfolio \ {p} : unsettled'[o] = unsettled[o]
        /\ p \in portfolios => unsettled'[p]
    BY <1>1 DEF UpsertSave, TypeOK
  <2>2. /\ pc'[r] = "idle" /\ target'[r] = None /\ entity'[r] = None
        /\ \A q \in Request \ {r} : /\ pc'[q] = pc[q] /\ target'[q] = target[q]
                                    /\ entity'[q] = entity[q] /\ snap'[q] = snap[q]
    BY <1>1 DEF UpsertSave, Finish, TypeOK
  <2>. QED BY <2>1, <2>2, <2>3
<1>5. EditStep(p)
  BY <1>1, <1>2, <1>3, <1>4 DEF EditStep
<1>. QED BY <1>5

LEMMA ErasePositionsEdits ==
  ASSUME NEW p \in Portfolio, NEW I, TypeOK, ErasePositions(p, I)
  PROVE  EditStep(p)
  BY DEF TypeOK, ErasePositions, EditStep

LEMMA ImportPortfolioInv ==
  ASSUME NEW p \in Portfolio, NEW T \in SUBSET Txn, NEW imported \in [T -> InputRow(p)],
         TypeOK, TypeOK', SerialInv, ImportPortfolio(p, T, imported)
  PROVE  TablesInv'
<1> USE ConstantsAssumption
<1>a. /\ UNCHANGED <<instruments, positions, requests>>
      /\ portfolios' = portfolios \cup {p} /\ p \notin portfolios /\ unsettled'[p]
      /\ \A o \in Portfolio \ {p} : unsettled'[o] = unsettled[o]
      /\ \A q \in Request : target[q] # p
  BY DEF ImportPortfolio, InFlight, TypeOK
<1>b. \A t \in Txn : ledger'[t] # ledger[t] =>
        /\ ledger[t] = None /\ ledger'[t].pf = p /\ ledger'[t].ins \in instruments
        /\ \A q \in Request : entity[q] = None \/ entity[q].txn # t
  BY DEF ImportPortfolio, FreeTxns
<1>c. ASSUME NEW o \in Portfolio \ {p}, NEW i \in Instrument
      PROVE  HoldingsOf(o)'[i] = HoldingsOf(o)[i]
  <2>1. \A t \in Txn : t \in LotsOf(o, i) \/ t \in LotsOf(o, i)' => ledger'[t] = ledger[t]
    BY <1>b DEF LotsOf
  <2>. QED BY <2>1, HoldingsFrame
<1>1. References'
  BY <1>a, <1>b DEF SerialInv, References
<1>2. HeldRows'
  <2>1. \A q \in Request : entity[q] # None => entity[q].txn \in Txn
    BY DEF TypeOK, Entity
  <2>. QED BY <1>a, <1>b, <2>1 DEF SerialInv, HeldRows, requests
<1>3. FreshSnap'
  <2> SUFFICES ASSUME NEW q \in Request, pc'[q] \in {"replace", "delete", "commit"},
                      target'[q] \in portfolios', NEW i \in instruments'
               PROVE  snap'[q][i] = HoldingsOf(target[q])'[i]
    BY DEF FreshSnap
  <2>1. PICK o \in Portfolio \ {p} : o = target[q] /\ o = target'[q] /\ o \in portfolios
    BY <1>a DEF TypeOK, requests
  <2>2. i \in Instrument /\ i \in instruments
    BY <1>a DEF TypeOK
  <2>. QED BY <1>a, <1>c, <2>1, <2>2 DEF SerialInv, FreshSnap, requests
<1>4. Agreement'
  <2> SUFFICES ASSUME NEW o \in portfolios',
                      \A q \in InFlight(o)' : pc'[q] \notin RecalcSteps, ~unsettled'[o],
                      NEW i \in Instrument
               PROVE  positions'[o][i] = HoldingsOf(o)'[i]
    BY DEF Agreement
  <2>1. o \in Portfolio \ {p} /\ o \in portfolios
    BY <1>a DEF TypeOK
  <2>2. ~unsettled[o] /\ \A q \in InFlight(o) : pc[q] \notin RecalcSteps
    BY <1>a, <2>1 DEF InFlight, requests
  <2>. QED BY <1>a, <1>c, <2>1, <2>2 DEF SerialInv, Agreement
<1>. QED BY <1>1, <1>2, <1>3, <1>4 DEF TablesInv

--------------------------------------------------------------------------------
(* The row that a request has read to put a position.                           *)

LEMMA StillReadToPut ==
  ASSUME NEW r \in Request, ReadToPut(r), target'[r] = target[r], snap'[r] = snap[r],
         rows'[r] \subseteq rows[r],
         \A i \in rows'[r] : positions'[target[r]][i] = positions[target[r]][i]
  PROVE  ReadToPut(r)'
<1>1. Stored(snap[r])' = Stored(snap[r])
  BY DEF Stored
<1>2. rows'[r] \subseteq Stored(positions[target[r]])'
  BY DEF ReadToPut, Stored
<1>. QED BY <1>1, <1>2 DEF ReadToPut

LEMMA NextUpsertRead ==
  ASSUME "overlap" \notin Behaviour, TypeOK, OneRequest, UpsertRead, [Next]_vars
  PROVE  UpsertRead'
<1> USE ConstantsAssumption DEF TypeOK
<1>a. ASSUME UNCHANGED positions,
             \A q \in Request : pc'[q] = "upsert" =>
               /\ pc[q] = "upsert" /\ target'[q] = target[q]
               /\ snap'[q] = snap[q] /\ rows'[q] = rows[q]
      PROVE  UpsertRead'
  BY <1>a, StillReadToPut DEF UpsertRead
<1>b. ASSUME NEW r \in Request, target[r] \in Portfolio, pc'[r] # "upsert",
             \A o \in Portfolio \ {target[r]} : positions'[o] = positions[o],
             \A q \in Request \ {r} :
               /\ target'[q] = target[q] /\ pc'[q] = pc[q] /\ snap'[q] = snap[q]
               /\ target[q] # target[r] => rows'[q] = rows[q]
      PROVE  UpsertRead'
  <2>1. ASSUME NEW q \in Request, pc'[q] = "upsert" PROVE ReadToPut(q)'
    <3>1. /\ q # r /\ pc[q] = "upsert" /\ target'[q] = target[q] /\ snap'[q] = snap[q]
          /\ target[q] \in Portfolio \ {target[r]}
      BY <1>b, <2>1 DEF OneRequest
    <3>. QED BY <1>b, <2>1, <3>1, StillReadToPut DEF UpsertRead
  <2>. QED BY <2>1 DEF UpsertRead
<1>c. ASSUME UNCHANGED <<pc, target, snap>>,
             \A q \in Request : pc[q] = "upsert" =>
               /\ rows'[q] \subseteq rows[q]
               /\ \A i \in rows'[q] :
                    positions'[target[q]][i] = positions[target[q]][i]
      PROVE  UpsertRead'
  BY <1>c, StillReadToPut DEF UpsertRead
<1>1. ASSUME NEW r \in Request, NEW p \in Portfolio, Start(r, p)
      PROVE  UpsertRead'
  <2>1. ASSUME NEW i \in Instrument, NEW units \in UnitValue, UpsertFind(r, p, i, units)
        PROVE  UpsertRead'
    <3>1. /\ positions' = positions /\ target'[r] = p
          /\ snap'[r] = [NoSnap EXCEPT ![i] = units] /\ units # NoPosition
          /\ rows'[r] = Stored(positions[p]) \cap {i}
          /\ \A q \in Request \ {r} : /\ pc'[q] = pc[q] /\ target'[q] = target[q]
                                      /\ snap'[q] = snap[q] /\ rows'[q] = rows[q]
      BY <2>1 DEF UpsertFind, Enter, tables, NoPosition
    <3>2. Stored(snap'[r]) = {i}
      BY <3>1 DEF Stored, NoSnap
    <3>3. ReadToPut(r)'
      <4>1. Stored(snap[r])' = {i}
        BY <3>2 DEF Stored
      <4>2. rows'[r] \subseteq Stored(positions[target[r]])'
        BY <3>1 DEF Stored
      <4>. QED BY <3>1, <4>1, <4>2 DEF ReadToPut
    <3>4. ASSUME NEW q \in Request \ {r}, pc'[q] = "upsert" PROVE ReadToPut(q)'
      BY <3>1, <3>4, StillReadToPut DEF UpsertRead
    <3>. QED BY <3>3, <3>4 DEF UpsertRead
  <2>2. CASE ~\E i \in Instrument, units \in UnitValue : UpsertFind(r, p, i, units)
    BY <1>1, <1>a, <2>2 DEF Start, Create, ApplyTemplateBuy, UpdateFind, RemoveFind, ClearAll,
                Recalculate, Enter, tables
  <2>. QED BY <2>1, <2>2
<1>2. ASSUME NEW r \in Request, Continue(r)
      PROVE  UpsertRead'
  <2>1. CASE \/ SaveReload(r) \/ SaveUpdate(r) \/ SaveInsert(r) \/ RemoveWrite(r)
             \/ Select(r) \/ DeleteBegins(r) \/ DeleteEnds(r)
    BY <1>a, <2>1 DEF SaveReload, SaveUpdate, SaveInsert, RemoveWrite, Select, DeleteBegins,
                      DeleteEnds, tables
  <2>2. CASE \/ SaveFails(r) \/ SelectFails(r) \/ Rollback(r) \/ UpsertFails(r)
             \/ Commit(r) \/ UpsertSave(r)
    <3>1. /\ pc'[r] = "idle" /\ target[r] \in Portfolio
          /\ \A q \in Request \ {r} : /\ target'[q] = target[q] /\ pc'[q] = pc[q]
                                      /\ snap'[q] = snap[q]
      BY <2>2 DEF SaveFails, SelectFails, Rollback, UpsertFails, Commit, UpsertSave, Finish,
                  InsertsReady, UpsertReady
    <3>2. /\ \A o \in Portfolio \ {target[r]} : positions'[o] = positions[o]
          /\ \A q \in Request \ {r} : target[q] # target[r] => rows'[q] = rows[q]
      BY <2>2 DEF SaveFails, SelectFails, Rollback, UpsertFails, Commit, UpsertSave, tables,
                  RowsGone
    <3>. QED BY <1>b, <3>1, <3>2
  <2>. QED BY <1>2, <2>1, <2>2 DEF Continue
<1>3. ASSUME NEW p \in Portfolio, Administer(p)
      PROVE  UpsertRead'
  <2>1. ASSUME NEW I, ErasePositions(p, I) PROVE UpsertRead'
    BY <1>c, <2>1 DEF ErasePositions, RowsGone
  <2>2. CASE \/ CreatePortfolio(p)
             \/ \E T \in SUBSET Txn : \E imported \in [T -> InputRow(p)] :
                  ImportPortfolio(p, T, imported)
    BY <1>a, <2>2 DEF CreatePortfolio, ImportPortfolio, requests
  <2>3. CASE DeletePortfolio(p)
    BY <1>c, <2>3 DEF DeletePortfolio, RowsGone
  <2>. QED BY <1>3, <2>1, <2>2, <2>3 DEF Administer, RemovePosition, ClearPositions
<1>4. ASSUME NEW i \in Instrument, DeleteInstrument(i)
      PROVE  UpsertRead'
  BY <1>c, <1>4 DEF DeleteInstrument
<1>5. CASE Crash
  BY <1>5 DEF Crash, UpsertRead
<1>6. CASE UNCHANGED vars
  BY <1>6, <1>a DEF vars
<1>. QED BY <1>1, <1>2, <1>3, <1>4, <1>5, <1>6 DEF Next

--------------------------------------------------------------------------------

LEMMA InitSerialInv ==
  ASSUME Init
  PROVE  SerialInv
<1> USE ConstantsAssumption
<1>1. OneRequest /\ References /\ HeldRows /\ FreshSnap /\ AllRowsRead /\ UpsertRead
  BY DEF Init, OneRequest, References, HeldRows, FreshSnap, AllRowsRead, UpsertRead, NoSnap
<1>2. Agreement
  BY DEF Init, Agreement
<1>. QED BY <1>1, <1>2 DEF SerialInv

LEMMA NextTablesInv ==
  ASSUME "overlap" \notin Behaviour, TypeOK, TypeOK', SerialInv, [Next]_vars
  PROVE  TablesInv'
<1>1. ASSUME NEW r \in Request, NEW p \in Portfolio, Start(r, p)
      PROVE  TablesInv'
  <2>1. CASE \/ \E row \in InputRow(p) : Create(r, p, row)
             \/ \E S \in SUBSET Instrument : \E bought \in [S -> UnitValue] :
                   ApplyTemplateBuy(r, p, bought)
             \/ ClearAll(r, p)
    BY <2>1, StartLedgerStep, LedgerStepInv
  <2>2. CASE \/ \E t \in Txn, i \in Instrument, type \in UsedType \cup {None},
                   units \in UnitValue \cup {None} : UpdateFind(r, p, t, i, type, units)
             \/ \E t \in Txn : RemoveFind(r, p, t)
             \/ Recalculate(r, p)
             \/ \E i \in Instrument, units \in UnitValue : UpsertFind(r, p, i, units)
    BY <2>2, StartReadingInv
  <2>. QED BY <1>1, <2>1, <2>2 DEF Start
<1>2. ASSUME NEW r \in Request, Continue(r)
      PROVE  TablesInv'
  <2>1. CASE SaveUpdate(r) \/ SaveInsert(r) \/ RemoveWrite(r)
    BY <2>1, ContinueLedgerStep, LedgerStepInv
  <2>2. CASE \/ SaveReload(r) \/ SaveFails(r) \/ Select(r) \/ SelectFails(r)
             \/ DeleteBegins(r) \/ DeleteEnds(r) \/ Rollback(r) \/ UpsertFails(r)
    BY <2>2, ReadStepInv
  <2>3. CASE Commit(r)
    BY <2>3, CommitInv
  <2>4. CASE UpsertSave(r)
    BY <2>4, UpsertSaveEdits, EditStepInv
  <2>. QED BY <1>2, <2>1, <2>2, <2>3, <2>4 DEF Continue
<1>3. ASSUME NEW p \in Portfolio, Administer(p)
      PROVE  TablesInv'
  <2>1. CASE CreatePortfolio(p)
    BY <2>1, CreatePortfolioInv
  <2>2. CASE DeletePortfolio(p)
    BY <2>2, DeletePortfolioInv
  <2>3. CASE \E T \in SUBSET Txn : \E imported \in [T -> InputRow(p)] :
               ImportPortfolio(p, T, imported)
    BY <2>3, ImportPortfolioInv
  <2>4. CASE ClearPositions(p) \/ \E i \in Instrument : RemovePosition(p, i)
    BY <2>4, ErasePositionsEdits, EditStepInv DEF RemovePosition, ClearPositions
  <2>. QED BY <1>3, <2>1, <2>2, <2>3, <2>4 DEF Administer
<1>4. ASSUME NEW i \in Instrument, DeleteInstrument(i)
      PROVE  TablesInv'
  BY <1>4, DeleteInstrumentInv
<1>5. CASE Crash
  BY <1>5, CrashInv
<1>6. CASE UNCHANGED vars
  <2>1. /\ UNCHANGED <<portfolios, instruments, ledger, positions>>
        /\ UNCHANGED <<pc, target, entity, snap, rows, unsettled>>
    BY <1>6 DEF vars
  <2>2. \A p \in Portfolio : HoldingsOf(p)' = HoldingsOf(p)
    BY <2>1 DEF HoldingsOf, UnitsHeld, LotsOf, SignedUnits
  <2>3. References' /\ HeldRows'
    BY <2>1 DEF SerialInv, References, HeldRows
  <2>4. FreshSnap'
    BY <2>1, <2>2 DEF SerialInv, FreshSnap, TypeOK
  <2>5. Agreement'
    BY <2>1, <2>2 DEF SerialInv, Agreement, InFlight, TypeOK
  <2>. QED BY <2>3, <2>4, <2>5 DEF TablesInv
<1>. QED BY <1>1, <1>2, <1>3, <1>4, <1>5, <1>6 DEF Next

LEMMA NextSerialInv ==
  ASSUME "overlap" \notin Behaviour, TypeOK, TypeOK', SerialInv, [Next]_vars
  PROVE  SerialInv'
<1>1. OneRequest /\ AllRowsRead /\ UpsertRead
  BY DEF SerialInv
<1>2. OneRequest' /\ AllRowsRead' /\ UpsertRead'
  BY <1>1, NextOneRequest, NextAllRowsRead, NextUpsertRead
<1>3. TablesInv'
  BY NextTablesInv
<1>. QED BY <1>2, <1>3 DEF SerialInv, TablesInv

\* If clients wait for the answer of each request on a portfolio before they
\* send the next one, then whenever no request on a portfolio is running its
\* positions are what its ledger adds up to, unless a crash or a failed
\* statement cut the last recalculation short, or the positions were edited by
\* hand or the ledger imported after it: whatever was done to the positions,
\* the next recalculation that commits repairs it.
THEOREM SerialAgreement ==
  ASSUME "overlap" \notin Behaviour
  PROVE  Spec => []LedgerPositionsAgree
<1>1. TypeOK /\ SerialInv => LedgerPositionsAgree
  <2> SUFFICES ASSUME TypeOK, SerialInv, NEW p \in portfolios,
                      InFlight(p) = {}, ~unsettled[p]
               PROVE  positions[p] = HoldingsOf(p)
    BY DEF LedgerPositionsAgree
  <2>1. \A i \in Instrument : positions[p][i] = HoldingsOf(p)[i]
    BY DEF SerialInv, Agreement
  <2>2. /\ positions[p] = [i \in Instrument |-> positions[p][i]]
        /\ HoldingsOf(p) = [i \in Instrument |-> HoldingsOf(p)[i]]
    BY DEF TypeOK, HoldingsOf
  <2>. QED BY <2>1, <2>2
<1>2. Init => SerialInv
  BY InitSerialInv
<1>3. TypeOK /\ TypeOK' /\ SerialInv /\ [Next]_vars => SerialInv'
  BY NextSerialInv
<1>. QED BY <1>1, <1>2, <1>3, TypeCorrect, PTL DEF Spec

--------------------------------------------------------------------------------
(* The history of the ledger (LedgerHistory): whatever requests overlap, no      *)
(* position is a number that the ledger of its portfolio never added up to, with *)
(* partial updates, imports, failures and crashes.                               *)

Recalculating == {"replace", "delete", "commit"}

\* A position after a step was there, is gone, or is what a recalculation stored.
PositionsFrom ==
    \A p \in Portfolio, i \in Instrument :
        \/ positions'[p][i] = positions[p][i]
        \/ positions'[p][i] = NoPosition
        \/ \E r \in Request : /\ pc[r] = "commit" /\ target[r] = p
                              /\ positions'[p][i] = snap[r][i]

\* What a recalculation is about to store was so, or is what its ledger adds up to.
SnapsFrom ==
    \A r \in Request : pc'[r] \in Recalculating =>
        /\ target'[r] = target[r] /\ target[r] \in Portfolio
        /\ \/ pc[r] \in Recalculating /\ snap'[r] = snap[r]
           \/ /\ target[r] \in portfolios
              /\ \A i \in Instrument : snap'[r][i] = HoldingsOf(target[r])[i]

\* A portfolio that comes into being has no request and no position.
CreatedClean ==
    \A p \in portfolios' \ portfolios :
        /\ \A r \in Request : target[r] # p
        /\ positions'[p] = positions[p]

StepShape == PositionsFrom /\ SnapsFrom /\ CreatedClean /\ Cascaded'

LEMMA StartShape ==
  ASSUME TypeOK, Cascaded, "manualEdit" \notin Behaviour,
         NEW r \in Request, NEW p \in Portfolio, Start(r, p)
  PROVE  StepShape
<1>1. /\ UNCHANGED <<portfolios, instruments, positions, snap, rows, unsettled>>
      /\ target' = [target EXCEPT ![r] = p]
      /\ \E s \in {"save", "unlink", "recalc"} : pc' = [pc EXCEPT ![r] = s]
  BY DEF Start, Create, ApplyTemplateBuy, UpdateFind, RemoveFind, ClearAll, Recalculate,
         UpsertFind, Enter, tables
<1>2. \A q \in Request : pc'[q] \in Recalculating =>
        /\ q # r /\ pc[q] = pc'[q] /\ target'[q] = target[q]
        /\ target[q] \in Portfolio /\ snap'[q] = snap[q]
  BY <1>1, ConstantsAssumption DEF TypeOK, Recalculating
<1>. QED BY <1>1, <1>2 DEF StepShape, PositionsFrom, SnapsFrom, CreatedClean, Cascaded

\* The steps of a request that touch neither the positions nor the portfolios.
LEMMA ReadShape ==
  ASSUME TypeOK, Cascaded, NEW r \in Request,
         \/ SaveReload(r) \/ SaveUpdate(r) \/ SaveInsert(r) \/ SaveFails(r)
         \/ RemoveWrite(r) \/ Select(r) \/ SelectFails(r)
         \/ DeleteBegins(r) \/ DeleteEnds(r) \/ Rollback(r)
  PROVE  StepShape
<1>1. /\ UNCHANGED <<portfolios, positions>>
      /\ \A q \in Request \ {r} :
           pc'[q] = pc[q] /\ target'[q] = target[q] /\ snap'[q] = snap[q]
  BY DEF SaveReload, SaveUpdate, SaveInsert, SaveFails, RemoveWrite, Select, SelectFails,
         DeleteBegins, DeleteEnds, Rollback, Finish, TypeOK, tables
<1>2. ASSUME pc'[r] \in Recalculating
      PROVE  /\ target'[r] = target[r] /\ target[r] \in Portfolio
             /\ \/ pc[r] \in Recalculating /\ snap'[r] = snap[r]
                \/ /\ target[r] \in portfolios
                   /\ \A i \in Instrument : snap'[r][i] = HoldingsOf(target[r])[i]
  <2>1. CASE Select(r)
    BY <2>1 DEF Select, TypeOK
  <2>2. CASE DeleteBegins(r) \/ DeleteEnds(r)
    BY <2>2, ConstantsAssumption DEF DeleteBegins, DeleteEnds, TypeOK, Recalculating
  <2>. QED BY <1>2, <2>1, <2>2
    DEF SaveReload, SaveUpdate, SaveInsert, SaveFails, RemoveWrite, SelectFails, Rollback,
        Finish, TypeOK, Recalculating
<1>3. SnapsFrom
  <2> SUFFICES ASSUME NEW q \in Request, pc'[q] \in Recalculating
               PROVE  /\ target'[q] = target[q] /\ target[q] \in Portfolio
                      /\ \/ pc[q] \in Recalculating /\ snap'[q] = snap[q]
                         \/ /\ target[q] \in portfolios
                            /\ \A i \in Instrument : snap'[q][i] = HoldingsOf(target[q])[i]
    BY DEF SnapsFrom
  <2>1. CASE q = r
    BY <1>2, <2>1
  <2>2. CASE q # r
    BY <1>1, <2>2, ConstantsAssumption DEF TypeOK, Recalculating
  <2>. QED BY <2>1, <2>2
<1>. QED BY <1>1, <1>3 DEF StepShape, PositionsFrom, CreatedClean, Cascaded

LEMMA CommitShape ==
  ASSUME TypeOK, Cascaded, NEW r \in Request, Commit(r)
  PROVE  StepShape
<1>1. PICK p \in Portfolio : target[r] = p
  BY ConstantsAssumption DEF TypeOK, Commit, InsertsReady
<1>2. /\ UNCHANGED portfolios /\ pc[r] = "commit" /\ pc'[r] = "idle"
      /\ \A o \in Portfolio \ {p} : positions'[o] = positions[o]
      /\ \A i \in Instrument :
           positions'[p][i] = IF snap[r][i] # NoPosition THEN snap[r][i]
                              ELSE IF i \in rows[r] THEN NoPosition ELSE positions[p][i]
      /\ \A q \in Request \ {r} :
           pc'[q] = pc[q] /\ target'[q] = target[q] /\ snap'[q] = snap[q]
  BY <1>1 DEF Commit, InsertsReady, Finish, TypeOK
<1>3. \A i \in Instrument : snap[r][i] # NoPosition => p \in portfolios
  BY <1>1 DEF Commit, InsertsValid, Stored
<1>4. PositionsFrom
  BY <1>1, <1>2 DEF PositionsFrom
<1>5. SnapsFrom
  <2>1. \A q \in Request : pc'[q] \in Recalculating =>
          q # r /\ pc[q] \in Recalculating /\ target[q] \in Portfolio
    BY <1>2, ConstantsAssumption DEF TypeOK, Recalculating
  <2>. QED BY <1>2, <2>1 DEF SnapsFrom
<1>6. Cascaded'
  BY <1>2, <1>3 DEF Cascaded
<1>. QED BY <1>2, <1>4, <1>5, <1>6 DEF StepShape, CreatedClean

LEMMA OtherShape ==
  ASSUME TypeOK, Cascaded,
         \/ \E p \in Portfolio : CreatePortfolio(p) \/ DeletePortfolio(p)
         \/ \E p \in Portfolio, T \in SUBSET Txn : \E imported \in [T -> InputRow(p)] :
               ImportPortfolio(p, T, imported)
         \/ \E i \in Instrument : DeleteInstrument(i)
         \/ UNCHANGED vars
  PROVE  StepShape
<1>1. UNCHANGED <<pc, target, snap>>
  BY DEF CreatePortfolio, ImportPortfolio, DeletePortfolio, DeleteInstrument, requests, vars
<1>2. \A p \in Portfolio, i \in Instrument :
        positions'[p][i] = positions[p][i] \/ positions'[p][i] = NoPosition
  <2>1. CASE \E p \in Portfolio : DeletePortfolio(p)
    BY <2>1 DEF DeletePortfolio, TypeOK, NoSnap
  <2>2. CASE \E i \in Instrument : DeleteInstrument(i)
    BY <2>2 DEF DeleteInstrument, TypeOK
  <2>3. CASE UNCHANGED positions
    BY <2>3
  <2>. QED BY <2>1, <2>2, <2>3 DEF CreatePortfolio, ImportPortfolio, vars
<1>3. CreatedClean
  <2>1. CASE \E p \in Portfolio : CreatePortfolio(p)
    BY <2>1 DEF CreatedClean, CreatePortfolio, InFlight
  <2>2. CASE \E p \in Portfolio, T \in SUBSET Txn : \E imported \in [T -> InputRow(p)] :
               ImportPortfolio(p, T, imported)
    BY <2>2 DEF CreatedClean, ImportPortfolio, InFlight
  <2>3. CASE portfolios' \subseteq portfolios
    BY <2>3 DEF CreatedClean
  <2>. QED BY <2>1, <2>2, <2>3 DEF DeletePortfolio, DeleteInstrument, vars
<1>4. Cascaded'
  <2>1. CASE \E p \in Portfolio : DeletePortfolio(p)
    BY <1>2, <2>1 DEF DeletePortfolio, Cascaded, NoSnap, TypeOK
  <2>2. CASE ~ \E p \in Portfolio : DeletePortfolio(p)
    <3>1. portfolios \subseteq portfolios'
      BY <2>2 DEF CreatePortfolio, ImportPortfolio, DeleteInstrument, vars
    <3>. QED BY <1>2, <3>1 DEF Cascaded
  <2>. QED BY <2>1, <2>2
<1>5. SnapsFrom
  BY <1>1, ConstantsAssumption DEF SnapsFrom, Recalculating, TypeOK
<1>. QED BY <1>2, <1>3, <1>4, <1>5 DEF StepShape, PositionsFrom

LEMMA NextShape ==
  ASSUME TypeOK, Cascaded, NotEditing, "manualEdit" \notin Behaviour, [Next]_vars
  PROVE  StepShape
<1>1. ASSUME NEW r \in Request, Continue(r)
      PROVE  StepShape
  <2>1. CASE UpsertSave(r) \/ UpsertFails(r)
    BY <2>1 DEF UpsertSave, UpsertFails, UpsertReady, NotEditing
  <2>. QED BY <1>1, <2>1, ReadShape, CommitShape DEF Continue
<1>2. ASSUME NEW p \in Portfolio, Administer(p)
      PROVE  StepShape
  BY <1>2, OtherShape
  DEF Administer, RemovePosition, ClearPositions, ErasePositions
<1>3. CASE Crash
  BY <1>3 DEF Crash, tables, StepShape, PositionsFrom, SnapsFrom, CreatedClean, Cascaded,
              Recalculating
<1>. QED BY <1>1, <1>2, <1>3, StartShape, OtherShape DEF Next

LEMMA NotEditingKept ==
  ASSUME TypeOK, NotEditing, "manualEdit" \notin Behaviour, [Next]_vars
  PROVE  NotEditing'
<1>1. ASSUME NEW r \in Request, NEW p \in Portfolio, Start(r, p)
      PROVE  NotEditing'
  BY <1>1 DEF Start, Create, ApplyTemplateBuy, UpdateFind, RemoveFind, ClearAll, Recalculate,
              UpsertFind, Enter, NotEditing, TypeOK
<1>2. ASSUME NEW r \in Request, Continue(r)
      PROVE  NotEditing'
  BY <1>2 DEF Continue, SaveReload, SaveUpdate, SaveInsert, SaveFails, RemoveWrite, Select,
              SelectFails, DeleteBegins, DeleteEnds, Commit, Rollback, UpsertSave,
              UpsertFails, Finish, NotEditing, TypeOK
<1>3. ASSUME NEW p \in Portfolio, Administer(p)
      PROVE  NotEditing'
  BY <1>3 DEF Administer, RemovePosition, ClearPositions, ErasePositions, CreatePortfolio,
              ImportPortfolio, DeletePortfolio, requests, NotEditing
<1>4. CASE (\E i \in Instrument : DeleteInstrument(i)) \/ Crash \/ UNCHANGED vars
  BY <1>4 DEF DeleteInstrument, Crash, vars, NotEditing
<1>. QED BY <1>1, <1>2, <1>3, <1>4 DEF Next

--------------------------------------------------------------------------------

LEMMA HistoryStep ==
  ASSUME TypeOK, HistoryInv, StepShape, Remember
  PROVE  NoPhantomPosition' /\ Remembered'
<1> USE DEF HistoryInv
<1>1. ASSUME NEW p \in Portfolio \ (portfolios' \ portfolios), NEW i \in Instrument
      PROVE  ever'[p][i] = {HoldingsOf(p)'[i]} \cup ever[p][i]
  BY <1>1 DEF Remember
<1>2. ASSUME NEW p \in portfolios' \ portfolios, p \in Portfolio, NEW i \in Instrument
      PROVE  ever'[p][i] = {HoldingsOf(p)'[i]} \cup {NoPosition}
  BY <1>2 DEF Remember
<1>3. NoPhantomPosition'
  <2> SUFFICES ASSUME NEW p \in Portfolio, NEW i \in Instrument
               PROVE  positions'[p][i] \in ever'[p][i]
    BY DEF NoPhantomPosition
  <2>1. CASE p \in portfolios' \ portfolios
    <3>1. positions'[p][i] = NoPosition
      BY <2>1 DEF StepShape, CreatedClean, Cascaded
    <3>. QED BY <1>2, <2>1, <3>1
  <2>2. CASE p \notin portfolios' \ portfolios
    <3>1. positions'[p][i] \in ever[p][i]
      BY DEF StepShape, PositionsFrom, NoPhantomPosition, Remembered
    <3>. QED BY <1>1, <2>2, <3>1
  <2>. QED BY <2>1, <2>2
<1>4. ASSUME NEW p \in Portfolio, NEW i \in Instrument
      PROVE  NoPosition \in ever'[p][i] /\ HoldingsOf(p)'[i] \in ever'[p][i]
  BY <1>1, <1>2 DEF Remembered
<1>5. ASSUME NEW r \in Request, pc'[r] \in Recalculating, NEW i \in Instrument
      PROVE  snap'[r][i] \in ever'[target'[r]][i]
  <2>1. PICK p \in Portfolio : p = target[r] /\ p = target'[r]
    BY <1>5 DEF StepShape, SnapsFrom
  <2>2. p \notin portfolios' \ portfolios
    BY <2>1 DEF StepShape, CreatedClean
  <2>3. snap'[r][i] \in ever[p][i]
    BY <1>5, <2>1 DEF StepShape, SnapsFrom, Remembered, Recalculating
  <2>. QED BY <1>1, <2>1, <2>2, <2>3
<1>6. Remembered'
  BY <1>4, <1>5 DEF Remembered, Recalculating
<1>. QED BY <1>3, <1>6

LEMMA HistoryStutter ==
  ASSUME TypeOK, HistoryInv, UNCHANGED hvars
  PROVE  HistoryInv'
<1>1. UNCHANGED <<portfolios, ledger, positions, pc, target, snap, ever>>
  BY DEF hvars, vars
<1>2. \A p \in Portfolio : HoldingsOf(p)' = HoldingsOf(p)
  BY <1>1 DEF HoldingsOf, UnitsHeld, LotsOf, SignedUnits
<1>3. NoPhantomPosition' /\ Cascaded' /\ NotEditing'
  BY <1>1 DEF HistoryInv, NoPhantomPosition, Cascaded, NotEditing
<1>4. Remembered'
  BY <1>1, <1>2 DEF HistoryInv, Remembered
<1>. QED BY <1>3, <1>4 DEF HistoryInv

LEMMA HistoryInit ==
  ASSUME HInit
  PROVE  HistoryInv
<1>1. \A p \in Portfolio, i \in Instrument : HoldingsOf(p)[i] = NoPosition
  BY DEF HInit, Init, HoldingsOf, LotsOf
<1>. QED BY <1>1 DEF HInit, Init, NoSnap, HistoryInv, NoPhantomPosition, Remembered,
                     Cascaded, NotEditing

\* Unless positions are edited by hand, every stored position is a total that
\* the ledger of its portfolio had at some moment since the portfolio was
\* created, in every interleaving, and after crashes and failed statements.
THEOREM NoPhantoms ==
  ASSUME "manualEdit" \notin Behaviour
  PROVE  HSpec => []NoPhantomPosition
<1>1. HInit => TypeOK /\ HistoryInv
  BY InitTypeOK, HistoryInit DEF HInit
<1>2. TypeOK /\ HistoryInv /\ [HNext]_hvars => TypeOK' /\ HistoryInv'
  <2> SUFFICES ASSUME TypeOK, HistoryInv, [HNext]_hvars
               PROVE  TypeOK' /\ HistoryInv'
    OBVIOUS
  <2>1. CASE HNext
    <3>1. StepShape /\ NotEditing'
      BY <2>1, NextShape, NotEditingKept DEF HNext, HistoryInv
    <3>. QED BY <2>1, <3>1, NextTypeOK, HistoryStep DEF HNext, HistoryInv, StepShape
  <2>2. CASE UNCHANGED hvars
    BY <2>2, HistoryStutter, NextTypeOK DEF hvars
  <2>. QED BY <2>1, <2>2
<1>3. HistoryInv => NoPhantomPosition
  BY DEF HistoryInv
<1>. QED BY <1>1, <1>2, <1>3, PTL DEF HSpec

================================================================================
