SPECIFICATION Spec
CONSTANTS
    Portfolio = {p1, p2}
    Instrument = {i1, i2}
    Txn = {t1, t2}
    Request = {r1}
    UsedType = {"BUY", "SELL", "FEE_CONSOLIDATION"}
    UnitValue <- SmallUnits
    MaxUnits = 2
    Behaviour = {"manualEdit", "import"}
    None = None
INVARIANTS
    TypeOK
    LedgerPositionsAgree
    LedgerUnitsValid
PROPERTIES
    ReplaceIsWhole
    ForeignRowsUntouched
SYMMETRY Sym
