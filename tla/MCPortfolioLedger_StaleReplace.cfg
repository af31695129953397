SPECIFICATION Spec
CONSTANTS
    Portfolio = {p1}
    Instrument = {i1}
    Txn = {t1, t2}
    Request = {r1, r2}
    UsedType = {"BUY", "SELL"}
    UnitValue <- OneUnit
    MaxUnits = 2
    Behaviour = {"overlap"}
    None = None
INVARIANTS
    LedgerPositionsAgree
SYMMETRY Sym
