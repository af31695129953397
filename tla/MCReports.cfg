SPECIFICATION Spec
CONSTANTS
    f1 = f1
    f2 = f2
    Portfolio = {p1, p2}
    Fund = {f1, f2}
    Txn = {t1, t2}
    UsedType = {"BUY", "SELL", "FEE_CONSOLIDATION"}
    UnitValue = {1}
    Price = {4, 12}
    Paid = {1}
    Fees = {0}
    MaxDay = 4
    TradeDay = {1, 2}
    PriceDay = {1, 3, 4}
    MaxRows = 4
    One = 2
    Cent = 4
    Drift = 1
    Weight <- OneToThree
    Amount = {2, 5}
    Today = 2
    None = None
INVARIANTS
    WindowsAgree
    ChoicesAddUp
    ChartEndsAtValuation
    ValuationsAgree
    SearchFindsLatest
    SeriesMatchesPicker
    BuySpendsAmount
PROPERTIES
    PastIsStable
SYMMETRY Sym
