SPECIFICATION FairHSpec
CONSTANTS
    Portfolio = {p1}
    Instrument = {i1, i2}
    Txn = {t1, t2}
    Request = {r1, r2}
    UsedType = {"BUY"}
    UnitValue <- OneUnit
    MaxUnits = 2
    Behaviour = {"overlap", "partialUpdate"}
    None = None
INVARIANTS
    NoPhantomPosition
PROPERTIES
    RequestsFinish
