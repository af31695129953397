SPECIFICATION FairSpec
CONSTANTS
    Instrument = {i1, i2}
    Template = {m1}
    Code = {"A", "B"}
    Reserved = {}
    Request = {r1, r2}
    Weight <- TwoFunds
    Whole = 10000
    Tolerance = 1
    None = None
INVARIANTS
    WeightsWhole
    NeverTorn
PROPERTIES
    RequestsFinish
