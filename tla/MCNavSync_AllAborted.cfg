SPECIFICATION Spec
CONSTANTS
    Instrument = {i1, i2}
    Caller = {c1}
    Run = {}
    Job = {j1, j2}
    MaxDay = 1
    Behaviour = {"delete"}
    None = None
PROPERTIES
    SyncAllIsWhole
