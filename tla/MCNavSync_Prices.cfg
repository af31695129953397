SPECIFICATION Spec
CONSTANTS
    Instrument = {i1}
    Caller = {c1, c2}
    Run = {w1}
    Job = {j1, j2, j3}
    MaxDay = 3
    Behaviour = {"delete", "crash"}
    None = None
INVARIANTS
    NoGaps
PROPERTIES
    MirrorsPublished
SYMMETRY Sym
