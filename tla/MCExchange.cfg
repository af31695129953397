SPECIFICATION Spec
CONSTANTS
    Comma = Comma
    Quote = Quote
    Newline = Newline
    Space = Space
    Backslash = Backslash
    Bar = Bar
    Header = Header
    a = a
    x1 = x1
    x2 = x2
    m1 = m1
    m2 = m2
    Isin = {x1, x2}
    Code = {m1, m2}
    Slot = {s1, s2}
    MaxRows = 2
    Label <- PlainLabel
    Prose <- SomeProse
    Ext <- SomeExt
    Row <- Rows
    InstrumentFile <- InstrumentFiles
    TemplateFile <- TemplateFiles
    Whole = 100
    NaN = NaN
    None = None
INVARIANTS
    PlainCsvAgrees
    BackupIsWhole
    CatalogueCsvIsFaithful
PROPERTIES
    ImportOnlyAdds
    ImportTellsAll
